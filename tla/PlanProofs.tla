----------------------------- MODULE PlanProofs ------------------------------
(***************************************************************************)
(* What the lock plans p2 and p3 guarantee, in every deployment: their     *)
(* keys are leases, a thread without a request holds nothing, and with the *)
(* Java locks, which do not expire, bodies for a common id stay apart and  *)
(* waits form no cycle.                                                    *)
(***************************************************************************)
EXTENDS BooksProofs

(* the ids a thread has locked and is still to work with *)
UsersLocked(t) ==
  IF pc[t] = "lockUser" THEN who[t] \ todo[t] ELSE UsersInUse(t)
ProductsLocked(t) ==
  IF pc[t] = "lockProduct" THEN InBatch(batch[t]) \ todo[t] ELSE ProductsInUse(t)

(* the steps at which a thread has no keys: the ends of an operation, the  *)
(* first statement of a reload, the whole of a reset                       *)
Keyless == Apart \cup {"commit", "rollback", "find"}

-----------------------------------------------------------------------------
(* The inductive invariant, thread by thread. *)

(* Where keys do not expire a thread owns what it has to release. *)
KeysKept(t) == conf.plan # "p2" => \A k \in keys[t] : planLock[k] = t

KeysOfBody(t) ==
  conf.plan = "p3" => /\ \A u \in UsersLocked(t) : <<"uid", "map", u>> \in keys[t]
                      /\ \A p \in ProductsLocked(t) : <<"pid", "map", p>> \in keys[t]

KeysAtEnds(t) == pc[t] \in Keyless => keys[t] = {}

(* users before products, and each of them in ascending order *)
KeysAscend(t) ==
  conf.plan = "p3" => \A k \in keys[t] :
    /\ pc[t] \in {"lockUser", "cart"} => k[1] = "uid"
    /\ pc[t] = "lockUser" => \A i \in todo[t] : k[3] < i
    /\ pc[t] = "lockProduct" /\ k[1] = "pid" => \A i \in todo[t] : k[3] < i

RowsAtIdle(t) == pc[t] = "idle" => shared[t] = {} /\ \A r \in Rows : holder[r] # t

ThreadKeys(t) ==
  KeysKept(t) /\ KeysOfBody(t) /\ KeysAtEnds(t) /\ KeysAscend(t) /\ RowsAtIdle(t)

(* A key is on its owner's list, unless Redis threw while the owner locked *)
(* or unlocked.                                                            *)
KeysOwned == \A t \in Threads, k \in LockNames :
               planLock[k] = t => k \in keys[t] \/ (conf.plan = "p2" /\ k \in lost)

PlanInv == KeysOwned /\ \A t \in Threads : ThreadKeys(t)

-----------------------------------------------------------------------------
(* What a step of t leaves alone. *)

(* the locks of others, in the database ... *)
OnlyOwn(t) ==
  /\ conf' = conf
  /\ \A u \in Threads \ {t} : shared'[u] = shared[u]
  /\ \A r \in Rows : holder'[r] \in {holder[r], t, NoThread}

(* ... and their locals *)
Frame(t) ==
  /\ OnlyOwn(t)
  /\ \A u \in Threads \ {t} :
       /\ pc'[u] = pc[u] /\ kind'[u] = kind[u] /\ who'[u] = who[u]
       /\ todo'[u] = todo[u] /\ batch'[u] = batch[u]

LEMMA StatementOwn ==
  ASSUME DatabaseTypeOK, NEW t \in Threads,
         \/ UNCHANGED dbVars
         \/ Insert(t)
         \/ \E R : Read(t, R)
         \/ \E r : ForUpdateLock(t, r)
         \/ \E r, value, reads : Update(t, r, value, reads)
         \/ CommitTransaction(t)
         \/ RollbackTransaction(t)
  PROVE  OnlyOwn(t)
<1>1. CASE UNCHANGED dbVars
  BY <1>1 DEF dbVars, OnlyOwn
<1>2. CASE Insert(t) \/ (\E R : Read(t, R))
  BY <1>2 DEF DatabaseTypeOK, Insert, Read, OnlyOwn
<1>3. CASE (\E r : ForUpdateLock(t, r)) \/ (\E r, value, reads : Update(t, r, value, reads))
  BY <1>3 DEF DatabaseTypeOK, ForUpdateLock, Update, OnlyOwn
<1>4. CASE CommitTransaction(t) \/ RollbackTransaction(t)
  BY <1>4 DEF DatabaseTypeOK, CommitTransaction, RollbackTransaction, Forget, OnlyOwn
<1> QED
  BY <1>1, <1>2, <1>3, <1>4

(* The keys of a thread whose locals stay, and whose keys nobody takes. *)
LEMMA OtherKeys ==
  ASSUME DatabaseTypeOK, PlanInv, NEW t \in Threads, Frame(t), NEW u \in Threads \ {t},
         keys'[u] = keys[u], \A k \in keys[u] : planLock[k] = u => planLock'[k] = u
  PROVE  ThreadKeys(u)'
<1>1. ThreadKeys(u) /\ u # NoThread
  BY DatabaseAssumption DEF PlanInv
<1>2. KeysKept(u)' /\ KeysAtEnds(u)' /\ KeysAscend(u)'
  BY <1>1 DEF ThreadKeys, KeysKept, KeysAtEnds, KeysAscend, Frame, OnlyOwn
<1>3. KeysOfBody(u)'
  BY <1>1 DEF ThreadKeys, KeysOfBody, UsersLocked, ProductsLocked, UsersInUse, ProductsInUse,
              Frame, OnlyOwn
<1>4. RowsAtIdle(u)'
  BY <1>1 DEF ThreadKeys, RowsAtIdle, Frame, OnlyOwn
<1> QED
  BY <1>2, <1>3, <1>4 DEF ThreadKeys

(* Steps that ask the plan for nothing. *)
LEMMA PlanKept ==
  ASSUME DatabaseTypeOK, PlanInv, NEW t \in Threads, Frame(t), UNCHANGED planVars,
         KeysOfBody(t)', KeysAtEnds(t)', KeysAscend(t)', RowsAtIdle(t)'
  PROVE  PlanInv'
<1>1. ThreadKeys(t)'
  BY DEF PlanInv, ThreadKeys, KeysKept, planVars, Frame, OnlyOwn
<1>2. \A u \in Threads \ {t} : ThreadKeys(u)'
  BY OtherKeys DEF planVars
<1> QED
  BY <1>1, <1>2 DEF PlanInv, KeysOwned, planVars, Frame, OnlyOwn

(* A thread that has left the body works with no id any more. *)
LEMMA LeftKeys ==
  ASSUME DatabaseTypeOK, PlanInv, NEW t \in Threads, Frame(t), UNCHANGED planVars,
         pc'[t] \in {"unlock", "commit", "rollback"} \cup ResetLabels,
         pc'[t] # "unlock" => keys[t] = {}
  PROVE  PlanInv'
<1>1. KeysOfBody(t)'
  BY DEF KeysOfBody, UsersLocked, ProductsLocked, UsersInUse, ProductsInUse, ResetLabels
<1>2. KeysAtEnds(t)' /\ KeysAscend(t)' /\ RowsAtIdle(t)'
  BY DEF KeysAtEnds, KeysAscend, RowsAtIdle, Keyless, Apart, ResetLabels, planVars
<1> QED
  BY <1>1, <1>2, PlanKept

LEMMA LeaveKeys ==
  ASSUME BizTypeOK, NEW t \in Threads, NEW o, Leave(t, o)
  PROVE  /\ pc'[t] \in {"unlock", "commit", "rollback"}
         /\ pc'[t] # "unlock" => keys[t] = {}
         /\ \A u \in Threads \ {t} : pc'[u] = pc[u]
BY DEF BizTypeOK, Leave, Ending

(* Within the body: from statement to statement of the same operation. *)
AccountSteps == {"source", "deduct", "cash", "credit", "status"}
StockSteps   == {"reload", "restock"}

LEMMA BodyKeys ==
  ASSUME StockInv, PlanInv, NEW t \in Threads, Frame(t), UNCHANGED planVars,
         kind'[t] = kind[t], who'[t] = who[t], batch'[t] = batch[t],
         \/ pc[t] \in AccountSteps /\ pc'[t] \in AccountSteps
         \/ pc[t] \in StockSteps /\ pc'[t] \in StockSteps
  PROVE  PlanInv'
<1>1. pc[t] = "status" => kind[t] # "package"
  BY DEF StockInv, WorkOK, ThreadOK
<1>2. UsersLocked(t)' \subseteq UsersLocked(t) /\ ProductsLocked(t)' \subseteq ProductsLocked(t)
  BY <1>1 DEF UsersLocked, ProductsLocked, UsersInUse, ProductsInUse, AccountSteps, StockSteps
<1>3. KeysOfBody(t)'
  BY <1>2 DEF PlanInv, ThreadKeys, KeysOfBody, planVars, Frame, OnlyOwn
<1>4. KeysAtEnds(t)' /\ KeysAscend(t)' /\ RowsAtIdle(t)'
  BY DEF KeysAtEnds, KeysAscend, RowsAtIdle, Keyless, Apart, ResetLabels, AccountSteps, StockSteps
<1> QED
  BY <1>3, <1>4, PlanKept DEF StockInv, TypeOK

LEMMA Proceeds ==
  ASSUME StockInv, PlanInv, NEW t \in Threads, OnlyOwn(t), UNCHANGED <<planVars, kind, who, batch>>,
         \A u \in Threads \ {t} : pc'[u] = pc[u] /\ todo'[u] = todo[u],
         \/ pc[t] \in AccountSteps /\ pc'[t] \in AccountSteps
         \/ pc[t] \in StockSteps /\ pc'[t] \in StockSteps
         \/ \E o : Leave(t, o)
  PROVE  PlanInv'
<1>1. Frame(t)
  BY DEF Frame
<1>2. CASE \E o : Leave(t, o)
  BY <1>1, <1>2, LeaveKeys, LeftKeys DEF StockInv, TypeOK
<1> QED
  BY <1>1, <1>2, BodyKeys

-----------------------------------------------------------------------------
(* The steps that do not ask the plan for anything. *)

LEMMA LeavingKeys ==
  ASSUME StockInv, PlanInv, NEW t \in Threads,
         DrawFails(t) \/ LockTimeout(t) \/ StatementFails(t) \/ NextIdThrows(t)
  PROVE  PlanInv'
<1>1. /\ \E o : Leave(t, o)
      /\ UNCHANGED <<planVars, kind, who, batch, todo>>
      /\ \/ UNCHANGED dbVars
         \/ \E R : Read(t, R)
         \/ \E r, value, reads : Update(t, r, value, reads)
  BY DEF DrawFails, LockTimeout, StatementFails, NextIdThrows, requestVars, workVars
<1>2. OnlyOwn(t)
  BY <1>1, StatementOwn DEF StockInv, TypeOK
<1>3. \A u \in Threads \ {t} : pc'[u] = pc[u] /\ todo'[u] = todo[u]
  BY <1>1, LeaveKeys DEF StockInv, TypeOK
<1> QED
  BY <1>1, <1>2, <1>3, Proceeds

LEMMA CreateSourceKeys ==
  ASSUME StockInv, PlanInv, NEW t \in Threads, CreateSource(t)
  PROVE  PlanInv'
<1>1. /\ Insert(t) /\ UNCHANGED <<planVars, kind, who, batch, todo>>
      /\ pc[t] = "source"
      /\ pc' = [pc EXCEPT ![t] = IF kind[t] = "package" THEN "deduct" ELSE "cash"]
  BY DEF CreateSource, Goto, requestVars
<1>2. OnlyOwn(t)
  BY <1>1, StatementOwn DEF StockInv, TypeOK
<1>3. pc[t] \in AccountSteps /\ pc'[t] \in AccountSteps
      /\ \A u \in Threads \ {t} : pc'[u] = pc[u]
  BY <1>1 DEF AccountSteps, StockInv, TypeOK, BizTypeOK
<1> QED
  BY <1>1, <1>2, <1>3, Proceeds

LEMMA ItemKeys ==
  ASSUME StockInv, PlanInv, NEW t \in Threads, DeductStock(t) \/ SkipProduct(t)
  PROVE  PlanInv'
<1>1. /\ Insert(t) \/ \E r, value, reads : Update(t, r, value, reads)
      /\ UNCHANGED <<planVars, kind, who, batch>>
      /\ pc[t] = "deduct" /\ \E p, entries : NextItem(t, p, entries)
  BY DEF DeductStock, SkipProduct, requestVars, workVars
<1>2. OnlyOwn(t)
  BY <1>1, StatementOwn DEF StockInv, TypeOK
<1>3. /\ \A u \in Threads \ {t} : pc'[u] = pc[u] /\ todo'[u] = todo[u]
      /\ pc'[t] \in AccountSteps \/ \E o : Leave(t, o)
  BY <1>1, LeaveKeys DEF NextItem, Goto, AccountSteps, StockInv, TypeOK, BizTypeOK
<1> QED
  BY <1>1, <1>2, <1>3, Proceeds DEF AccountSteps

LEMMA AccountKeys ==
  ASSUME StockInv, PlanInv, NEW t \in Threads, ReadCash(t) \/ PayBill(t) \/ Recharge(t)
  PROVE  PlanInv'
<1>1. /\ \E R : Read(t, R)
      /\ UNCHANGED <<planVars, kind, who, batch, todo>>
      /\ pc[t] \in {"cash", "credit"}
      /\ (\E o : Leave(t, o)) \/ Goto(t, "credit") \/ Goto(t, "status")
  BY DEF ReadCash, PayBill, Recharge, requestVars, workVars
<1>2. OnlyOwn(t)
  BY <1>1, StatementOwn DEF StockInv, TypeOK
<1>3. /\ \A u \in Threads \ {t} : pc'[u] = pc[u]
      /\ pc'[t] \in AccountSteps \/ \E o : Leave(t, o)
  BY <1>1, LeaveKeys DEF Goto, AccountSteps, StockInv, TypeOK, BizTypeOK
<1> QED
  BY <1>1, <1>2, <1>3, Proceeds DEF AccountSteps

LEMMA StatusKeys ==
  ASSUME StockInv, PlanInv, NEW t \in Threads, UpdateStatusCode(t)
  PROVE  PlanInv'
<1>1. /\ UNCHANGED <<dbVars, planVars, kind, who, batch>> /\ pc[t] = "status"
      /\ todo'  = [todo EXCEPT ![t] = @ \ {Account(t)}]
      /\ (\E o : Leave(t, o)) \/ Goto(t, "source")
  BY DEF UpdateStatusCode, requestVars, workVars
<1>2. OnlyOwn(t)
  BY <1>1, StatementOwn DEF StockInv, TypeOK
<1>3. /\ \A u \in Threads \ {t} : pc'[u] = pc[u] /\ todo'[u] = todo[u]
      /\ pc'[t] \in AccountSteps \/ \E o : Leave(t, o)
  BY <1>1, LeaveKeys DEF Goto, AccountSteps, StockInv, TypeOK, BizTypeOK
<1> QED
  BY <1>1, <1>2, <1>3, Proceeds DEF AccountSteps

LEMMA StockKeys ==
  ASSUME StockInv, PlanInv, NEW t \in Threads, ReadStock(t) \/ Restock(t)
  PROVE  PlanInv'
<1>1. /\ \/ UNCHANGED dbVars
         \/ \E R : Read(t, R)
         \/ \E r, value, reads : Update(t, r, value, reads)
      /\ UNCHANGED <<planVars, kind, who, batch>> /\ pc[t] \in StockSteps
      /\ todo' \in {todo, [todo EXCEPT ![t] = @ \ {First(todo[t])}]}
      /\ (\E o : Leave(t, o)) \/ Goto(t, "reload") \/ Goto(t, "restock")
  BY DEF ReadStock, Restock, requestVars, workVars, StockSteps
<1>2. OnlyOwn(t)
  BY <1>1, StatementOwn DEF StockInv, TypeOK
<1>3. /\ \A u \in Threads \ {t} : pc'[u] = pc[u] /\ todo'[u] = todo[u]
      /\ pc'[t] \in StockSteps \/ \E o : Leave(t, o)
  BY <1>1, LeaveKeys DEF Goto, StockSteps, StockInv, TypeOK, BizTypeOK
<1> QED
  BY <1>1, <1>2, <1>3, Proceeds

(* before the commit of an order or inside the body of a bill *)
LEMMA FlushKeys ==
  ASSUME StockInv, PlanInv, NEW t \in Threads, Flush(t)
  PROVE  PlanInv'
<1>1. /\ \E r, value, reads : Update(t, r, value, reads)
      /\ UNCHANGED <<planVars, pc, kind, who, batch, todo>> /\ pc[t] \in {"status", "commit"}
  BY DEF Flush, requestVars, workVars
<1>2. OnlyOwn(t)
  BY <1>1, StatementOwn DEF StockInv, TypeOK
<1>3. CASE pc[t] = "status"
  BY <1>1, <1>2, <1>3, Proceeds DEF AccountSteps
<1>4. CASE pc[t] = "commit"
  <2>1. keys[t] = {}
    BY <1>4 DEF PlanInv, ThreadKeys, KeysAtEnds, Keyless
  <2> QED
    BY <1>1, <1>2, <1>4, <2>1, LeftKeys DEF Frame, StockInv, TypeOK
<1> QED
  BY <1>1, <1>3, <1>4

(* a reset, and a commit that PostgreSQL refuses, have no keys *)
LEMMA KeylessKeys ==
  ASSUME StockInv, PlanInv, NEW t \in Threads,
         \/ CommitRefused(t) \/ ResetFails(t)
         \/ ResetRow(t) \/ ClearSources(t) \/ ClearItems(t) \/ ClearTrades(t) \/ ClearLogs(t)
  PROVE  PlanInv'
<1>1. keys[t] = {}
  BY DEF PlanInv, ThreadKeys, KeysAtEnds, Keyless, Apart, ResetLabels, CommitRefused,
         ResetFails, ResetRow, UpdateLabels, ClearSources, SourceLabels, ClearItems,
         ClearTrades, ClearLogs
<1>2. /\ UNCHANGED <<planVars, kind, who, batch>>
      /\ pc'[t] \in {"rollback"} \cup ResetLabels
      /\ \A u \in Threads \ {t} : pc'[u] = pc[u] /\ todo'[u] = todo[u]
  <2>1. CASE ResetRow(t)
    <3>1. pc[t] \in UpdateLabels /\ NextUpdate(pc[t]) \in ResetLabels /\ pc[t] \in ResetLabels
      BY <2>1 DEF ResetRow, UpdateLabels, NextUpdate, ResetLabels
    <3> QED
      BY <2>1, <3>1 DEF ResetRow, StockInv, TypeOK, BizTypeOK, requestVars, workVars
  <2>2. CASE CommitRefused(t) \/ ResetFails(t) \/ ClearItems(t) \/ ClearTrades(t) \/ ClearLogs(t)
    BY <2>2 DEF CommitRefused, ResetFails, ClearItems, ClearTrades, ClearLogs, ResetLabels,
                StockInv, TypeOK, BizTypeOK, requestVars, workVars
  <2>3. CASE ClearSources(t)
    <3>1. pc[t] \in SourceLabels /\ NextClear(pc[t]) \in ResetLabels
      BY <2>3 DEF ClearSources, SourceLabels, NextClear, ResetLabels
    <3> QED
      BY <2>3, <3>1 DEF ClearSources, StockInv, TypeOK, BizTypeOK, requestVars, workVars
  <2> QED
    BY <2>1, <2>2, <2>3
<1>3. OnlyOwn(t)
  <2>1. CASE ResetRow(t)
    BY <2>1 DEF ResetRow, OnlyOwn, StockInv, TypeOK, DatabaseTypeOK
  <2>2. CASE UNCHANGED dbVars
    BY <2>2, StatementOwn DEF StockInv, TypeOK
  <2> QED
    BY <2>1, <2>2 DEF CommitRefused, ResetFails, ClearSources, ClearItems, ClearTrades, ClearLogs
<1>4. Frame(t)
  BY <1>2, <1>3 DEF Frame
<1> QED
  BY <1>1, <1>2, <1>4, LeftKeys DEF StockInv, TypeOK

-----------------------------------------------------------------------------
(* The steps that take a key. *)

LEMMA KeyTaken ==
  ASSUME StockInv, PlanInv, NEW t \in Threads, Frame(t), NEW k \in LockNames, AcquireKey(t, k),
         pc'[t] \notin Keyless, KeysOfBody(t)', KeysAscend(t)'
  PROVE  PlanInv'
<1>1. /\ keys'[t] = keys[t] \cup {k} /\ planLock[k] = NoThread /\ planLock'[k] = t
      /\ \A u \in Threads \ {t} : keys'[u] = keys[u]
      /\ \A j \in LockNames \ {k} : planLock'[j] = planLock[j]
      /\ keys[t] \subseteq LockNames
  BY DEF AcquireKey, StockInv, TypeOK, PlanTypeOK
<1>2. ThreadKeys(t)'
  BY <1>1 DEF PlanInv, ThreadKeys, KeysKept, KeysAtEnds, RowsAtIdle, Keyless, Apart, Frame, OnlyOwn
<1>3. ASSUME NEW u \in Threads \ {t} PROVE ThreadKeys(u)'
  <2>1. \A j \in keys[u] : planLock[j] = u => planLock'[j] = u
    BY <1>1, DatabaseAssumption DEF StockInv, TypeOK, PlanTypeOK
  <2> QED
    BY <1>1, <2>1, OtherKeys DEF StockInv, TypeOK
<1>4. KeysOwned'
  BY <1>1 DEF PlanInv, KeysOwned, AcquireKey, Frame, OnlyOwn
<1> QED
  BY <1>2, <1>3, <1>4 DEF PlanInv

(* a call that throws may leave a key that only Redis knows of *)
LEMMA LockThrowsKeys ==
  ASSUME StockInv, PlanInv, NEW t \in Threads, LockThrows(t)
  PROVE  PlanInv'
<1>1. PICK k : AcquireThrows(t, k)
  BY DEF LockThrows
<1>2. /\ conf.plan = "p2" /\ Leave(t, "redis")
      /\ UNCHANGED <<dbVars, kind, who, todo, batch>>
  BY DEF LockThrows, requestVars, workVars
<1>3. /\ keys' = keys /\ lost \subseteq lost'
      /\ \A j \in LockNames : \/ planLock'[j] = planLock[j]
                              \/ planLock[j] = NoThread /\ planLock'[j] = t /\ j \in lost'
  <2>1. CASE UNCHANGED <<planLock, lost>>
    BY <1>1, <2>1 DEF AcquireThrows
  <2>2. CASE /\ planLock[k] = NoThread /\ planLock' = [planLock EXCEPT ![k] = t]
             /\ lost' = lost \cup {k}
    BY <1>1, <2>2 DEF AcquireThrows, StockInv, TypeOK, PlanTypeOK
  <2> QED
    BY <1>1, <2>1, <2>2 DEF AcquireThrows
<1>4. /\ pc'[t] \in {"unlock", "rollback"}
      /\ pc'[t] # "unlock" => keys[t] = {}
      /\ \A u \in Threads \ {t} : pc'[u] = pc[u]
  BY <1>2 DEF Leave, Ending, StockInv, TypeOK, BizTypeOK
<1>5. Frame(t) /\ conf' = conf
  BY <1>2, <1>4 DEF Frame, OnlyOwn, dbVars
<1>6. ThreadKeys(t)'
  <2>1. KeysKept(t)' /\ KeysAtEnds(t)' /\ KeysAscend(t)' /\ RowsAtIdle(t)'
    BY <1>2, <1>3, <1>4, <1>5
       DEF KeysKept, KeysAtEnds, KeysAscend, RowsAtIdle, Keyless, Apart, ResetLabels
  <2>2. KeysOfBody(t)'
    BY <1>2, <1>5 DEF KeysOfBody
  <2> QED
    BY <2>1, <2>2 DEF ThreadKeys
<1>7. ASSUME NEW u \in Threads \ {t} PROVE ThreadKeys(u)'
  <2>1. \A j \in keys[u] : planLock[j] = u => planLock'[j] = u
    BY <1>3, DatabaseAssumption DEF StockInv, TypeOK, PlanTypeOK
  <2> QED
    BY <1>3, <1>5, <2>1, OtherKeys DEF StockInv, TypeOK
<1>8. KeysOwned'
  BY <1>2, <1>3, <1>5 DEF PlanInv, KeysOwned
<1> QED
  BY <1>6, <1>7, <1>8 DEF PlanInv

LEMMA NameInMap ==
  ASSUME NEW type, NEW form, NEW id, conf.plan = "p3"
  PROVE  LockName(type, form, id) = <<type, "map", id>>
BY DEF LockName

LEMMA LockUserKeys ==
  ASSUME StockInv, PlanInv, NEW t \in Threads, LockUser(t)
  PROVE  PlanInv'
<1>1. PICK u \in NextIds(todo[t]) :
        /\ PlanAcquire(t, "uid", UserForm(t), u)
        /\ IF todo[t] = {u}
           THEN /\ todo' = [todo EXCEPT ![t] = who[t]]
                /\ Goto(t, IF kind[t] = "package" THEN "cart" ELSE "source")
           ELSE /\ todo' = [todo EXCEPT ![t] = @ \ {u}]
                /\ UNCHANGED <<pc, outcome>>
  BY DEF LockUser
<1>2. /\ u \in Users /\ u \in todo[t] /\ todo[t] \subseteq Users
      /\ pc[t] = "lockUser" /\ kind[t] \in {"package", "usage", "recharge"}
      /\ UNCHANGED <<kind, who, batch>>
  BY DEF LockUser, NextIds, StockInv, WorkOK, ThreadOK, requestVars, workVars
<1>3. /\ \/ todo[t] # {u} /\ pc'[t] = "lockUser" /\ todo'[t] = todo[t] \ {u}
         \/ todo[t] = {u} /\ pc'[t] = "cart" /\ kind[t] = "package"
         \/ todo[t] = {u} /\ pc'[t] = "source" /\ kind[t] # "package"
      /\ \A v \in Threads \ {t} : pc'[v] = pc[v] /\ todo'[v] = todo[v]
  BY <1>1, <1>2 DEF Goto, StockInv, TypeOK, BizTypeOK
<1>4. OnlyOwn(t)
  BY <1>1, StatementOwn DEF PlanAcquire, StockInv, TypeOK
<1>5. Frame(t) /\ pc'[t] \notin Keyless \cup {"idle"} /\ conf' = conf
  BY <1>2, <1>3, <1>4 DEF Frame, OnlyOwn, Keyless, Apart, ResetLabels
<1>6. CASE conf.plan = "p1"
  <2>1. UNCHANGED planVars
    BY <1>1, <1>6 DEF PlanAcquire
  <2> QED
    BY <1>5, <1>6, <2>1, PlanKept
       DEF KeysOfBody, KeysAtEnds, KeysAscend, RowsAtIdle, StockInv, TypeOK
<1>7. CASE conf.plan # "p1"
  <2> DEFINE k == LockName("uid", UserForm(t), u)
  <2>1. AcquireKey(t, k)
    BY <1>1, <1>7 DEF PlanAcquire
  <2>2. k \in LockNames /\ keys'[t] = keys[t] \cup {k}
    BY <1>2, <2>1, LockNameType DEF LockTypes, UserForm, AcquireKey, StockInv, TypeOK, PlanTypeOK
  <2>3. conf.plan = "p3" => k = <<"uid", "map", u>>
    BY NameInMap
  <2> HIDE DEF k
  <2>4. KeysOfBody(t)'
    <3>1. /\ UsersLocked(t)' \subseteq UsersLocked(t) \cup {u}
          /\ ProductsLocked(t)' = {}
      BY <1>2, <1>3 DEF UsersLocked, ProductsLocked, UsersInUse, ProductsInUse
    <3>2. KeysOfBody(t)
      BY DEF PlanInv, ThreadKeys
    <3> QED
      BY <1>5, <2>2, <2>3, <3>1, <3>2 DEF KeysOfBody
  <2>5. KeysAscend(t)'
    <3> SUFFICES ASSUME conf.plan = "p3", NEW l \in keys[t] \cup {k}
                 PROVE  /\ l[1] = "uid"
                        /\ pc'[t] = "lockUser" => \A i \in todo'[t] : l[3] < i
      BY <1>3, <1>5, <2>2 DEF KeysAscend
    <3>1. \A i \in todo[t] \ {u} : u < i
      <4>1. \A i \in todo[t] : u <= i
        BY <1>1 DEF NextIds, Least
      <4>2. todo[t] \subseteq Nat /\ u \in Nat
        BY <1>2, TablesAssumption
      <4> QED
        BY <4>1, <4>2
    <3>2. l \in keys[t] => l[1] = "uid" /\ \A i \in todo[t] : l[3] < i
      BY <1>2 DEF PlanInv, ThreadKeys, KeysAscend
    <3> QED
      BY <1>3, <2>3, <3>1, <3>2
  <2> QED
    BY <1>5, <2>1, <2>2, <2>4, <2>5, KeyTaken
<1> QED
  BY <1>6, <1>7

LEMMA LockProductKeys ==
  ASSUME StockInv, PlanInv, NEW t \in Threads, LockProduct(t)
  PROVE  PlanInv'
<1>1. PICK p \in NextIds(todo[t]) :
        /\ PlanAcquire(t, "pid", "set", p)
        /\ IF todo[t] = {p}
           THEN /\ todo' = [todo EXCEPT ![t] = InBatch(batch[t])]
                /\ Goto(t, IF kind[t] = "reload" THEN "reload" ELSE "source")
           ELSE /\ todo' = [todo EXCEPT ![t] = @ \ {p}]
                /\ UNCHANGED <<pc, outcome>>
  BY DEF LockProduct
<1>2. /\ p \in Products /\ p \in todo[t] /\ todo[t] \subseteq Products
      /\ pc[t] = "lockProduct" /\ kind[t] \in {"package", "reload"}
      /\ UNCHANGED <<kind, who, batch>>
  BY DEF LockProduct, NextIds, StockInv, WorkOK, ThreadOK, requestVars, workVars
<1>3. /\ \/ todo[t] # {p} /\ pc'[t] = "lockProduct" /\ todo'[t] = todo[t] \ {p}
         \/ todo[t] = {p} /\ pc'[t] = "reload" /\ kind[t] = "reload"
         \/ todo[t] = {p} /\ pc'[t] = "source" /\ kind[t] = "package"
      /\ \A v \in Threads \ {t} : pc'[v] = pc[v] /\ todo'[v] = todo[v]
  BY <1>1, <1>2 DEF Goto, StockInv, TypeOK, BizTypeOK
<1>4. OnlyOwn(t)
  BY <1>1, StatementOwn DEF PlanAcquire, StockInv, TypeOK
<1>5. Frame(t) /\ pc'[t] \notin Keyless \cup {"idle"} /\ conf' = conf
  BY <1>2, <1>3, <1>4 DEF Frame, OnlyOwn, Keyless, Apart, ResetLabels
<1>6. CASE conf.plan = "p1"
  <2>1. UNCHANGED planVars
    BY <1>1, <1>6 DEF PlanAcquire
  <2> QED
    BY <1>5, <1>6, <2>1, PlanKept
       DEF KeysOfBody, KeysAtEnds, KeysAscend, RowsAtIdle, StockInv, TypeOK
<1>7. CASE conf.plan # "p1"
  <2> DEFINE k == LockName("pid", "set", p)
  <2>1. AcquireKey(t, k)
    BY <1>1, <1>7 DEF PlanAcquire
  <2>2. k \in LockNames /\ keys'[t] = keys[t] \cup {k}
    BY <1>2, <2>1, LockNameType DEF LockTypes, AcquireKey, StockInv, TypeOK, PlanTypeOK
  <2>3. conf.plan = "p3" => k = <<"pid", "map", p>>
    BY NameInMap
  <2> HIDE DEF k
  <2>4. KeysOfBody(t)'
    <3>1. /\ UsersLocked(t)' \subseteq UsersLocked(t)
          /\ ProductsLocked(t)' \subseteq ProductsLocked(t) \cup {p}
      BY <1>2, <1>3 DEF UsersLocked, ProductsLocked, UsersInUse, ProductsInUse
    <3>2. KeysOfBody(t)
      BY DEF PlanInv, ThreadKeys
    <3> QED
      BY <1>5, <2>2, <2>3, <3>1, <3>2 DEF KeysOfBody
  <2>5. KeysAscend(t)'
    <3> SUFFICES ASSUME conf.plan = "p3", NEW l \in keys[t] \cup {k}, l[1] = "pid",
                        pc'[t] = "lockProduct"
                 PROVE  \A i \in todo'[t] : l[3] < i
      BY <1>3, <1>5, <2>2 DEF KeysAscend
    <3>1. \A i \in todo[t] \ {p} : p < i
      <4>1. \A i \in todo[t] : p <= i
        BY <1>1 DEF NextIds, Least
      <4>2. todo[t] \subseteq Nat /\ p \in Nat
        BY <1>2, TablesAssumption
      <4> QED
        BY <4>1, <4>2
    <3>2. l \in keys[t] => \A i \in todo[t] : l[3] < i
      BY <1>2 DEF PlanInv, ThreadKeys, KeysAscend
    <3> QED
      BY <1>3, <2>3, <3>1, <3>2
  <2> QED
    BY <1>5, <2>1, <2>2, <2>4, <2>5, KeyTaken
<1> QED
  BY <1>6, <1>7

(* from the users to the products: nothing of the new set is locked yet *)
LEMMA CartKeys ==
  ASSUME StockInv, PlanInv, NEW t \in Threads, FillCart(t) \/ FindInsufficient(t)
  PROVE  PlanInv'
<1>1. /\ UNCHANGED <<planVars, kind, who>> /\ Goto(t, "lockProduct")
      /\ UNCHANGED dbVars \/ \E R : Read(t, R)
      /\ \/ pc[t] = "cart"
         \/ pc[t] = "find" /\ kind[t] = "reload"
  BY DEF FillCart, FindInsufficient, requestVars, StockInv, WorkOK, ThreadOK
<1>2. /\ todo'[t] = InBatch(batch'[t])
      /\ \A u \in Threads \ {t} : todo'[u] = todo[u] /\ batch'[u] = batch[u]
  <2>1. CASE FillCart(t)
    BY <2>1 DEF FillCart, StockInv, TypeOK, BizTypeOK
  <2>2. CASE FindInsufficient(t)
    BY <2>2, ReloadFacts DEF FindInsufficient, StockInv, TypeOK, BizTypeOK
  <2> QED
    BY <2>1, <2>2
<1>3. OnlyOwn(t)
  BY <1>1, StatementOwn DEF StockInv, TypeOK
<1>4. pc'[t] = "lockProduct" /\ \A u \in Threads \ {t} : pc'[u] = pc[u]
  BY <1>1 DEF Goto, StockInv, TypeOK, BizTypeOK
<1>5. Frame(t) /\ conf' = conf
  BY <1>1, <1>2, <1>3, <1>4 DEF Frame, OnlyOwn
<1>6. KeysOfBody(t)'
  <2>1. UsersLocked(t)' \subseteq UsersLocked(t) /\ ProductsLocked(t)' = {}
    BY <1>1, <1>2, <1>4 DEF UsersLocked, ProductsLocked, UsersInUse, ProductsInUse
  <2> QED
    BY <1>1, <1>5, <2>1 DEF PlanInv, ThreadKeys, KeysOfBody, planVars
<1>7. KeysAscend(t)'
  <2>1. conf.plan = "p3" => \A k \in keys[t] : k[1] = "uid"
    BY <1>1 DEF PlanInv, ThreadKeys, KeysAscend, KeysAtEnds, Keyless
  <2> QED
    BY <1>1, <1>4, <1>5, <2>1 DEF KeysAscend, planVars
<1> QED
  BY <1>1, <1>4, <1>5, <1>6, <1>7, PlanKept
     DEF KeysAtEnds, RowsAtIdle, Keyless, Apart, ResetLabels, StockInv, TypeOK

-----------------------------------------------------------------------------
(* The steps that give keys up, and the ends of an operation. *)

LEMMA UnlockKeys ==
  ASSUME StockInv, PlanInv, NEW t \in Threads, Unlock(t)
  PROVE  PlanInv'
<1>1. PICK k \in keys[t] :
        /\ ReleaseKey(t, k)
        /\ IF keys[t] = {k} THEN Goto(t, Ending(outcome[t])) ELSE UNCHANGED <<pc, outcome>>
  BY DEF Unlock
<1>2. /\ pc[t] = "unlock" /\ UNCHANGED <<dbVars, kind, who, todo, batch>>
  BY DEF Unlock, requestVars, workVars
<1>3. /\ pc'[t] \in {"unlock", "commit", "rollback"}
      /\ keys[t] # {k} => pc'[t] = "unlock"
      /\ \A u \in Threads \ {t} : pc'[u] = pc[u]
  BY <1>1, <1>2 DEF Goto, Ending, StockInv, TypeOK, BizTypeOK
<1>4. /\ keys'[t] = keys[t] \ {k} /\ \A u \in Threads \ {t} : keys'[u] = keys[u]
      /\ k \in LockNames
      /\ \A j \in LockNames :
           planLock'[j] = IF j = k /\ planLock[j] = t THEN NoThread ELSE planLock[j]
  BY <1>1 DEF ReleaseKey, StockInv, TypeOK, PlanTypeOK
<1>5. OnlyOwn(t)
  BY <1>2, StatementOwn DEF StockInv, TypeOK
<1>6. Frame(t) /\ conf' = conf
  BY <1>2, <1>3, <1>5 DEF Frame, OnlyOwn
<1>7. ThreadKeys(t)'
  <2>1. KeysKept(t)' /\ KeysAtEnds(t)'
    BY <1>1, <1>3, <1>4, <1>6
       DEF PlanInv, ThreadKeys, KeysKept, KeysAtEnds, Keyless, Apart, ResetLabels,
           StockInv, TypeOK, PlanTypeOK
  <2>2. KeysOfBody(t)' /\ KeysAscend(t)' /\ RowsAtIdle(t)'
    BY <1>3 DEF KeysOfBody, KeysAscend, RowsAtIdle, UsersLocked, ProductsLocked,
                UsersInUse, ProductsInUse
  <2> QED
    BY <2>1, <2>2 DEF ThreadKeys
<1>8. ASSUME NEW u \in Threads \ {t} PROVE ThreadKeys(u)'
  <2>1. \A j \in keys[u] : planLock[j] = u => planLock'[j] = u
    BY <1>4 DEF StockInv, TypeOK, PlanTypeOK
  <2> QED
    BY <1>4, <1>6, <2>1, OtherKeys DEF StockInv, TypeOK
<1>9. KeysOwned'
  BY <1>1, <1>4, <1>6, DatabaseAssumption DEF PlanInv, KeysOwned, ReleaseKey
<1> QED
  BY <1>7, <1>8, <1>9 DEF PlanInv

LEMMA UnlockThrowsKeys ==
  ASSUME StockInv, PlanInv, NEW t \in Threads, UnlockThrows(t)
  PROVE  PlanInv'
<1>1. PICK k \in keys[t] : ReleaseThrows(t, k)
  BY DEF UnlockThrows
<1>2. /\ conf.plan = "p2" /\ UNCHANGED <<dbVars, kind, who, todo, batch>>
      /\ pc' = [pc EXCEPT ![t] = IF keys'[t] = {} THEN "rollback" ELSE "unlock"]
  BY DEF UnlockThrows, requestVars, workVars
<1>3. /\ pc'[t] \in {"unlock", "rollback"}
      /\ pc'[t] # "unlock" => keys'[t] = {}
      /\ \A u \in Threads \ {t} : pc'[u] = pc[u]
  BY <1>2 DEF StockInv, TypeOK, BizTypeOK
<1>4. /\ \A u \in Threads \ {t} : keys'[u] = keys[u]
      /\ lost \subseteq lost'
      /\ \A j \in LockNames : \/ planLock'[j] = planLock[j]
                              \/ planLock[j] = t /\ planLock'[j] = NoThread
      /\ \A j \in keys[t] : planLock'[j] = t => j \in keys'[t] \/ j \in lost'
  <2>1. /\ keys' = [keys EXCEPT ![t] = @ \ {l \in keys[t] : l[1] = k[1]}]
        /\ lost' = lost \cup {l \in keys[t] : l[1] = k[1] /\ planLock'[l] = t}
        /\ \/ planLock' = planLock
           \/ planLock' = [planLock EXCEPT ![k] = IF @ = t THEN NoThread ELSE @]
    BY <1>1 DEF ReleaseThrows
  <2>2. /\ planLock \in [LockNames -> Threads \cup {NoThread}]
        /\ keys \in [Threads -> SUBSET LockNames]
    BY DEF StockInv, TypeOK, PlanTypeOK
  <2>3. keys'[t] = keys[t] \ {l \in keys[t] : l[1] = k[1]}
    BY <2>1, <2>2
  <2>4. \A u \in Threads \ {t} : keys'[u] = keys[u]
    BY <2>1, <2>2
  <2>5. \A j \in LockNames : \/ planLock'[j] = planLock[j]
                             \/ planLock[j] = t /\ planLock'[j] = NoThread
    BY <2>1, <2>2
  <2> QED
    BY <2>1, <2>3, <2>4, <2>5
<1>5. Frame(t) /\ conf' = conf
  BY <1>2, <1>3 DEF Frame, OnlyOwn, dbVars
<1>6. ThreadKeys(t)'
  <2>1. KeysKept(t)' /\ KeysAtEnds(t)' /\ KeysAscend(t)' /\ RowsAtIdle(t)'
    BY <1>2, <1>3, <1>5
       DEF KeysKept, KeysAtEnds, KeysAscend, RowsAtIdle, Keyless, Apart, ResetLabels
  <2>2. KeysOfBody(t)'
    BY <1>2, <1>5 DEF KeysOfBody
  <2> QED
    BY <2>1, <2>2 DEF ThreadKeys
<1>7. ASSUME NEW u \in Threads \ {t} PROVE ThreadKeys(u)'
  <2>1. \A j \in keys[u] : planLock[j] = u => planLock'[j] = u
    BY <1>4 DEF StockInv, TypeOK, PlanTypeOK
  <2> QED
    BY <1>4, <1>5, <2>1, OtherKeys DEF StockInv, TypeOK
<1>8. KeysOwned'
  <2> SUFFICES ASSUME NEW u \in Threads, NEW j \in LockNames, planLock'[j] = u
               PROVE  j \in keys'[u] \/ j \in lost'
    BY <1>2, <1>5 DEF KeysOwned
  <2>1. planLock[j] = u
    BY <1>4, DatabaseAssumption
  <2>2. j \in keys[u] \/ j \in lost
    BY <2>1 DEF PlanInv, KeysOwned
  <2> QED
    BY <1>4, <2>2
<1> QED
  BY <1>6, <1>7, <1>8 DEF PlanInv

(* An operation that begins has locked none of its ids, one that ended has *)
(* none, and neither has keys.                                             *)
LEMMA EndKeys ==
  ASSUME StockInv, PlanInv, NEW t \in Threads, Frame(t), UNCHANGED planVars, keys[t] = {},
         \/ pc'[t] = "idle" /\ shared'[t] = {} /\ \A r \in Rows : holder'[r] # t
         \/ pc'[t] \in {"find", "resetCash"}
         \/ pc'[t] = "lockUser" /\ who'[t] \subseteq todo'[t]
  PROVE  PlanInv'
<1>1. KeysOfBody(t)'
  BY DEF KeysOfBody, UsersLocked, ProductsLocked, UsersInUse, ProductsInUse
<1>2. KeysAtEnds(t)' /\ KeysAscend(t)' /\ RowsAtIdle(t)'
  BY DEF KeysAtEnds, KeysAscend, RowsAtIdle, planVars
<1> QED
  BY <1>1, <1>2, PlanKept DEF StockInv, TypeOK

LEMMA ForgetFacts ==
  ASSUME DatabaseTypeOK, NEW t \in Threads, Forget(t)
  PROVE  shared'[t] = {} /\ \A r \in Rows : holder'[r] # t
BY DatabaseAssumption DEF Forget, DatabaseTypeOK

LEMMA FinishKeys ==
  ASSUME StockInv, PlanInv, NEW t \in Threads, Commit(t) \/ GiveUp(t) \/ Retry(t)
  PROVE  PlanInv'
<1>1. /\ CommitTransaction(t) \/ RollbackTransaction(t)
      /\ Clear(t) /\ UNCHANGED planVars
      /\ pc[t] \in {"commit", "rollback", "resetCommit", "resetRollback"}
      /\ Answer(t) \/ Retry(t)
  BY DEF Commit, GiveUp, Retry, CommitBiz, CommitReset, RollbackBiz, RollbackReset
<1>2. keys[t] = {}
  BY <1>1 DEF PlanInv, ThreadKeys, KeysAtEnds, Keyless, Apart, ResetLabels
<1>3. DatabaseTypeOK /\ BizTypeOK
  BY DEF StockInv, TypeOK
<1>4. OnlyOwn(t) /\ shared'[t] = {} /\ \A r \in Rows : holder'[r] # t
  BY <1>1, <1>3, StatementOwn, ForgetFacts DEF CommitTransaction, RollbackTransaction
<1>5. \A u \in Threads \ {t} : batch'[u] = batch[u]
  BY <1>1, <1>3, ClearFacts
<1>6. CASE Answer(t)
  <2>1. pc'[t] = "idle" /\ Frame(t)
    BY <1>4, <1>5, <1>6, AnswerFacts DEF Frame
  <2> QED
    BY <1>1, <1>2, <1>4, <2>1, EndKeys
<1>7. CASE Retry(t)
  <2>1. /\ pc' = [pc EXCEPT ![t] = "lockUser"] /\ todo' = [todo EXCEPT ![t] = who[t]]
        /\ UNCHANGED <<kind, who>>
    BY <1>7 DEF Retry, Retries, FirstStep, requestVars
  <2>2. pc'[t] = "lockUser" /\ who'[t] \subseteq todo'[t] /\ Frame(t)
    BY <1>3, <1>4, <1>5, <2>1 DEF Frame, BizTypeOK
  <2> QED
    BY <1>1, <1>2, <2>2, EndKeys
<1> QED
  BY <1>1, <1>6, <1>7

LEMMA ExecuteKeys ==
  ASSUME StockInv, PlanInv, NEW t \in Threads, Execute(t)
  PROVE  PlanInv'
<1>1. PICK k \in Workload[conf] : \E S \in UserSets(k) :
        /\ kind' = [kind EXCEPT ![t] = k]
        /\ who'  = [who EXCEPT ![t] = S]
        /\ todo' = [todo EXCEPT ![t] = FirstIds(k, S)]
        /\ pc'   = [pc EXCEPT ![t] = FirstStep(k)]
  BY DEF Execute
<1>2. PICK S \in UserSets(k) :
        /\ kind' = [kind EXCEPT ![t] = k]
        /\ who'  = [who EXCEPT ![t] = S]
        /\ todo' = [todo EXCEPT ![t] = FirstIds(k, S)]
        /\ pc'   = [pc EXCEPT ![t] = FirstStep(k)]
  BY <1>1
<1>3. pc[t] = "idle" /\ UNCHANGED <<dbVars, planVars, batch>>
  BY DEF Execute, workVars
<1>4. keys[t] = {}
  BY <1>3 DEF PlanInv, ThreadKeys, KeysAtEnds, Keyless, Apart
<1>5. OnlyOwn(t)
  BY <1>3, StatementOwn DEF StockInv, TypeOK
<1>6. Frame(t)
  BY <1>2, <1>3, <1>5 DEF Frame, StockInv, TypeOK, BizTypeOK
<1>7. \/ pc'[t] \in {"find", "resetCash"}
      \/ pc'[t] = "lockUser" /\ who'[t] \subseteq todo'[t]
  BY <1>2 DEF FirstStep, FirstIds, StockInv, TypeOK, BizTypeOK
<1> QED
  BY <1>3, <1>4, <1>6, <1>7, EndKeys

LEMMA ExpireKeys ==
  ASSUME StockInv, PlanInv, Expire
  PROVE  PlanInv'
<1>1. PICK k \in LockNames : ExpireKey(k)
  BY DEF Expire
<1>2. UNCHANGED <<dbVars, pc, kind, who, todo, batch>>
  BY DEF Expire, requestVars, workVars
<1>3. /\ conf.plan = "p2" /\ conf' = conf /\ UNCHANGED keys
      /\ \A j \in LockNames : planLock'[j] \in {planLock[j], NoThread}
      /\ planLock'[k] = NoThread /\ lost' = lost \ {k}
  BY <1>1, <1>2 DEF ExpireKey, dbVars, StockInv, TypeOK, PlanTypeOK
<1>4. KeysOwned'
  BY <1>3, DatabaseAssumption DEF PlanInv, KeysOwned
<1>5. ASSUME NEW t \in Threads PROVE ThreadKeys(t)'
  BY <1>2, <1>3 DEF PlanInv, ThreadKeys, KeysKept, KeysOfBody, KeysAtEnds, KeysAscend,
                    RowsAtIdle, dbVars
<1> QED
  BY <1>4, <1>5 DEF PlanInv

LEMMA PlanStutter ==
  ASSUME PlanInv, UNCHANGED vars
  PROVE  PlanInv'
<1>1. UNCHANGED <<dbVars, planVars, pc, kind, who, todo, batch>>
  BY DEF vars, requestVars, workVars
<1>2. ASSUME NEW t \in Threads PROVE ThreadKeys(t)'
  BY <1>1 DEF PlanInv, ThreadKeys, KeysKept, KeysOfBody, UsersLocked, ProductsLocked,
              UsersInUse, ProductsInUse, KeysAtEnds, KeysAscend, RowsAtIdle, dbVars, planVars
<1> QED
  BY <1>1, <1>2 DEF PlanInv, KeysOwned, planVars, dbVars

LEMMA PlanInit == Init => PlanInv
<1> SUFFICES ASSUME Init PROVE PlanInv
  OBVIOUS
<1>1. KeysOwned
  BY DatabaseAssumption DEF Init, KeysOwned
<1>2. ASSUME NEW t \in Threads PROVE ThreadKeys(t)
  BY DatabaseAssumption DEF Init, ThreadKeys, KeysKept, KeysOfBody, UsersLocked,
     ProductsLocked, UsersInUse, ProductsInUse, KeysAtEnds, KeysAscend, RowsAtIdle
<1> QED
  BY <1>1, <1>2 DEF PlanInv

LEMMA PlanNext == StockInv /\ PlanInv /\ [Next]_vars => PlanInv'
<1> SUFFICES ASSUME StockInv, PlanInv, [Next]_vars PROVE PlanInv'
  OBVIOUS
<1>1. ASSUME NEW t \in Threads, BizStep(t) PROVE PlanInv'
  <2>1. CASE \/ LockUser(t) \/ LockProduct(t) \/ LockThrows(t) \/ FillCart(t)
             \/ FindInsufficient(t) \/ Unlock(t) \/ UnlockThrows(t)
    BY <2>1, LockUserKeys, LockProductKeys, LockThrowsKeys, CartKeys, UnlockKeys,
       UnlockThrowsKeys
  <2>2. CASE DrawFails(t) \/ LockTimeout(t) \/ StatementFails(t) \/ NextIdThrows(t)
    BY <2>2, LeavingKeys
  <2>3. CASE CreateSource(t) \/ DeductStock(t) \/ SkipProduct(t)
    BY <2>3, CreateSourceKeys, ItemKeys
  <2>4. CASE ReadCash(t) \/ PayBill(t) \/ Recharge(t) \/ Flush(t) \/ UpdateStatusCode(t)
    BY <2>4, AccountKeys, FlushKeys, StatusKeys
  <2>5. CASE ReadStock(t) \/ Restock(t)
    BY <2>5, StockKeys
  <2>6. CASE \/ CommitRefused(t) \/ ResetFails(t)
             \/ ResetRow(t) \/ ClearSources(t) \/ ClearItems(t) \/ ClearTrades(t) \/ ClearLogs(t)
    BY <2>6, KeylessKeys
  <2> QED
    BY <1>1, <2>1, <2>2, <2>3, <2>4, <2>5, <2>6 DEF BizStep
<1>2. ASSUME NEW t \in Threads, Execute(t) \/ Work(t) PROVE PlanInv'
  BY <1>1, <1>2, ExecuteKeys, FinishKeys DEF Work
<1>3. CASE Expire
  BY <1>3, ExpireKeys
<1>4. CASE Quiet \/ UNCHANGED vars
  BY <1>4, PlanStutter DEF Quiet
<1> QED
  BY <1>2, <1>3, <1>4 DEF Next

-----------------------------------------------------------------------------
(* What every thread has locked, and has to unlock, in every deployment. *)
THEOREM PlanInvariant == Spec => [](StockInv /\ PlanInv)
<1>1. Init => StockInv /\ PlanInv
  BY InitStep, PlanInit
<1>2. StockInv /\ PlanInv /\ [Next]_vars => (StockInv /\ PlanInv)'
  BY NextStep, PlanNext
<1> QED
  BY <1>1, <1>2, PTL DEF Spec

(* The finally blocks and the end of the transaction leave nothing locked, *)
(* whatever exception the operation or a lock call ended with, except keys *)
(* in Redis: a lock or unlock command that throws may leave some there.    *)
THEOREM NothingLeftLocked == Spec => []IdleHoldsNothing
<1>1. PlanInv => IdleHoldsNothing
  BY DEF PlanInv, ThreadKeys, KeysAtEnds, KeysOwned, RowsAtIdle, IdleHoldsNothing, Keyless, Apart
<1> QED
  BY <1>1, PlanInvariant, PTL

(* JavaLockPlanServiceImpl keeps the bodies for a common id apart, whether *)
(* the id was locked alone or in a set.                                    *)
THEOREM BodiesApartUnderJavaLocks == Spec => []BodiesExclusive
<1>1. StockInv /\ PlanInv => BodiesExclusive
  <2> SUFFICES ASSUME PlanInv, conf.plan = "p3",
                      NEW t \in Threads, NEW u \in Threads, t # u
               PROVE  /\ UsersInUse(t) \cap UsersInUse(u) = {}
                      /\ ProductsInUse(t) \cap ProductsInUse(u) = {}
    BY DEF BodiesExclusive
  <2>1. ASSUME NEW v \in Threads
        PROVE  /\ \A i \in UsersInUse(v) : planLock[<<"uid", "map", i>>] = v
               /\ \A i \in ProductsInUse(v) : planLock[<<"pid", "map", i>>] = v
    <3>1. UsersInUse(v) \subseteq UsersLocked(v) /\ ProductsInUse(v) \subseteq ProductsLocked(v)
      BY DEF UsersLocked, ProductsLocked, UsersInUse, ProductsInUse
    <3> QED
      BY <3>1 DEF PlanInv, ThreadKeys, KeysKept, KeysOfBody
  <2>2. ASSUME NEW i \in UsersInUse(t) \cap UsersInUse(u) PROVE FALSE
    BY <2>1, <2>2
  <2>3. ASSUME NEW i \in ProductsInUse(t) \cap ProductsInUse(u) PROVE FALSE
    BY <2>1, <2>3
  <2> QED
    BY <2>2, <2>3
<1> QED
  BY <1>1, PlanInvariant, PTL

-----------------------------------------------------------------------------
(* Waiting. *)

(* Among finitely many ids one is not below another. *)
LEMMA NoLargerForever ==
  ASSUME NEW ids \in SUBSET Nat, IsFiniteSet(ids), ids # {}
  PROVE  \E i \in ids : \A j \in ids : ~(i < j)
<1> SUFFICES ASSUME \A i \in ids : \E j \in ids : i < j PROVE FALSE
  OBVIOUS
<1> DEFINE Above(i) == {j \in ids : i < j}
           Sizes == {Cardinality(Above(i)) : i \in ids}
<1>1. \A i \in ids : IsFiniteSet(Above(i)) /\ Cardinality(Above(i)) \in Nat
  <2> SUFFICES ASSUME NEW i \in ids
               PROVE  IsFiniteSet(Above(i)) /\ Cardinality(Above(i)) \in Nat
    OBVIOUS
  <2>1. Above(i) \in SUBSET ids
    OBVIOUS
  <2>2. IsFiniteSet(Above(i))
    BY <2>1, FS_Subset
  <2> QED
    BY <2>2, FS_CardinalityType
<1>2. Sizes \in SUBSET Nat /\ Sizes # {}
  BY <1>1
<1>3. PICK i \in ids : Cardinality(Above(i)) = First(Sizes)
  <2> HIDE DEF Above
  <2>1. First(Sizes) \in Sizes
    <3> HIDE DEF Sizes
    <3> QED
      BY <1>2, FirstIn
  <2> QED
    BY <2>1
<1>4. PICK j \in ids : i < j
  OBVIOUS
<1>5. First(Sizes) <= Cardinality(Above(j))
  <2>1. Cardinality(Above(j)) \in Sizes
    OBVIOUS
  <2> HIDE DEF Sizes
  <2>2. Least(Sizes, First(Sizes))
    BY <1>2, FirstIn
  <2> QED
    BY <2>1, <2>2 DEF Least
<1>6. Above(j) \in SUBSET Above(i) /\ Above(j) # Above(i)
  <2>1. i \in Nat /\ j \in Nat /\ \A k \in ids : k \in Nat
    OBVIOUS
  <2>2. j \in Above(i) /\ j \notin Above(j)
    BY <1>4, <2>1
  <2>3. \A k \in ids : j < k => i < k
    BY <1>4, <2>1
  <2> QED
    BY <2>2, <2>3
<1> HIDE DEF Above, Sizes
<1>7. Cardinality(Above(j)) <= Cardinality(Above(i))
      /\ Cardinality(Above(j)) # Cardinality(Above(i))
  BY <1>1, <1>6, FS_Subset
<1> QED
  BY <1>1, <1>3, <1>5, <1>7

(* Under the Java locks a thread that waits for another waits for its      *)
(* least id, and the other has left that id behind.                        *)
LEMMA WaitFacts ==
  ASSUME StockInv, PlanInv, conf.plan = "p3",
         NEW t \in Threads, NEW u \in Threads, u \in PlanWaits(t)
  PROVE  \/ /\ pc[t] = "lockUser"
            /\ \E i \in Users : Least(todo[t], i) /\ <<"uid", "map", i>> \in keys[u]
         \/ /\ pc[t] = "lockProduct"
            /\ \E i \in Products : Least(todo[t], i) /\ <<"pid", "map", i>> \in keys[u]
<1>1. CASE pc[t] = "lockUser"
  <2>1. PICK i \in todo[t] : Least(todo[t], i) /\ planLock[LockName("uid", UserForm(t), i)] = u
    BY <1>1 DEF PlanWaits, NextIds
  <2>2. i \in Users
    BY <1>1 DEF StockInv, WorkOK, ThreadOK
  <2>3. <<"uid", "map", i>> \in LockNames /\ planLock[<<"uid", "map", i>>] = u
    BY <2>1, <2>2, NameInMap DEF LockNames, LockTypes, LockForms
  <2> QED
    BY <1>1, <2>1, <2>2, <2>3 DEF PlanInv, KeysOwned
<1>2. CASE pc[t] = "lockProduct"
  <2>1. PICK i \in todo[t] : Least(todo[t], i) /\ planLock[LockName("pid", "set", i)] = u
    BY <1>2 DEF PlanWaits, NextIds
  <2>2. i \in Products
    BY <1>2 DEF StockInv, WorkOK, ThreadOK
  <2>3. <<"pid", "map", i>> \in LockNames /\ planLock[<<"pid", "map", i>>] = u
    BY <2>1, <2>2, NameInMap DEF LockNames, LockTypes, LockForms
  <2> QED
    BY <1>2, <2>1, <2>2, <2>3 DEF PlanInv, KeysOwned
<1>3. CASE pc[t] \notin {"lockUser", "lockProduct"}
  BY <1>3 DEF PlanWaits
<1> QED
  BY <1>1, <1>2, <1>3

(* Threads that wait for each other in one loop over ids: for each the     *)
(* next one waits for a larger id.                                         *)
LEMMA NoCycleInLoop ==
  ASSUME NEW cycle \in SUBSET Threads, cycle # {}, NEW ids \in SUBSET Nat, IsFiniteSet(ids),
         \A t \in cycle : todo[t] \subseteq ids,
         \A t \in cycle : \E i \in ids, u \in cycle :
           Least(todo[t], i) /\ \A j \in todo[u] : i < j
  PROVE  FALSE
<1> DEFINE waited == {i \in ids : \E t \in cycle : Least(todo[t], i)}
<1>1. waited \in SUBSET Nat /\ waited # {}
  OBVIOUS
<1>2. IsFiniteSet(waited)
  <2>1. waited \in SUBSET ids
    OBVIOUS
  <2> QED
    BY <2>1, FS_Subset
<1>3. \A i \in waited : \E j \in waited : i < j
  <2> SUFFICES ASSUME NEW i \in waited PROVE \E j \in waited : i < j
    OBVIOUS
  <2>1. PICK t \in cycle : Least(todo[t], i)
    OBVIOUS
  <2>2. PICK k \in ids, u \in cycle : Least(todo[t], k) /\ \A j \in todo[u] : k < j
    OBVIOUS
  <2>3. k = i
    <3>1. k <= i /\ i <= k /\ k \in Nat /\ i \in Nat
      BY <2>1, <2>2 DEF Least
    <3> QED
      BY <3>1
  <2>4. PICK j \in ids : Least(todo[u], j)
    OBVIOUS
  <2>5. j \in waited /\ i < j
    BY <2>2, <2>3, <2>4 DEF Least
  <2> QED
    BY <2>5
<1> HIDE DEF waited
<1> QED
  BY <1>1, <1>2, <1>3, NoLargerForever

(* JavaLockPlanServiceImpl: threads never wait for each other's locks in a *)
(* cycle, because users come before products and ids are ascending.        *)
THEOREM JavaLocksNeverDeadlock == Spec => []NoPlanCycle
<1>1. StockInv /\ PlanInv => NoPlanCycle
  <2> SUFFICES ASSUME StockInv, PlanInv, conf.plan = "p3",
                      NEW cycle \in SUBSET Threads, cycle # {},
                      \A t \in cycle : PlanWaits(t) \cap cycle # {}
               PROVE  FALSE
    BY DEF NoPlanCycle
  <2> DEFINE later == {t \in cycle : pc[t] = "lockProduct"}
  <2>1. /\ Users \in SUBSET Nat /\ IsFiniteSet(Users)
        /\ Products \in SUBSET Nat /\ IsFiniteSet(Products)
    BY TablesAssumption
  <2>2. \A t \in cycle : \E u \in cycle : u \in PlanWaits(t)
    OBVIOUS
  <2>3. \A t \in Threads : KeysAscend(t) /\ ThreadOK(t)
    BY DEF PlanInv, ThreadKeys, StockInv, WorkOK
  <2>4. \A t \in cycle : pc[t] \in {"lockUser", "lockProduct"}
    BY <2>2, WaitFacts
  <2>5. ASSUME NEW t \in later
        PROVE  \E i \in Products, u \in later : Least(todo[t], i) /\ \A j \in todo[u] : i < j
    <3>1. PICK u \in cycle : u \in PlanWaits(t)
      BY <2>2
    <3>2. PICK i \in Products : Least(todo[t], i) /\ <<"pid", "map", i>> \in keys[u]
      BY <3>1, WaitFacts
    <3>3. u \in later /\ \A j \in todo[u] : i < j
      BY <2>3, <2>4, <3>2 DEF KeysAscend
    <3> QED
      BY <3>2, <3>3
  <2>6. ASSUME later # {} PROVE FALSE
    <3>1. \A t \in later : todo[t] \subseteq Products
      BY <2>3 DEF ThreadOK
    <3>2. later \in SUBSET Threads
      OBVIOUS
    <3> HIDE DEF later
    <3> QED
      BY <2>1, <2>5, <2>6, <3>1, <3>2, NoCycleInLoop
  <2>7. ASSUME later = {}, NEW t \in cycle
        PROVE  \E i \in Users, u \in cycle : Least(todo[t], i) /\ \A j \in todo[u] : i < j
    <3>1. PICK u \in cycle : u \in PlanWaits(t)
      BY <2>2
    <3>2. pc[t] = "lockUser" /\ pc[u] = "lockUser"
      BY <2>4, <2>7
    <3>3. PICK i \in Users : Least(todo[t], i) /\ <<"uid", "map", i>> \in keys[u]
      BY <3>1, <3>2, WaitFacts
    <3>4. \A j \in todo[u] : i < j
      BY <2>3, <3>2, <3>3 DEF KeysAscend
    <3> QED
      BY <3>3, <3>4
  <2>8. ASSUME later = {} PROVE FALSE
    <3>1. \A t \in cycle : todo[t] \subseteq Users
      BY <2>3, <2>4, <2>8 DEF ThreadOK
    <3> QED
      BY <2>1, <2>7, <2>8, <3>1, NoCycleInLoop
  <2> QED
    BY <2>6, <2>8
<1> QED
  BY <1>1, PlanInvariant, PTL

-----------------------------------------------------------------------------
(* The refinement. *)

(* What a step does to the plans' locks. *)
LEMMA LeaseStep ==
  ASSUME StockInv, [Next]_vars
  PROVE  \/ UNCHANGED planVars
         \/ \E t \in Threads, k \in LockNames :
              AcquireKey(t, k) \/ AcquireThrows(t, k) \/ ReleaseKey(t, k) \/ ReleaseThrows(t, k)
         \/ \E k \in LockNames : ExpireKey(k)
<1>1. ASSUME NEW t \in Threads, BizStep(t)
      PROVE  \/ UNCHANGED planVars
             \/ \E k \in LockNames : \/ AcquireKey(t, k) \/ AcquireThrows(t, k)
                                     \/ ReleaseKey(t, k) \/ ReleaseThrows(t, k)
  <2>1. CASE LockUser(t)
    <3>1. PICK u \in NextIds(todo[t]) : PlanAcquire(t, "uid", UserForm(t), u)
      BY <2>1 DEF LockUser
    <3>2. u \in Users
      BY <2>1 DEF LockUser, NextIds, StockInv, WorkOK, ThreadOK
    <3> QED
      BY <3>1, <3>2, LockNameType DEF PlanAcquire, LockTypes, UserForm
  <2>2. CASE LockProduct(t)
    <3>1. PICK p \in NextIds(todo[t]) : PlanAcquire(t, "pid", "set", p)
      BY <2>2 DEF LockProduct
    <3>2. p \in Products
      BY <2>2 DEF LockProduct, NextIds, StockInv, WorkOK, ThreadOK
    <3> QED
      BY <3>1, <3>2, LockNameType DEF PlanAcquire, LockTypes
  <2>3. CASE Unlock(t) \/ UnlockThrows(t)
    BY <2>3 DEF Unlock, UnlockThrows, StockInv, TypeOK, PlanTypeOK
  <2>4. CASE LockThrows(t)
    <3>1. PICK i \in todo[t] :
            \/ pc[t] = "lockUser"    /\ AcquireThrows(t, LockName("uid", UserForm(t), i))
            \/ pc[t] = "lockProduct" /\ AcquireThrows(t, LockName("pid", "set", i))
      BY <2>4 DEF LockThrows
    <3>2. i \in Users \cup Products
      BY <3>1 DEF StockInv, WorkOK, ThreadOK
    <3> QED
      BY <3>1, <3>2, LockNameType DEF LockTypes, UserForm
  <2>5. CASE FillCart(t) \/ DrawFails(t) \/ FindInsufficient(t) \/ LockTimeout(t)
    BY <2>5 DEF FillCart, DrawFails, FindInsufficient, LockTimeout
  <2>6. CASE \/ CreateSource(t) \/ DeductStock(t) \/ SkipProduct(t)
             \/ ReadCash(t) \/ PayBill(t) \/ Recharge(t) \/ Flush(t) \/ UpdateStatusCode(t)
    BY <2>6 DEF CreateSource, DeductStock, SkipProduct, ReadCash, PayBill, Recharge, Flush,
                UpdateStatusCode
  <2>7. CASE \/ ReadStock(t) \/ Restock(t) \/ NextIdThrows(t)
             \/ CommitRefused(t) \/ StatementFails(t)
    BY <2>7 DEF ReadStock, Restock, NextIdThrows, CommitRefused, StatementFails
  <2>8. CASE \/ ResetRow(t) \/ ClearSources(t) \/ ClearItems(t) \/ ClearTrades(t)
             \/ ClearLogs(t) \/ ResetFails(t)
    BY <2>8 DEF ResetRow, ClearSources, ClearItems, ClearTrades, ClearLogs, ResetFails
  <2> QED
    BY <1>1, <2>1, <2>2, <2>3, <2>4, <2>5, <2>6, <2>7, <2>8 DEF BizStep
<1>2. ASSUME NEW t \in Threads, Execute(t) \/ Commit(t) \/ Retry(t) \/ GiveUp(t)
      PROVE  UNCHANGED planVars
  BY <1>2 DEF Execute, Commit, Retry, GiveUp, CommitBiz, CommitReset, RollbackBiz, RollbackReset
<1>3. CASE Expire
  BY <1>3 DEF Expire
<1>4. CASE Quiet \/ UNCHANGED vars
  BY <1>4 DEF Quiet, vars
<1> QED
  BY <1>1, <1>2, <1>3, <1>4 DEF Next, Work

(* The locks of p2 and p3 implement Leases. *)
THEOREM PlansImplementLeases == Spec => PlanIsLeases
<1>1. Init => PlanLeases!Init
  BY DEF Init, PlanLeases!Init
<1>2. StockInv /\ [Next]_vars => [PlanLeases!Next]_(PlanLeases!leaseVars)
  <2> SUFFICES ASSUME StockInv, [Next]_vars
               PROVE  [PlanLeases!Next]_(PlanLeases!leaseVars)
    OBVIOUS
  <2>1. CASE UNCHANGED planVars
    BY <2>1 DEF planVars, PlanLeases!leaseVars
  <2>2. ASSUME NEW t \in Threads, NEW k \in LockNames, AcquireKey(t, k) \/ ReleaseKey(t, k)
        PROVE  PlanLeases!Next
    BY <2>2 DEF AcquireKey, ReleaseKey, PlanLeases!Next, PlanLeases!Acquire, PlanLeases!Release
  <2>3. ASSUME NEW t \in Threads, NEW k \in LockNames, AcquireThrows(t, k)
        PROVE  PlanLeases!Next \/ UNCHANGED PlanLeases!leaseVars
    BY <2>3 DEF AcquireThrows, PlanLeases!Next, PlanLeases!Acquire, PlanLeases!leaseVars
  <2>4. ASSUME NEW t \in Threads, NEW k \in LockNames, ReleaseThrows(t, k)
        PROVE  PlanLeases!Next
    <3> DEFINE kept == keys[t] \ {l \in keys[t] : l[1] = k[1]}
    <3>1. /\ k \in keys[t] /\ kept \in SUBSET (keys[t] \ {k})
          /\ keys' = [keys EXCEPT ![t] = kept]
      BY <2>4 DEF ReleaseThrows
    <3>2. keys \in [Threads -> SUBSET LockNames]
      BY DEF StockInv, TypeOK, PlanTypeOK
    <3> HIDE DEF kept
    <3>3. CASE UNCHANGED planLock
      <4>1. PlanLeases!Abandon(t)
        BY <3>1, <3>2, <3>3 DEF PlanLeases!Abandon
      <4> QED
        BY <4>1 DEF PlanLeases!Next
    <3>4. CASE planLock' = [planLock EXCEPT ![k] = IF @ = t THEN NoThread ELSE @]
      <4>1. PlanLeases!Release(t, k)
        BY <3>1, <3>4 DEF PlanLeases!Release
      <4> QED
        BY <4>1 DEF PlanLeases!Next
    <3> QED
      BY <2>4, <3>3, <3>4 DEF ReleaseThrows
  <2>5. ASSUME NEW k \in LockNames, ExpireKey(k)
        PROVE  PlanLeases!Next
    BY <2>5 DEF ExpireKey, PlanLeases!Next, PlanLeases!Lapse
  <2> QED
    BY <2>1, <2>2, <2>3, <2>4, <2>5, LeaseStep
<1> QED
  BY <1>1, <1>2, StockInvariant, PTL DEF Spec, PlanIsLeases, PlanLeases!Spec

=============================================================================
