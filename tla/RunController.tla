--------------------------- MODULE RunController ----------------------------
(***************************************************************************)
(* The whole system: RunController serves /{pType}/{isolation} requests on *)
(* several threads; each runs one operation of AbstractBizService under a  *)
(* lock plan and a transaction, and doTask repeats a bill or an order the  *)
(* database refused.  GeneratorController's /gen/reset is served too.      *)
(***************************************************************************)
EXTENDS DatabaseErrors

CONSTANTS
  Workload,     \* deployment -> the operations requested of it
  MaxRequests,  \* bound: requests served in all
  MaxTries      \* bound: repetitions that fit in doTask's 2000 ms

ASSUME RunControllerAssumption ==
  /\ Workload \in [Deployments -> SUBSET Kinds]
  /\ MaxRequests \in Nat /\ MaxTries \in Nat

VARIABLES
  tries,      \* thread -> repetitions so far
  requests    \* requests accepted so far

vars == <<dbVars, planVars, pc, requestVars, todo, workVars, pendingVars,
          outcome, bookVars, tries, requests>>

Init ==
  /\ conf \in {d \in Deployments : Workload[d] # {}}
  /\ committed = [r \in Rows |-> InitialRow(r)]
  /\ latest = committed
  /\ holder = [r \in Rows |-> NoThread]
  /\ shared = [t \in Threads |-> {}]
  /\ view   = [t \in Threads |-> NoView]
  /\ missed = [t \in Threads |-> {}]
  /\ planLock = [k \in LockNames |-> NoThread]
  /\ keys = [t \in Threads |-> {}]
  /\ lost = {}
  /\ pc   = [t \in Threads |-> "idle"]
  /\ kind = [t \in Threads |-> "none"]
  /\ who  = [t \in Threads |-> {}]
  /\ todo = [t \in Threads |-> {}]
  /\ batch = [t \in Threads |-> NoProducts]
  /\ due   = [t \in Threads |-> 0]
  /\ seen  = [t \in Threads |-> 0]
  /\ sourced = [t \in Threads |-> FALSE]
  /\ saved = [t \in Threads |-> NothingSaved]
  /\ outcome = [t \in Threads |-> "ok"]
  /\ pout = [t \in Threads |-> NoEntries]
  /\ pin  = [t \in Threads |-> NoEntries]
  /\ outflow = NoEntries
  /\ inflow  = NoEntries
  /\ tries = [t \in Threads |-> 0]
  /\ requests = 0

(* The first statement of an operation: doReload looks for products, a     *)
(* reset updates the cash accounts, the others lock their users.           *)
FirstStep(k) == CASE k = "reload" -> "find"
                  [] k = "reset"  -> "resetCash"
                  [] OTHER        -> "lockUser"

(* The ids its first loop visits. *)
FirstIds(k, S) == IF k = "reset" THEN Users ELSE S

(* The users of an operation: one drawn by doService, or doRecharge's set. *)
UserSets(k) == CASE k \in {"package", "usage"} -> {{u} : u \in Users}
                 [] k = "recharge" -> RechargeSets
                 [] OTHER          -> {{}}

(* execute, doService, and /gen/reset *)
Execute(t) ==
  /\ pc[t] = "idle" /\ requests < MaxRequests
  /\ requests' = requests + 1
  /\ \E k \in Workload[conf] : \E S \in UserSets(k) :
       /\ kind' = [kind EXCEPT ![t] = k]
       /\ who'  = [who EXCEPT ![t] = S]
       /\ todo' = [todo EXCEPT ![t] = FirstIds(k, S)]
       /\ pc'   = [pc EXCEPT ![t] = FirstStep(k)]
  /\ UNCHANGED <<dbVars, planVars, workVars, pendingVars, outcome, bookVars, tries>>

(* the answer is sent: the thread goes back to the pool *)
Answer(t) ==
  /\ pc'      = [pc EXCEPT ![t] = "idle"]
  /\ kind'    = [kind EXCEPT ![t] = "none"]
  /\ who'     = [who EXCEPT ![t] = {}]
  /\ todo'    = [todo EXCEPT ![t] = {}]
  /\ outcome' = [outcome EXCEPT ![t] = "ok"]
  /\ tries'   = [tries EXCEPT ![t] = 0]

Commit(t) ==
  /\ CommitBiz(t) \/ CommitReset(t)
  /\ Answer(t)
  /\ UNCHANGED requests

(* doTask repeats what the database refused, on MySQL and PostgreSQL; a    *)
(* recharge or a reload is called without doTask                           *)
Retries(t) ==
  /\ outcome[t] = "db"
  /\ conf.profile \in {"mysql", "pgsql"}
  /\ kind[t] \in {"usage", "package"}

(* seeded fault: doTask without its deadline *)
Retry_Forever(t) ==
  /\ Retries(t)
  /\ RollbackBiz(t)
  /\ pc'      = [pc EXCEPT ![t] = FirstStep(kind[t])]
  /\ todo'    = [todo EXCEPT ![t] = who[t]]
  /\ outcome' = [outcome EXCEPT ![t] = "ok"]
  /\ tries'   = [tries EXCEPT ![t] = @ + 1]
  /\ UNCHANGED <<requestVars, requests>>

Retry(t) ==
  /\ Retries(t) /\ tries[t] < MaxTries
  /\ RollbackBiz(t)
  /\ pc'      = [pc EXCEPT ![t] = FirstStep(kind[t])]
  /\ todo'    = [todo EXCEPT ![t] = who[t]]
  /\ outcome' = [outcome EXCEPT ![t] = "ok"]
  /\ tries'   = [tries EXCEPT ![t] = @ + 1]
  /\ UNCHANGED <<requestVars, requests>>

(* every other exception, and the retry that comes after the deadline,     *)
(* ends the request                                                        *)
GiveUp(t) ==
  /\ RollbackBiz(t) \/ RollbackReset(t)
  /\ Answer(t)
  /\ UNCHANGED requests

BizStep(t) ==
  /\ \/ LockUser(t) \/ FillCart(t) \/ DrawFails(t) \/ FindInsufficient(t) \/ LockProduct(t)
     \/ LockTimeout(t) \/ LockThrows(t)
     \/ CreateSource(t) \/ DeductStock(t) \/ SkipProduct(t)
     \/ ReadCash(t) \/ PayBill(t) \/ Recharge(t) \/ Flush(t) \/ UpdateStatusCode(t)
     \/ ReadStock(t) \/ Restock(t) \/ NextIdThrows(t)
     \/ Unlock(t) \/ UnlockThrows(t) \/ CommitRefused(t) \/ StatementFails(t)
     \/ ResetRow(t) \/ ClearSources(t) \/ ClearItems(t) \/ ClearTrades(t) \/ ClearLogs(t)
     \/ ResetFails(t)
  /\ UNCHANGED <<tries, requests>>

Work(t) == BizStep(t) \/ Commit(t) \/ Retry(t) \/ GiveUp(t)

(* Redis drops a key whose time is over *)
Expire ==
  /\ \E k \in LockNames : ExpireKey(k)
  /\ UNCHANGED <<dbVars, pc, requestVars, todo, workVars, pendingVars,
                 outcome, bookVars, tries, requests>>

(* all the requests of the bounded run are answered *)
Quiet ==
  /\ requests = MaxRequests
  /\ \A t \in Threads : pc[t] = "idle"
  /\ UNCHANGED vars

Next == (\E t \in Threads : Execute(t) \/ Work(t)) \/ Expire \/ Quiet

Spec == Init /\ [][Next]_vars

(* A thread that can go on does: the JVM schedules it, the database wakes  *)
(* a waiting transaction or ends a deadlock, and the 2 s of a lock call    *)
(* pass.                                                                   *)
Fairness == \A t \in Threads : WF_vars(Work(t))
FairSpec == Spec /\ Fairness
=============================================================================
