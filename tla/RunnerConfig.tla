---------------------------- MODULE RunnerConfig -----------------------------
(***************************************************************************)
(* RunnerConfig.run when /gen/reset calls it while requests are served: in *)
(* one transaction, without a lock plan, it sets every balance and every   *)
(* stock back and deletes the histories.                                   *)
(*                                                                         *)
(* The transaction has the product's default isolation, reads nothing and  *)
(* therefore takes no read view, and waits for row locks like any other    *)
(* UPDATE.  A DELETE removes the committed rows; MySQL and SQL Server make *)
(* it wait for rows that unfinished requests have inserted, PostgreSQL     *)
(* passes over them.  What MySQL's gap locks keep out afterwards is let in *)
(* here.  The entries a DELETE removes are entries of the transaction with *)
(* the sign reversed.                                                      *)
(***************************************************************************)
EXTENDS BizService

(* updateAll visits the rows of a table in any order *)
UpdateLabels == {"resetCash", "resetCredit", "resetProduct"}

SourceLabels == {"clearBills", "clearOrders", "clearRecharges"}

ResetTable(label, id) ==
  CASE label = "resetCash"    -> CashRow(id)
    [] label = "resetCredit"  -> CreditRow(id)
    [] label = "resetProduct" -> ProductRow(id)

NextUpdate(label) ==
  CASE label = "resetCash"    -> "resetCredit"
    [] label = "resetCredit"  -> "resetProduct"
    [] label = "resetProduct" -> "clearBills"

NextIdsOf(label) ==
  CASE label = "resetCash"    -> Users
    [] label = "resetCredit"  -> Products
    [] label = "resetProduct" -> {}

(* seeded fault: rows that requests have locked are passed over *)
ResetRow_Skips(t) ==
  /\ pc[t] \in UpdateLabels
  /\ \E id \in todo[t] :
       LET r == ResetTable(pc[t], id)
           free == UpdateBlockers(t, r) = {}
       IN /\ latest' = IF free THEN [latest EXCEPT ![r] = InitialRow(r)] ELSE latest
          /\ holder' = IF free THEN [holder EXCEPT ![r] = t] ELSE holder
          /\ IF todo[t] = {id}
             THEN /\ pc'   = [pc EXCEPT ![t] = NextUpdate(@)]
                  /\ todo' = [todo EXCEPT ![t] = NextIdsOf(pc[t])]
             ELSE /\ todo' = [todo EXCEPT ![t] = @ \ {id}]
                  /\ UNCHANGED pc
  /\ UNCHANGED <<conf, committed, shared, view, missed, planVars, requestVars, workVars,
                 pendingVars, outcome, bookVars>>

(* one row of accountCashRepository.updateAll, accountCreditRepository's,  *)
(* productRepository's                                                     *)
ResetRow(t) ==
  /\ pc[t] \in UpdateLabels
  /\ \E id \in todo[t] :
       LET r == ResetTable(pc[t], id)
       IN /\ UpdateBlockers(t, r) = {}
          /\ latest' = [latest EXCEPT ![r] = InitialRow(r)]
          /\ holder' = [holder EXCEPT ![r] = t]
          /\ IF todo[t] = {id}
             THEN /\ pc'   = [pc EXCEPT ![t] = NextUpdate(@)]
                  /\ todo' = [todo EXCEPT ![t] = NextIdsOf(pc[t])]
             ELSE /\ todo' = [todo EXCEPT ![t] = @ \ {id}]
                  /\ UNCHANGED pc
  /\ UNCHANGED <<conf, committed, shared, view, missed, planVars, requestVars, workVars,
                 pendingVars, outcome, bookVars>>

(* requests with unfinished entries of the rows R *)
HistoryBlockers(t, R) ==
  IF conf.profile = "pgsql" THEN {}
  ELSE {u \in Threads \ {t} : \E r \in R : pout[u][r] # 0 \/ pin[u][r] # 0}

(* the entries of the rows R in the books, with the sign reversed *)
Reversed(mine, book, R) == [r \in Rows |-> IF r \in R THEN -book[r] ELSE mine[r]]

(* the operation whose source rows a DELETE removes *)
SourceKind(label) ==
  CASE label = "clearBills"     -> "usage"
    [] label = "clearOrders"    -> "package"
    [] label = "clearRecharges" -> "recharge"

NextClear(label) ==
  CASE label = "clearBills"     -> "clearItems"
    [] label = "clearOrders"    -> "clearRecharges"
    [] label = "clearRecharges" -> "clearTrades"

(* requests with an unfinished source row *)
SourceBlockers(t, label) ==
  IF conf.profile = "pgsql" THEN {}
  ELSE {u \in Threads \ {t} : kind[u] = SourceKind(label) /\ sourced[u]}

(* billSourceRepository.clear, orderSourceRepository.clear and             *)
(* rechargeSourceRepository.clear; no sum is kept of their rows            *)
ClearSources(t) ==
  /\ pc[t] \in SourceLabels /\ SourceBlockers(t, pc[t]) = {}
  /\ pc' = [pc EXCEPT ![t] = NextClear(@)]
  /\ UNCHANGED <<dbVars, planVars, requestVars, todo, workVars, pendingVars, outcome, bookVars>>

(* orderItemRepository.clear *)
ClearItems(t) ==
  /\ pc[t] = "clearItems" /\ HistoryBlockers(t, ProductRows) = {}
  /\ pout' = [pout EXCEPT ![t] = Reversed(@, outflow, ProductRows)]
  /\ pc' = [pc EXCEPT ![t] = "clearOrders"]
  /\ UNCHANGED <<dbVars, planVars, requestVars, todo, workVars, saved, pin, outcome, bookVars>>

(* tradeRepository.clear *)
ClearTrades(t) ==
  /\ pc[t] = "clearTrades" /\ HistoryBlockers(t, UserRows) = {}
  /\ pout' = [pout EXCEPT ![t] = Reversed(@, outflow, UserRows)]
  /\ pin'  = [pin EXCEPT ![t] = Reversed(@, inflow, UserRows)]
  /\ pc' = [pc EXCEPT ![t] = "clearLogs"]
  /\ UNCHANGED <<dbVars, planVars, requestVars, todo, workVars, saved, outcome, bookVars>>

(* reloadLogRepository.clear *)
ClearLogs(t) ==
  /\ pc[t] = "clearLogs" /\ HistoryBlockers(t, ProductRows) = {}
  /\ pin' = [pin EXCEPT ![t] = Reversed(@, inflow, ProductRows)]
  /\ pc' = [pc EXCEPT ![t] = "resetCommit"]
  /\ UNCHANGED <<dbVars, planVars, requestVars, todo, workVars, saved, pout, outcome, bookVars>>

CommitReset(t) ==
  /\ pc[t] = "resetCommit"
  /\ CommitTransaction(t)
  /\ outflow' = [r \in Rows |-> outflow[r] + pout[t][r]]
  /\ inflow'  = [r \in Rows |-> inflow[r] + pin[t][r]]
  /\ Clear(t)
  /\ UNCHANGED planVars

RollbackReset(t) ==
  /\ pc[t] = "resetRollback"
  /\ RollbackTransaction(t)
  /\ Clear(t)
  /\ UNCHANGED <<planVars, bookVars>>

(* the transactions a reset waits for *)
ResetWaitsFor(t) ==
  CASE pc[t] \in UpdateLabels ->
         UNION {UpdateBlockers(t, ResetTable(pc[t], id)) : id \in todo[t]}
    [] pc[t] \in SourceLabels -> SourceBlockers(t, pc[t])
    [] pc[t] \in {"clearItems", "clearLogs"} -> HistoryBlockers(t, ProductRows)
    [] pc[t] = "clearTrades" -> HistoryBlockers(t, UserRows)
    [] OTHER -> {}

=============================================================================
