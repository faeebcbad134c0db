--------------------------- MODULE DatabaseErrors ---------------------------
(***************************************************************************)
(* Statements the database refuses: victims of a deadlock, and PostgreSQL's*)
(* concurrent updates.  The exception rolls the transaction back.          *)
(***************************************************************************)
EXTENDS RunnerConfig

(* the transactions thread t waits for in the database *)
WaitsFor(t) ==
  CASE pc[t] \in {"lockUser", "lockProduct"} ->
         IF conf.plan # "p1" \/ SkipsRowLocks THEN {}
         ELSE UNION {LockBlockers(t, LockRow(IF pc[t] = "lockUser" THEN "uid" ELSE "pid", i)) :
                       i \in todo[t]}
    [] pc[t] = "find" -> UNION {ReadBlockers(t, r) : r \in ProductRows}
    [] pc[t] \in {"deduct", "restock"} -> UpdateBlockers(t, ProductRow(First(todo[t])))
    [] pc[t] = "reload" -> ReadBlockers(t, ProductRow(First(todo[t])))
    [] pc[t] = "cash"   -> ReadBlockers(t, CashRow(Account(t)))
    [] pc[t] = "credit" -> ReadBlockers(t, CreditRow(Account(t)))
    [] pc[t] \in {"status", "commit"} /\ saved[t] # NothingSaved ->
         UpdateBlockers(t, NextWrite(t))
    [] OTHER -> ResetWaitsFor(t)

(* the database detects a cycle of waiting transactions and picks a victim *)
Deadlocked(t) ==
  \E cycle \in SUBSET Threads : t \in cycle /\ \A u \in cycle : WaitsFor(u) \cap cycle # {}

(* PostgreSQL: could not serialize access due to concurrent update *)
UpdateConflicts(t) ==
  \/ /\ pc[t] \in {"deduct", "restock"}
     /\ Conflicts(t, ProductRow(First(todo[t])))
     /\ pc[t] = "deduct" =>
          LET p == First(todo[t]) IN Visible(t, ProductRow(p)) >= batch[t][p]
  \/ /\ pc[t] \in {"status", "commit"} /\ saved[t] # NothingSaved
     /\ Conflicts(t, NextWrite(t))

StatementFails(t) ==
  /\ pc[t] \notin ResetLabels
  /\ Deadlocked(t) \/ UpdateConflicts(t)
  /\ Leave(t, "db")
  /\ UNCHANGED <<dbVars, planVars, requestVars, todo, workVars, pendingVars, bookVars>>

(* the reset is the victim *)
ResetFails(t) ==
  /\ pc[t] \in ResetLabels
  /\ Deadlocked(t)
  /\ pc' = [pc EXCEPT ![t] = "resetRollback"]
  /\ UNCHANGED <<dbVars, planVars, requestVars, todo, workVars, pendingVars, outcome, bookVars>>

=============================================================================
