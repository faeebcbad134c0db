------------------------------ MODULE Database ------------------------------
(***************************************************************************)
(* The relational database as the repositories and @Transactional services *)
(* use it: rows, transactions, row locks and the four isolation levels on  *)
(* the three products the program is deployed on.  Only the rows that two  *)
(* requests can share are kept (user_info, account_cash, account_credit,   *)
(* product); a freshly inserted source, trade or log row is private to its *)
(* transaction until the commit and is accounted for in BizService.        *)
(*                                                                         *)
(* A transaction is identified with the request thread that runs it.       *)
(***************************************************************************)
EXTENDS Tables

CONSTANTS
  Threads,      \* the servlet threads
  NoThread      \* "nobody", as the owner of a lock

ASSUME DatabaseAssumption == NoThread \notin Threads

(* How the system is deployed and driven: spring.profiles.active, and the  *)
(* {isolation} and {pType} of the request URLs.  A test run uses one URL.  *)
Profiles   == {"mysql", "pgsql", "mssql"}
Isolations == {"ru", "rc", "rr", "ssi"}
Plans      == {"p1", "p2", "p3"}
Deployments == [profile : Profiles, isolation : Isolations, plan : Plans]

VARIABLES
  conf,        \* the deployment, chosen at the start
  committed,   \* row -> last committed value
  latest,      \* row -> newest value, committed or not
  holder,      \* row -> transaction that wrote it or read it FOR UPDATE
  shared,      \* transaction -> rows it holds a shared lock on
  view,        \* transaction -> its read view (NoView before it is taken)
  missed       \* transaction -> rows others changed since its view was taken

dbVars == <<conf, committed, latest, holder, shared, view, missed>>

NoView == [r \in {} |-> 0]

-----------------------------------------------------------------------------
(* What the isolation levels mean on each product. *)

(* seeded fault: PgRrServiceImpl annotated READ_COMMITTED *)
Level_PgRrAsRc ==
  CASE conf.isolation = "ru"  -> "READ_UNCOMMITTED"
    [] conf.isolation = "rc"  -> "READ_COMMITTED"
    [] conf.isolation = "rr"  -> IF conf.profile = "pgsql" THEN "READ_COMMITTED"
                                 ELSE "REPEATABLE_READ"
    [] conf.isolation = "ssi" -> "SERIALIZABLE"

(* the isolation in the @Transactional of the {isolation} bean's class *)
Level ==
  CASE conf.isolation = "ru"  -> "READ_UNCOMMITTED"
    [] conf.isolation = "rc"  -> "READ_COMMITTED"
    [] conf.isolation = "rr"  -> "REPEATABLE_READ"
    [] conf.isolation = "ssi" -> "SERIALIZABLE"

(* READ UNCOMMITTED reads what is there; PostgreSQL runs it as READ COMMITTED *)
DirtyReads == Level = "READ_UNCOMMITTED" /\ conf.profile # "pgsql"

(* plain reads use a view taken once per transaction *)
Snapshots ==
  \/ conf.profile = "mysql" /\ Level = "REPEATABLE_READ"
  \/ conf.profile = "pgsql" /\ Level \in {"REPEATABLE_READ", "SERIALIZABLE"}

(* PostgreSQL refuses to update a row that changed after the view was taken *)
FirstUpdaterWins == Snapshots /\ conf.profile = "pgsql"

(* plain reads take shared locks ... *)
SharedReads ==
  \/ conf.profile = "mssql" /\ Level # "READ_UNCOMMITTED"
  \/ conf.profile = "mysql" /\ Level = "SERIALIZABLE"

(* ... and keep them to the end of the transaction *)
SharedHeld == SharedReads /\ Level # "READ_COMMITTED"

Dirty(r) == latest[r] # committed[r]

(* What a plain SELECT of transaction t sees of row r. *)
Visible(t, r) ==
  IF holder[r] = t /\ Dirty(r) THEN latest[r]
  ELSE IF DirtyReads           THEN latest[r]
  ELSE IF view[t] # NoView     THEN view[t][r]
  ELSE committed[r]

-----------------------------------------------------------------------------
(* Who makes a statement of t wait. *)

LockBlockers(t, r) == {holder[r]} \ {t, NoThread}

ReadBlockers(t, r) ==
  IF SharedReads /\ Dirty(r) THEN LockBlockers(t, r) ELSE {}

UpdateBlockers(t, r) ==
  LockBlockers(t, r) \cup ({u \in Threads : r \in shared[u]} \ {t})

Conflicts(t, r) == FirstUpdaterWins /\ r \in missed[t]

-----------------------------------------------------------------------------
(* Statements.  Each leaves conf and committed alone. *)

(* PostgreSQL takes the view at the first statement, MySQL at the first    *)
(* plain read.                                                             *)
OpenView(t, plainRead) ==
  view' = IF Snapshots /\ view[t] = NoView /\ (plainRead \/ conf.profile = "pgsql")
          THEN [view EXCEPT ![t] = committed] ELSE view

(* INSERT of a row nobody else can see *)
Insert(t) ==
  /\ OpenView(t, FALSE)
  /\ UNCHANGED <<conf, committed, latest, holder, shared, missed>>

(* plain SELECT of the rows R *)
Read(t, R) ==
  /\ \A r \in R : ReadBlockers(t, r) = {}
  /\ OpenView(t, TRUE)
  /\ shared' = IF SharedHeld THEN [shared EXCEPT ![t] = @ \cup R] ELSE shared
  /\ UNCHANGED <<conf, committed, latest, holder, missed>>

(* SELECT ... FOR UPDATE, or with (UPDLOCK): compatible with shared locks  *)
(* on SQL Server, the only product where it meets one.  It opens no view:  *)
(* where PostgreSQL would take one, DBPlanServiceImpl skips the statement. *)
ForUpdateLock(t, r) ==
  /\ LockBlockers(t, r) = {}
  /\ holder' = [holder EXCEPT ![r] = t]
  /\ UNCHANGED <<conf, committed, latest, shared, view, missed>>

(* UPDATE of one row, which the transaction may read back in the same step *)
Update(t, r, value, readsBack) ==
  /\ UpdateBlockers(t, r) = {}
  /\ ~Conflicts(t, r)
  /\ latest' = [latest EXCEPT ![r] = value]
  /\ holder' = [holder EXCEPT ![r] = t]
  /\ OpenView(t, readsBack)
  /\ UNCHANGED <<conf, committed, shared, missed>>

(* The end of a transaction: its locks and its view are gone. *)
Forget(t) ==
  /\ holder' = [r \in Rows |-> IF holder[r] = t THEN NoThread ELSE holder[r]]
  /\ shared' = [shared EXCEPT ![t] = {}]
  /\ view'   = [view EXCEPT ![t] = NoView]

CommitTransaction(t) ==
  LET changed == {r \in Rows : holder[r] = t /\ Dirty(r)}
  IN /\ committed' = [r \in Rows |-> IF holder[r] = t THEN latest[r] ELSE committed[r]]
     /\ missed' = [u \in Threads |->
                     IF u = t THEN {}
                     ELSE IF FirstUpdaterWins /\ view[u] # NoView THEN missed[u] \cup changed
                     ELSE missed[u]]
     /\ Forget(t)
     /\ UNCHANGED <<conf, latest>>

RollbackTransaction(t) ==
  /\ latest' = [r \in Rows |-> IF holder[r] = t THEN committed[r] ELSE latest[r]]
  /\ missed' = [missed EXCEPT ![t] = {}]
  /\ Forget(t)
  /\ UNCHANGED <<conf, committed>>

-----------------------------------------------------------------------------
(* Rows hold integers, and locks, views and conflicts name rows. *)
DatabaseTypeOK ==
  /\ conf \in Deployments
  /\ committed \in [Rows -> Int]
  /\ latest \in [Rows -> Int]
  /\ holder \in [Rows -> Threads \cup {NoThread}]
  /\ shared \in [Threads -> SUBSET Rows]
  /\ view \in [Threads -> [Rows -> Int] \cup {NoView}]
  /\ missed \in [Threads -> SUBSET Rows]

=============================================================================
