------------------------------ MODULE MCChecks ------------------------------
(* Checks, instantiated for TLC: small sets and the deployments of each run. *)
EXTENDS Checks, TLC

Only(profile, isolations, plan) ==
  {[profile |-> profile, isolation |-> i, plan |-> plan] : i \in isolations}

(* p1: row locks, or the isolation levels that do without them.  Left out  *)
(* are three deployments whose behaviours another one has: PostgreSQL ru   *)
(* is its rc, rr its ssi without refused commits, and SQL Server ru is     *)
(* MySQL ru without repetitions.                                           *)
MCRowLocks == Only("mysql", Isolations, "p1")
         \cup Only("pgsql", {"rc", "ssi"}, "p1")
         \cup Only("mssql", {"rc", "rr", "ssi"}, "p1")

(* p1 where DBPlanServiceImpl does lock rows *)
MCForUpdate == Only("mysql", {"ru", "rc", "rr"}, "p1")
        \cup Only("pgsql", {"ru", "rc"}, "p1")
        \cup Only("mssql", {"ru", "rc", "rr"}, "p1")

(* a plan where the isolation level protects the accounts by itself *)
MCStrict(plan) ==      Only("mysql", {"ssi"}, plan)
                  \cup Only("pgsql", {"rr", "ssi"}, plan)
                  \cup Only("mssql", {"rr", "ssi"}, plan)

(* p3 where the rows that are read are held; SQL Server ssi is its rr      *)
(* where no row is locked FOR UPDATE                                       *)
MCSharedLocks == Only("mysql", {"ssi"}, "p3") \cup Only("mssql", {"rr"}, "p3")

(* every deployment, but for those whose behaviours another one has; where *)
(* no row is locked FOR UPDATE, SQL Server ssi is its rr as well           *)
MCEverywhere == MCRowLocks \cup UNION {Only("mysql", Isolations, plan)
                                \cup Only("pgsql", {"rc", "ssi"}, plan)
                                \cup Only("mssql", {"rc", "rr"}, plan) : plan \in {"p2", "p3"}}

(* for liveness: waits in the database, in the plan, and across the two *)
MCWaits == Only("mysql", {"rc", "ssi"}, "p1") \cup Only("pgsql", {"rr"}, "p1")
      \cup Only("mysql", {"ssi"}, "p3") \cup Only("mssql", {"rr"}, "p3")

(* READ UNCOMMITTED: a bill, a recharge or a reload writes what it changes *)
(* before it gives up its keys, and the next one reads what it wrote       *)
MCJavaUncommitted  == Only("mysql", {"ru"}, "p3") \cup Only("mssql", {"ru"}, "p3")

Operations == {"package", "usage", "recharge", "reload"}

WithResets == Operations \cup {"reset"}

Load(deployments, kinds) == [d \in Deployments |-> IF d \in deployments THEN kinds ELSE {}]

(* PostgreSQL's views without locks have the most states: no orders there, *)
(* which StrictIsolation serves on that level.                             *)
MCRowLocksLoad ==
  [d \in Deployments |->
     IF d.profile = "pgsql" /\ d.isolation = "ssi"
     THEN Load(MCRowLocks, {"usage", "recharge", "reload"})[d]
     ELSE Load(MCRowLocks, Operations)[d]]

MCWaitsLoad == Load(MCWaits, WithResets)

(* Where every operation acts as if run alone.  Left out are PostgreSQL rr *)
(* and ssi: p1 takes no row lock there, p2 and p3 free their keys before   *)
(* the commit, and of two snapshots that both have read the two accounts   *)
(* of a user each may write one.  (PostgreSQL may refuse the commit of a   *)
(* serializable transaction; here it need not.)                            *)
MCSerialLoad ==
  [d \in Deployments |->
     Load(MCForUpdate, Operations)[d]
     \cup Load(MCSharedLocks, WithResets)[d]
     \cup Load(Only("mysql", {"ssi"}, "p2"), {"package", "reload"})[d]
     \cup Load(Only("mssql", {"rr"}, "p2"), {"usage", "recharge", "reload"})[d]]

MCJavaReadCommittedLoad == Load(Only("mysql", {"rc"}, "p3"), {"package"})
MCRedisUncommittedLoad  == Load(Only("mysql", {"ru"}, "p2"), {"usage", "recharge"})
MCServerLoad            == Load(Only("mssql", {"rc"}, "p1"), {"package", "reload"})

(* What the isolation level protects, from resets too, and, where nothing  *)
(* but the Java locks and the order of commit and release does, bills,     *)
(* recharges and reloads.  Keys in Redis that expire or are lost multiply  *)
(* the states, so p2 serves fewer operations at once, and neither plan     *)
(* SQL Server's ssi, which is its rr where no row is locked FOR UPDATE.    *)
MCStrictLoad ==
  [d \in Deployments |->
     Load(MCStrict("p3") \ Only("mssql", {"ssi"}, "p3"), WithResets)[d]
     \cup Load(Only("mysql", {"ssi"}, "p2"), {"package", "reload"})[d]
     \cup Load(Only("pgsql", {"rr"}, "p2") \cup Only("mssql", {"rr"}, "p2"),
               {"usage", "recharge", "reload"})[d]
     \cup Load(MCJavaUncommitted, {"usage", "recharge", "reload"})[d]]

(* Orders, recharges, reloads and resets everywhere; lost keys in Redis    *)
(* multiply the states, so p2 serves orders and resets in one deployment.  *)
MCEverywhereLoad ==
  [d \in Deployments |->
     IF d.plan = "p2" /\ d \notin Only("mysql", {"rc"}, "p2")
     THEN Load(MCEverywhere, {"recharge", "reload"})[d]
     ELSE Load(MCEverywhere, {"package", "recharge", "reload", "reset"})[d]]

(* after the discount an item of either product costs 1 *)
MCOriginalPrice == [p \in Products |-> 2]
MCDiscount      == [p \in Products |-> 50]

MCThreads == Permutations(Threads)
=============================================================================
