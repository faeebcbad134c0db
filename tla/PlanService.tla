----------------------------- MODULE PlanService -----------------------------
(***************************************************************************)
(* The three lock plans a request chooses with the {pType} of its URL:     *)
(* p1 DBPlanServiceImpl takes row locks, p2 RedisPlanServiceImpl takes     *)
(* keys in Redis, p3 JavaLockPlanServiceImpl takes ReentrantLocks.  Each   *)
(* locks one id ("one") or a set of ids ("set") of users or products, one  *)
(* id per step.                                                            *)
(***************************************************************************)
EXTENDS Database

CONSTANT
  KeysMayExpire  \* whether a Redis key can outlive its 10 s while it is held

ASSUME PlanServiceAssumption == KeysMayExpire \in BOOLEAN

VARIABLES
  planLock,    \* lock name -> owner (p2, p3)
  keys,        \* thread -> lock names it has to release
  lost         \* history: keys in Redis a call lost track of by an exception

planVars == <<planLock, keys, lost>>

LockTypes == {"uid", "pid"}
LockForms == {"one", "set", "map"}
LockNames == LockTypes \X LockForms \X (Users \cup Products)

(* seeded fault: the key format of RedisPlanServiceImpl in every plan *)
LockName_PerForm(type, form, id) == <<type, form, id>>

(* The two lock methods of RedisPlanServiceImpl format their key           *)
(* differently ("uid-lock-1", "uid-lock:-1"); JavaLockPlanServiceImpl      *)
(* looks both up in one map.                                               *)
LockName(type, form, id) == <<type, IF conf.plan = "p2" THEN form ELSE "map", id>>

LockRow(type, id) == IF type = "uid" THEN UserRow(id) ELSE ProductRow(id)

(* seeded fault: the case of "pgsql-rr" for every profile *)
SkipsRowLocks_EveryRr == conf.isolation \in {"rr", "ssi"}

(* DBPlanServiceImpl issues no FOR UPDATE for these lockPlanRecord codes. *)
SkipsRowLocks ==
  \/ conf.isolation = "ssi"
  \/ conf.profile = "pgsql" /\ conf.isolation = "rr"

Least(ids, i) == i \in ids /\ \A j \in ids : i <= j
First(ids) == CHOOSE i \in ids : Least(ids, i)

(* seeded fault: JavaLockPlanServiceImpl without its TreeSet *)
NextIds_Unsorted(ids) == ids

(* The ids a lock call may turn to next.  The TreeSet of p3 is ascending;  *)
(* the HashSet of p2 and the IN list of p1 promise no order.               *)
NextIds(ids) == IF conf.plan = "p3" THEN {i \in ids : Least(ids, i)} ELSE ids

-----------------------------------------------------------------------------
AcquireKey(t, k) ==
  /\ planLock[k] = NoThread
  /\ planLock' = [planLock EXCEPT ![k] = t]
  /\ keys'     = [keys EXCEPT ![t] = @ \cup {k}]
  /\ UNCHANGED lost

(* The command throws.  If Redis has executed it, the key is there and no  *)
(* call has it on record.                                                  *)
AcquireThrows(t, k) ==
  /\ \/ UNCHANGED <<planLock, lost>>
     \/ /\ planLock[k] = NoThread
        /\ planLock' = [planLock EXCEPT ![k] = t]
        /\ lost'     = lost \cup {k}
  /\ UNCHANGED keys

(* seeded fault: a plain DEL instead of the script *)
ReleaseKey_Unchecked(t, k) ==
  /\ k \in keys[t]
  /\ planLock' = [planLock EXCEPT ![k] = NoThread]
  /\ keys'     = [keys EXCEPT ![t] = @ \ {k}]
  /\ UNCHANGED lost

(* unlock: the Lua script of RedisUtil deletes a key only while its value  *)
(* is the caller's identity; a ReentrantLock checks its owner.             *)
ReleaseKey(t, k) ==
  /\ k \in keys[t]
  /\ planLock' = [planLock EXCEPT ![k] = IF @ = t THEN NoThread ELSE @]
  /\ keys'     = [keys EXCEPT ![t] = @ \ {k}]
  /\ UNCHANGED lost

(* The script throws, executed by Redis or not, and ends forEach: the keys *)
(* of this call that are left stay in Redis.                               *)
ReleaseThrows(t, k) ==
  LET call == {l \in keys[t] : l[1] = k[1]}
  IN /\ k \in keys[t]
     /\ \/ UNCHANGED planLock
        \/ planLock' = [planLock EXCEPT ![k] = IF @ = t THEN NoThread ELSE @]
     /\ keys' = [keys EXCEPT ![t] = @ \ call]
     /\ lost' = lost \cup {l \in call : planLock'[l] = t}

(* the expire time of a Redis key passes *)
ExpireKey(k) ==
  /\ conf.plan = "p2"
  /\ KeysMayExpire \/ k \in lost
  /\ planLock[k] # NoThread
  /\ planLock' = [planLock EXCEPT ![k] = NoThread]
  /\ lost'     = lost \ {k}
  /\ UNCHANGED keys

(* One id of a lockUser / lockProduct call. *)
PlanAcquire(t, type, form, id) ==
  \/ /\ conf.plan = "p1" /\ ~SkipsRowLocks
     /\ ForUpdateLock(t, LockRow(type, id))
     /\ UNCHANGED planVars
  \/ /\ conf.plan = "p1" /\ SkipsRowLocks
     /\ UNCHANGED <<dbVars, planVars>>
  \/ /\ conf.plan # "p1"
     /\ AcquireKey(t, LockName(type, form, id))
     /\ UNCHANGED dbVars

(* seeded fault: lock() instead of tryLock(2, SECONDS) *)
MayTimeOut_Never(t, type, form, ids) == FALSE

(* A wait for keys may be given up after 2 s.  JavaLockPlanServiceImpl     *)
(* locks a single id without a deadline of its own, so there it has to     *)
(* have waited; the other calls test a clock before each attempt.          *)
MayTimeOut(t, type, form, ids) ==
  /\ conf.plan # "p1"
  /\ conf.plan = "p3" /\ form = "one" =>
       \E i \in ids : planLock[LockName(type, form, i)] # NoThread

(* Keys are owned by threads; only Redis loses track of some. *)
PlanTypeOK ==
  /\ planLock \in [LockNames -> Threads \cup {NoThread}]
  /\ keys \in [Threads -> SUBSET LockNames]
  /\ lost \subseteq LockNames

=============================================================================
