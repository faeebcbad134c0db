--------------------------- MODULE RedisLockProofs ---------------------------
(***************************************************************************)
(* RedisUtil.tryLock keeps bodies for a common name apart, and its keys    *)
(* are leases, for any number of calls and names.  The reason: a call      *)
(* waits for one command at a time and gives up for good when it gives up  *)
(* waiting, so what it has on record was set for it, and only it deletes   *)
(* that before the key's time is over.                                     *)
(***************************************************************************)
EXTENDS RedisLock, TLAPS

(* A command under way is the one its call waits for, or one of a call     *)
(* that waits for nothing any more.                                        *)
CommandsOK ==
  /\ \A c \in Calls, n \in Names : <<c, n>> \in sent =>
       \/ pc[c] = "wait" /\ lockName[c] = n /\ reply[c] = "none"
       \/ pc[c] \in {"finally", "done"} /\ c \in threw
  /\ \A c \in Calls : /\ reply[c] # "none" => pc[c] = "wait"
                      /\ pc[c] = "wait" => lockName[c] \in todo[c]

(* What a call holds was set for it and is not deleted by anybody else. *)
HeldOK ==
  \A c \in Calls : \A n \in Held[c] : store[n] = c \/ <<c, n>> \in expired

(* The loop leaves no name out. *)
LoopOK ==
  \A c \in Calls : /\ pc[c] = "idle" => lockIdentity[c] = {}
                   /\ pc[c] \in {"loop", "wait"} => lockNames[c] = todo[c] \cup lockIdentity[c]
                   /\ pc[c] = "body" => lockNames[c] = lockIdentity[c]

(* A key in Redis is on record, or its call has seen an exception. *)
RecordOK ==
  /\ \A c \in Calls, n \in Names : store[n] = c => n \in Held[c] \/ c \in threw
  /\ \A c \in Calls : pc[c] = "done" => lockIdentity[c] = {}

LockInv == TypeOK /\ CommandsOK /\ HeldOK /\ LoopOK /\ RecordOK

LEMMA LockInit == Init => LockInv
BY RedisLockAssumption
   DEF Init, LockInv, TypeOK, Labels, CommandsOK, HeldOK, LoopOK, RecordOK, Held

(* A call's own steps that neither touch Redis nor what the call holds. *)
LEMMA QuietStep ==
  ASSUME LockInv, NEW c \in Calls,
         tryLock(c) \/ TimeOut(c) \/ SendLock(c) \/ NotLocked(c) \/ Body(c)
  PROVE  LockInv' /\ Held' = Held /\ store' = store
<1>1. Held' = Held
  BY RedisLockAssumption DEF LockInv, TypeOK, Labels, CommandsOK, Held, Goto,
     tryLock, TimeOut, SendLock, NotLocked, Body, callVars, historyVars
<1>2. store' = store /\ expired' = expired /\ threw' = threw
  BY DEF tryLock, TimeOut, SendLock, NotLocked, Body, historyVars
<1>3. TypeOK'
  BY RedisLockAssumption DEF LockInv, TypeOK, Labels, Goto,
     tryLock, TimeOut, SendLock, NotLocked, Body, callVars, historyVars
<1>4. CommandsOK'
  BY RedisLockAssumption DEF LockInv, TypeOK, Labels, CommandsOK, Goto,
     tryLock, TimeOut, SendLock, NotLocked, Body, callVars, historyVars
<1>5. HeldOK'
  BY <1>1, <1>2 DEF LockInv, HeldOK
<1>6. LoopOK'
  BY DEF LockInv, TypeOK, Labels, LoopOK, Goto,
     tryLock, TimeOut, SendLock, NotLocked, Body, callVars, historyVars
<1>7. RecordOK'
  BY <1>1, <1>2 DEF LockInv, TypeOK, Labels, RecordOK, Goto,
     tryLock, TimeOut, SendLock, NotLocked, Body, callVars
<1> QED
  BY <1>1, <1>2, <1>3, <1>4, <1>5, <1>6, <1>7 DEF LockInv

(* The name that was locked is put on record: it is held before and after. *)
LEMMA LockedStep ==
  ASSUME LockInv, NEW c \in Calls, Locked(c)
  PROVE  LockInv' /\ Held' = Held /\ store' = store
<1>1. Held' = Held
  BY RedisLockAssumption DEF LockInv, TypeOK, Labels, CommandsOK, Held, Goto, Locked
<1>2. store' = store /\ expired' = expired /\ threw' = threw
  BY DEF Locked, historyVars
<1>3. lockName[c] \in Names /\ lockName[c] \in todo[c]
  BY DEF LockInv, TypeOK, CommandsOK, Locked
<1>4. TypeOK'
  BY <1>3 DEF LockInv, TypeOK, Labels, Goto, Locked, historyVars
<1>5. CommandsOK'
  BY <1>3 DEF LockInv, TypeOK, Labels, CommandsOK, Goto, Locked, historyVars
<1>6. HeldOK'
  BY <1>1, <1>2 DEF LockInv, HeldOK
<1>7. LoopOK'
  BY <1>3 DEF LockInv, TypeOK, Labels, LoopOK, Goto, Locked
<1>8. RecordOK'
  BY <1>1, <1>2 DEF LockInv, TypeOK, Labels, RecordOK, Goto, Locked
<1> QED
  BY <1>1, <1>2, <1>4, <1>5, <1>6, <1>7, <1>8 DEF LockInv

(* Giving up the wait lets the name go, and the call has seen an exception. *)
LEMMA LockThrowsStep ==
  ASSUME LockInv, NEW c \in Calls, LockThrows(c)
  PROVE  LockInv' /\ KeyLeases!Abandon(c)
<1>1. /\ store' = store /\ expired' = expired /\ sent' = sent /\ threw' = threw \cup {c}
      /\ Held' \in [Calls -> SUBSET Names]
      /\ Held'[c] \subseteq Held[c]
      /\ \A d \in Calls \ {c} : Held'[d] = Held[d]
  BY RedisLockAssumption
     DEF LockInv, TypeOK, Labels, CommandsOK, Held, Goto, LockThrows, callVars
<1>2. KeyLeases!Abandon(c)
  BY <1>1 DEF KeyLeases!Abandon
<1>3. TypeOK'
  BY DEF LockInv, TypeOK, Labels, Goto, LockThrows, callVars
<1>4. CommandsOK'
  BY DEF LockInv, TypeOK, Labels, CommandsOK, Goto, LockThrows, callVars
<1>5. HeldOK'
  <2> SUFFICES ASSUME NEW d \in Calls, NEW n \in Held'[d]
               PROVE  store'[n] = d \/ <<d, n>> \in expired'
    BY DEF HeldOK
  <2>1. n \in Held[d]
    BY <1>1
  <2> QED
    BY <1>1, <2>1 DEF LockInv, HeldOK
<1>6. LoopOK'
  BY DEF LockInv, TypeOK, Labels, LoopOK, Goto, LockThrows, callVars
<1>7. RecordOK'
  <2>1. \A d \in Calls, n \in Names : store'[n] = d => n \in Held'[d] \/ d \in threw'
    BY <1>1 DEF LockInv, RecordOK
  <2>2. \A d \in Calls : pc'[d] = "done" => lockIdentity'[d] = {}
    BY DEF LockInv, TypeOK, RecordOK, Goto, LockThrows, callVars
  <2> QED
    BY <2>1, <2>2 DEF RecordOK
<1> QED
  BY <1>2, <1>3, <1>4, <1>5, <1>6, <1>7 DEF LockInv

(* A call that has nothing on record returns. *)
LEMMA ReturnStep ==
  ASSUME LockInv, NEW c \in Calls, Return(c)
  PROVE  LockInv' /\ Held' = Held /\ store' = store
<1>1. Held' = Held
  BY DEF LockInv, TypeOK, Labels, CommandsOK, Held, Goto, Return, callVars
<1>2. UNCHANGED <<store, sent, reply, callVars, expired, threw>>
  BY DEF Return, historyVars
<1>3. pc[c] = "finally" /\ lockIdentity[c] = {} /\ pc' = [pc EXCEPT ![c] = "done"]
  BY DEF Return, Goto
<1>4. TypeOK' /\ CommandsOK'
  BY <1>2, <1>3 DEF LockInv, TypeOK, Labels, CommandsOK, callVars
<1>5. HeldOK' /\ LoopOK' /\ RecordOK'
  BY <1>1, <1>2, <1>3 DEF LockInv, TypeOK, HeldOK, LoopOK, RecordOK, callVars
<1> QED
  BY <1>1, <1>2, <1>4, <1>5 DEF LockInv

(* The script deletes the call's own key only; the call forgets the key,   *)
(* or, when an unlock throws, all of them.                                 *)
LEMMA UnlockRelease ==
  ASSUME LockInv, NEW c \in Calls, NEW n \in lockIdentity[c], pc[c] = "finally",
         NEW kept \in SUBSET (lockIdentity[c] \ {n}),
         store' = [store EXCEPT ![n] = IF @ = c THEN None ELSE @],
         lockIdentity' = [lockIdentity EXCEPT ![c] = kept],
         UNCHANGED <<sent, reply, lockNames, todo, lockName, attempts, expired>>,
         \/ pc' = pc /\ kept = lockIdentity[c] \ {n} /\ threw' = threw
         \/ pc' = [pc EXCEPT ![c] = "done"] /\ kept = {} /\ threw' = threw \cup {c}
  PROVE  LockInv' /\ \E k \in Names : KeyLeases!Release(c, k)
<1>1. n \in Names /\ kept \in SUBSET Names
  BY DEF LockInv, TypeOK
<1>2. reply[c] = "none"
  BY DEF LockInv, TypeOK, CommandsOK
<1>3. Held' = [Held EXCEPT ![c] = kept] /\ n \in Held[c] /\ Held[c] = lockIdentity[c]
  BY <1>2 DEF LockInv, TypeOK, Held
<1>4. KeyLeases!Release(c, n)
  BY <1>3 DEF KeyLeases!Release
<1>5. TypeOK'
  BY <1>1 DEF LockInv, TypeOK, Labels
<1>6. CommandsOK'
  BY DEF LockInv, TypeOK, CommandsOK
<1>7. Held = [e \in Calls |-> Held[e]]
  BY DEF Held
<1>8. HeldOK'
  <2> SUFFICES ASSUME NEW d \in Calls, NEW k \in Held'[d]
               PROVE  store'[k] = d \/ <<d, k>> \in expired'
    BY DEF HeldOK
  <2>1. k \in Held[d] /\ (k # n \/ d # c)
    BY <1>3, <1>7
  <2>2. k \in Names /\ (store[k] = d \/ <<d, k>> \in expired)
    BY <2>1, RedisLockAssumption DEF LockInv, HeldOK, Held, TypeOK, CommandsOK
  <2> QED
    BY <1>1, <2>1, <2>2 DEF LockInv, TypeOK
<1>9. LoopOK'
  BY DEF LockInv, TypeOK, LoopOK
<1>10. RecordOK'
  <2>1. ASSUME NEW d \in Calls, NEW k \in Names, store'[k] = d
        PROVE  k \in Held'[d] \/ d \in threw'
    <3>1. store[k] = d /\ (k # n \/ d # c)
      BY <2>1, RedisLockAssumption DEF LockInv, TypeOK
    <3>2. k \in Held[d] \/ d \in threw
      BY <3>1 DEF LockInv, RecordOK
    <3> QED
      BY <1>3, <1>7, <3>1, <3>2
  <2>2. \A d \in Calls : pc'[d] = "done" => lockIdentity'[d] = {}
    BY DEF LockInv, TypeOK, RecordOK
  <2> QED
    BY <2>1, <2>2 DEF RecordOK
<1> QED
  BY <1>1, <1>4, <1>5, <1>6, <1>8, <1>9, <1>10 DEF LockInv

LEMMA UnlockStep ==
  ASSUME LockInv, NEW c \in Calls, Unlock(c)
  PROVE  LockInv' /\ \E n \in Names : KeyLeases!Release(c, n)
<1>1. PICK n \in lockIdentity[c] :
        /\ store' = [store EXCEPT ![n] = IF @ = c THEN None ELSE @]
        /\ lockIdentity' = [lockIdentity EXCEPT ![c] = @ \ {n}]
  BY DEF Unlock
<1>2. lockIdentity' = [lockIdentity EXCEPT ![c] = lockIdentity[c] \ {n}]
  BY <1>1 DEF LockInv, TypeOK
<1>3. /\ pc[c] = "finally" /\ pc' = pc /\ threw' = threw
      /\ UNCHANGED <<sent, reply, lockNames, todo, lockName, attempts, expired>>
  BY DEF Unlock, historyVars
<1> QED
  BY <1>1, <1>2, <1>3, UnlockRelease

(* An unlock throws before Redis has executed the script, or after. *)
LEMMA UnlockThrowsStep ==
  ASSUME LockInv, NEW c \in Calls, UnlockThrows(c)
  PROVE  LockInv' /\ (KeyLeases!Abandon(c) \/ \E n \in Names : KeyLeases!Release(c, n))
<1>1. /\ pc[c] = "finally" /\ lockIdentity' = [lockIdentity EXCEPT ![c] = {}]
      /\ threw' = threw \cup {c} /\ pc' = [pc EXCEPT ![c] = "done"]
      /\ UNCHANGED <<sent, reply, lockNames, todo, lockName, attempts, expired>>
  BY DEF UnlockThrows, Goto
<1>2. CASE \E n \in lockIdentity[c] : store' = [store EXCEPT ![n] = IF @ = c THEN None ELSE @]
  BY <1>1, <1>2, UnlockRelease
<1>3. CASE store' = store
  <2>1. reply[c] = "none"
    BY <1>1 DEF LockInv, TypeOK, CommandsOK
  <2>2. Held' = [Held EXCEPT ![c] = {}] /\ Held \in [Calls -> SUBSET Names]
    <3>1. \A d \in Calls : /\ pc[d] = "wait" => lockName[d] \in Names
                           /\ lockIdentity[d] \subseteq Names
      BY DEF LockInv, TypeOK, CommandsOK
    <3>2. Held \in [Calls -> SUBSET Names]
      BY <3>1 DEF Held
    <3>3. Held' = [Held EXCEPT ![c] = {}]
      BY <1>1, <2>1 DEF LockInv, TypeOK, Held
    <3> QED
      BY <3>2, <3>3
  <2>3. KeyLeases!Abandon(c)
    BY <1>3, <2>2 DEF KeyLeases!Abandon
  <2>4. TypeOK' /\ CommandsOK' /\ LoopOK'
    BY <1>1, <1>3 DEF LockInv, TypeOK, Labels, CommandsOK, LoopOK
  <2>5. HeldOK'
    BY <1>1, <1>3, <2>2 DEF LockInv, HeldOK
  <2>6. RecordOK'
    BY <1>1, <1>3, <2>2 DEF LockInv, TypeOK, RecordOK
  <2> QED
    BY <2>3, <2>4, <2>5, <2>6 DEF LockInv
<1> QED
  BY <1>2, <1>3 DEF UnlockThrows

(* SET NX takes a free key for the call, which learns of it only if it     *)
(* still waits; on a key that is taken it changes nothing.                 *)
LEMMA SetIfAbsentStep ==
  ASSUME LockInv, NEW c \in Calls, NEW n \in Names, SetIfAbsent(c, n)
  PROVE  LockInv' /\ (KeyLeases!Acquire(c, n) \/ (store' = store /\ Held' = Held))
<1>1. /\ <<c, n>> \in sent /\ sent' = sent \ {<<c, n>>}
      /\ store' = [store EXCEPT ![n] = IF @ = None THEN c ELSE @]
      /\ Answered(c, IF store[n] = None THEN "OK" ELSE "nil")
      /\ pc' = pc /\ UNCHANGED callVars /\ expired' = expired /\ threw' = threw
  BY DEF SetIfAbsent, historyVars
<1>2. \/ pc[c] = "wait" /\ lockName[c] = n /\ reply[c] = "none"
      \/ pc[c] \in {"finally", "done"} /\ reply[c] = "none" /\ c \in threw
  BY <1>1 DEF LockInv, TypeOK, CommandsOK
<1>3. Held' = IF pc[c] = "wait" /\ store[n] = None
              THEN [Held EXCEPT ![c] = @ \cup {n}] ELSE Held
  BY <1>1, <1>2 DEF LockInv, TypeOK, Held, Answered, callVars
<1>4. KeyLeases!Acquire(c, n) \/ (store' = store /\ Held' = Held)
  <2>1. CASE store[n] = None
    BY <1>1, <1>3, <2>1 DEF KeyLeases!Acquire
  <2>2. CASE store[n] # None
    BY <1>1, <1>3, <2>2 DEF LockInv, TypeOK
  <2> QED
    BY <2>1, <2>2
<1>5. TypeOK'
  BY <1>1 DEF LockInv, TypeOK, Answered, callVars
<1>6. CommandsOK'
  BY <1>1, <1>2 DEF LockInv, TypeOK, CommandsOK, Answered, callVars
<1>7. HeldOK'
  <2> SUFFICES ASSUME NEW d \in Calls, NEW k \in Held'[d]
               PROVE  store'[k] = d \/ <<d, k>> \in expired'
    BY DEF HeldOK
  <2>1. CASE k \in Held[d]
    <3>1. k \in Names /\ (store[k] = d \/ <<d, k>> \in expired)
      BY <2>1, RedisLockAssumption DEF LockInv, HeldOK, Held, TypeOK, CommandsOK
    <3> QED
      BY <1>1, <3>1, RedisLockAssumption DEF LockInv, TypeOK
  <2>2. CASE k \notin Held[d]
    <3>1. d = c /\ k = n /\ store[n] = None
      BY <1>3, <2>2 DEF Held
    <3> QED
      BY <1>1, <3>1 DEF LockInv, TypeOK
  <2> QED
    BY <2>1, <2>2
<1>8. LoopOK'
  BY <1>1 DEF LockInv, LoopOK, callVars
<1>9. RecordOK'
  <2>1. ASSUME NEW d \in Calls, NEW k \in Names, store'[k] = d
        PROVE  k \in Held'[d] \/ d \in threw'
    <3>1. CASE store[k] = d
      BY <1>1, <1>3, <3>1 DEF LockInv, RecordOK, Held
    <3>2. CASE store[k] # d
      <4>1. d = c /\ k = n /\ store[n] = None
        BY <1>1, <2>1, <3>2 DEF LockInv, TypeOK
      <4> QED
        BY <1>1, <1>2, <1>3, <4>1 DEF Held
    <3> QED
      BY <3>1, <3>2
  <2>2. \A d \in Calls : pc'[d] = "done" => lockIdentity'[d] = {}
    BY <1>1 DEF LockInv, RecordOK, callVars
  <2> QED
    BY <2>1, <2>2 DEF RecordOK
<1> QED
  BY <1>4, <1>5, <1>6, <1>7, <1>8, <1>9 DEF LockInv

LEMMA ExpireStep ==
  ASSUME LockInv, NEW n \in Names, Expire(n)
  PROVE  LockInv' /\ KeyLeases!Lapse(n)
<1>1. Held' = Held
  BY DEF Expire, Held, callVars
<1>2. KeyLeases!Lapse(n)
  BY <1>1 DEF Expire, KeyLeases!Lapse
<1>3. TypeOK'
  BY DEF LockInv, TypeOK, Expire, callVars
<1>4. CommandsOK' /\ LoopOK'
  BY DEF LockInv, CommandsOK, LoopOK, Expire, callVars
<1>5. HeldOK'
  <2> SUFFICES ASSUME NEW d \in Calls, NEW k \in Held[d]
               PROVE  store'[k] = d \/ <<d, k>> \in expired'
    BY <1>1 DEF HeldOK
  <2>1. k \in Names /\ (store[k] = d \/ <<d, k>> \in expired)
    BY RedisLockAssumption DEF LockInv, HeldOK, Held, TypeOK, CommandsOK
  <2> QED
    BY <2>1 DEF Expire, LockInv, TypeOK
<1>6. RecordOK'
  BY <1>1, RedisLockAssumption DEF LockInv, TypeOK, RecordOK, Expire, callVars
<1> QED
  BY <1>2, <1>3, <1>4, <1>5, <1>6 DEF LockInv

LEMMA StutterStep ==
  ASSUME LockInv, UNCHANGED vars
  PROVE  LockInv' /\ Held' = Held /\ store' = store
<1>1. Held' = Held
  BY DEF Held, vars
<1> QED
  BY <1>1 DEF LockInv, TypeOK, CommandsOK, HeldOK, LoopOK, RecordOK, vars

(* Every step keeps the invariant and is a step of Leases, or none. *)
LEMMA LockNext ==
  ASSUME LockInv, [Next]_vars
  PROVE  LockInv' /\ [KeyLeases!Next]_(KeyLeases!leaseVars)
<1> USE DEF KeyLeases!Next, KeyLeases!leaseVars
<1>1. ASSUME NEW c \in Calls, tryLock(c) \/ Step(c)
      PROVE  LockInv' /\ [KeyLeases!Next]_(KeyLeases!leaseVars)
  <2>1. CASE tryLock(c) \/ TimeOut(c) \/ SendLock(c) \/ NotLocked(c) \/ Body(c)
    BY <2>1, QuietStep
  <2>2. CASE Locked(c)
    BY <2>2, LockedStep
  <2>3. CASE LockThrows(c)
    BY <2>3, LockThrowsStep
  <2>4. CASE Unlock(c) \/ UnlockThrows(c)
    BY <2>4, UnlockStep, UnlockThrowsStep
  <2>5. CASE Return(c)
    BY <2>5, ReturnStep
  <2> QED
    BY <1>1, <2>1, <2>2, <2>3, <2>4, <2>5 DEF Step
<1>2. ASSUME NEW n \in Names, Expire(n) \/ \E c \in Calls : SetIfAbsent(c, n)
      PROVE  LockInv' /\ [KeyLeases!Next]_(KeyLeases!leaseVars)
  BY <1>2, ExpireStep, SetIfAbsentStep
<1>3. CASE UNCHANGED vars
  BY <1>3, StutterStep
<1> QED
  BY <1>1, <1>2, <1>3 DEF Next, Redis, Finished

LEMMA LockInvariant == Spec => []LockInv
BY LockInit, LockNext, PTL DEF Spec

(* Type correctness of the lock: keys, commands, answers and what a call   *)
(* has on record, for any number of calls, names and attempts.             *)
THEOREM LockTypeCorrect == Spec => []TypeOK
<1>1. LockInv => TypeOK
  BY DEF LockInv
<1> QED
  BY LockInvariant, <1>1, PTL

LEMMA HeldApart == LockInv => BodiesExclusive
<1> SUFFICES ASSUME LockInv, NEW c \in Calls, NEW d \in Calls,
                    c # d, pc[c] = "body", pc[d] = "body",
                    NEW n \in lockNames[c] \cap lockNames[d]
             PROVE  {<<c, n>>, <<d, n>>} \cap expired # {}
  BY DEF BodiesExclusive
<1>1. n \in Held[c] /\ n \in Held[d]
  BY DEF LockInv, LoopOK, Held
<1> QED
  BY <1>1 DEF LockInv, HeldOK

(* Two bodies never run for a common name, unless a key of one of them     *)
(* expired: any number of calls and names, lost answers, late commands.    *)
THEOREM BodiesApart == Spec => []BodiesExclusive
BY LockInvariant, HeldApart, PTL

LEMMA ReturnedCleanly == LockInv => OnlyErrorsLeaveKeys
<1> SUFFICES ASSUME LockInv, NEW c \in Calls, pc[c] = "done", c \notin threw, NEW n \in Names
             PROVE  store[n] # c /\ <<c, n>> \notin sent
  BY DEF OnlyErrorsLeaveKeys
<1>1. Held[c] = {}
  BY DEF LockInv, RecordOK, Held
<1> QED
  BY <1>1 DEF LockInv, RecordOK, CommandsOK

(* A call that returns without an exception has left no key in Redis and   *)
(* no command under way, whatever others have left there.                  *)
THEOREM CleanReturn == Spec => []OnlyErrorsLeaveKeys
BY LockInvariant, ReturnedCleanly, PTL

LEMMA LeasesInit == Init => KeyLeases!Init
BY DEF Init, KeyLeases!Init, Held

(* The refinement: RedisUtil implements Leases. *)
THEOREM RedisKeysAreLeases == Spec => IsLeases
<1>1. LockInv /\ [Next]_vars => [KeyLeases!Next]_(KeyLeases!leaseVars)
  BY LockNext
<1> QED
  BY LockInvariant, LeasesInit, <1>1, PTL DEF Spec, IsLeases, KeyLeases!Spec
=============================================================================
