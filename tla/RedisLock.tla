------------------------------ MODULE RedisLock ------------------------------
(***************************************************************************)
(* RedisUtil.tryLock, command by command, for calls that compete for keys. *)
(* Each call locks a set of names: SET name uuid NX PX expireTime, again   *)
(* every 20 ms until Redis answers OK or the time is over; then it runs    *)
(* the body, and the finally block runs a script for every key on record   *)
(* that deletes the key if its value still is the call's uuid.             *)
(*                                                                         *)
(* A command is under way for any time.  The Redis client may give up      *)
(* waiting for an answer with an exception; the command may then still     *)
(* arrive.  Redis drops a key at any time, as a body may take longer than  *)
(* the key's time.  The uuid of a call for a name is the call itself.      *)
(***************************************************************************)
EXTENDS Integers

CONSTANTS
  Calls,        \* the calls of tryLock
  Names,        \* lockNames they may ask for
  None,         \* no call, no name
  MaxAttempts   \* timeout / 20 ms, at least: the commands a call can send

ASSUME RedisLockAssumption ==
  None \notin Calls /\ None \notin Names /\ MaxAttempts \in Nat

VARIABLES
  store,         \* Redis: name -> the call whose uuid is its value
  sent,          \* SET commands under way: <<call, name>>
  reply,         \* call -> answer to its command: "none", "OK", "nil"
  pc,            \* call -> the step it is at
  lockNames,     \* call -> its parameter
  todo,          \* call -> names of the loop not locked yet
  lockName,      \* call -> the name it is trying
  lockIdentity,  \* call -> names on record to be unlocked
  attempts,      \* call -> commands sent
  expired,       \* history: <<call, name>> dropped by Redis
  threw          \* history: calls one of whose commands has thrown

vars == <<store, sent, reply, pc, lockNames, todo, lockName, lockIdentity, attempts,
          expired, threw>>
historyVars == <<expired, threw>>
callVars == <<lockNames, todo, lockName, lockIdentity, attempts>>

Init ==
  /\ store = [n \in Names |-> None]
  /\ sent = {} /\ expired = {} /\ threw = {}
  /\ reply = [c \in Calls |-> "none"]
  /\ pc = [c \in Calls |-> "idle"]
  /\ lockNames = [c \in Calls |-> {}]
  /\ todo = [c \in Calls |-> {}]
  /\ lockName = [c \in Calls |-> None]
  /\ lockIdentity = [c \in Calls |-> {}]
  /\ attempts = [c \in Calls |-> 0]

Goto(c, label) == pc' = [pc EXCEPT ![c] = label]

tryLock(c) ==
  /\ pc[c] = "idle"
  /\ \E S \in (SUBSET Names) \ {{}} :
       /\ lockNames' = [lockNames EXCEPT ![c] = S]
       /\ todo' = [todo EXCEPT ![c] = S]
  /\ Goto(c, "loop")
  /\ UNCHANGED <<store, sent, reply, lockName, lockIdentity, attempts, historyVars>>

(* seeded fault: the way out of a timeout does not lead through finally *)
TimeOut_Directly(c) ==
  /\ pc[c] = "loop"
  /\ Goto(c, "done")
  /\ UNCHANGED <<store, sent, reply, callVars, historyVars>>

(* currentTimeMillis() + 20 >= endTime, which every round of the loop     *)
(* brings 20 ms nearer: return false                                       *)
TimeOut(c) ==
  /\ pc[c] = "loop"
  /\ Goto(c, "finally")
  /\ UNCHANGED <<store, sent, reply, callVars, historyVars>>

(* seeded fault: the clock is not looked at before a name is tried *)
SendLock_Endless(c) ==
  /\ pc[c] = "loop"
  /\ \E n \in todo[c] :
       /\ lockName[c] \in {n, None}
       /\ lockName' = [lockName EXCEPT ![c] = n]
       /\ sent' = sent \cup {<<c, n>>}
  /\ attempts' = [attempts EXCEPT ![c] = @ + 1]
  /\ Goto(c, "wait")
  /\ UNCHANGED <<store, reply, lockNames, todo, lockIdentity, historyVars>>

(* the command of lock(); the HashSet hands out the names in any order,    *)
(* and a name is tried until it is locked                                  *)
SendLock(c) ==
  /\ pc[c] = "loop" /\ attempts[c] < MaxAttempts
  /\ \E n \in todo[c] :
       /\ lockName[c] \in {n, None}
       /\ lockName' = [lockName EXCEPT ![c] = n]
       /\ sent' = sent \cup {<<c, n>>}
  /\ attempts' = [attempts EXCEPT ![c] = @ + 1]
  /\ Goto(c, "wait")
  /\ UNCHANGED <<store, reply, lockNames, todo, lockIdentity, historyVars>>

(* the answer reaches the call if it still waits for one *)
Answered(c, answer) == reply' = IF pc[c] = "wait" THEN [reply EXCEPT ![c] = answer] ELSE reply

(* seeded fault: SET without NX *)
SetIfAbsent_Always(c, n) ==
  /\ <<c, n>> \in sent
  /\ sent' = sent \ {<<c, n>>}
  /\ store' = [store EXCEPT ![n] = c]
  /\ Answered(c, "OK")
  /\ UNCHANGED <<pc, callVars, historyVars>>

(* Redis executes SET NX *)
SetIfAbsent(c, n) ==
  /\ <<c, n>> \in sent
  /\ sent' = sent \ {<<c, n>>}
  /\ store' = [store EXCEPT ![n] = IF @ = None THEN c ELSE @]
  /\ Answered(c, IF store[n] = None THEN "OK" ELSE "nil")
  /\ UNCHANGED <<pc, callVars, historyVars>>

(* locked: the identity is put on record, and the loop or the body goes on *)
Locked(c) ==
  /\ pc[c] = "wait" /\ reply[c] = "OK"
  /\ reply' = [reply EXCEPT ![c] = "none"]
  /\ lockIdentity' = [lockIdentity EXCEPT ![c] = @ \cup {lockName[c]}]
  /\ todo' = [todo EXCEPT ![c] = @ \ {lockName[c]}]
  /\ lockName' = [lockName EXCEPT ![c] = None]
  /\ Goto(c, IF todo[c] = {lockName[c]} THEN "body" ELSE "loop")
  /\ UNCHANGED <<store, sent, lockNames, attempts, historyVars>>

(* not locked: sleep 20 ms and try again *)
NotLocked(c) ==
  /\ pc[c] = "wait" /\ reply[c] = "nil"
  /\ reply' = [reply EXCEPT ![c] = "none"]
  /\ Goto(c, "loop")
  /\ UNCHANGED <<store, sent, callVars, historyVars>>

(* seeded fault: the exception is caught and the name tried again at once *)
LockThrows_Again(c) ==
  /\ pc[c] = "wait"
  /\ reply' = [reply EXCEPT ![c] = "none"]
  /\ sent' = sent \cup {<<c, lockName[c]>>}
  /\ UNCHANGED <<store, pc, callVars, historyVars>>

(* the Redis client throws: no answer in time, or the connection is lost *)
LockThrows(c) ==
  /\ pc[c] = "wait"
  /\ reply' = [reply EXCEPT ![c] = "none"]
  /\ threw' = threw \cup {c}
  /\ Goto(c, "finally")
  /\ UNCHANGED <<store, sent, callVars, expired>>

(* supplier.get() returns or throws *)
Body(c) ==
  /\ pc[c] = "body"
  /\ Goto(c, "finally")
  /\ UNCHANGED <<store, sent, reply, callVars, historyVars>>

(* seeded fault: DEL without a look at the value *)
Unlock_Del(c) ==
  /\ pc[c] = "finally"
  /\ \E n \in lockIdentity[c] :
       /\ store' = [store EXCEPT ![n] = None]
       /\ lockIdentity' = [lockIdentity EXCEPT ![c] = @ \ {n}]
  /\ UNCHANGED <<sent, reply, pc, lockNames, todo, lockName, attempts, historyVars>>

(* unlock: the script compares the value and deletes the key *)
Unlock(c) ==
  /\ pc[c] = "finally"
  /\ \E n \in lockIdentity[c] :
       /\ store' = [store EXCEPT ![n] = IF @ = c THEN None ELSE @]
       /\ lockIdentity' = [lockIdentity EXCEPT ![c] = @ \ {n}]
  /\ UNCHANGED <<sent, reply, pc, lockNames, todo, lockName, attempts, historyVars>>

(* an unlock throws, whether Redis has executed the script or not: forEach *)
(* ends, and the keys it has not come to stay                              *)
UnlockThrows(c) ==
  /\ pc[c] = "finally"
  /\ \E n \in lockIdentity[c] :
       store' \in {store, [store EXCEPT ![n] = IF @ = c THEN None ELSE @]}
  /\ lockIdentity' = [lockIdentity EXCEPT ![c] = {}]
  /\ threw' = threw \cup {c}
  /\ Goto(c, "done")
  /\ UNCHANGED <<sent, reply, lockNames, todo, lockName, attempts, expired>>

(* forEach(this::unlock) is through *)
Return(c) ==
  /\ pc[c] = "finally" /\ lockIdentity[c] = {}
  /\ Goto(c, "done")
  /\ UNCHANGED <<store, sent, reply, callVars, historyVars>>

(* PX: the time of a key is over *)
Expire(n) ==
  /\ store[n] # None
  /\ store' = [store EXCEPT ![n] = None]
  /\ expired' = expired \cup {<<store[n], n>>}
  /\ UNCHANGED <<sent, reply, pc, callVars, threw>>

Step(c) ==
  \/ TimeOut(c) \/ SendLock(c) \/ Locked(c) \/ NotLocked(c) \/ LockThrows(c)
  \/ Body(c) \/ Unlock(c) \/ UnlockThrows(c) \/ Return(c)

Redis == \E n \in Names : Expire(n) \/ \E c \in Calls : SetIfAbsent(c, n)

Finished == (\A c \in Calls : pc[c] = "done") /\ UNCHANGED vars

Next == (\E c \in Calls : tryLock(c) \/ Step(c)) \/ Redis \/ Finished
Spec == Init /\ [][Next]_vars

(* A call that has begun goes on; a Redis client does not wait for ever.   *)
FairSpec == Spec /\ \A c \in Calls : WF_vars(Step(c))

-----------------------------------------------------------------------------
Labels == {"idle", "loop", "wait", "body", "finally", "done"}

(* Every variable has its type. *)
TypeOK ==
  /\ store \in [Names -> Calls \cup {None}]
  /\ sent \subseteq Calls \X Names
  /\ expired \subseteq Calls \X Names /\ threw \subseteq Calls
  /\ reply \in [Calls -> {"none", "OK", "nil"}]
  /\ pc \in [Calls -> Labels]
  /\ lockNames \in [Calls -> SUBSET Names]
  /\ todo \in [Calls -> SUBSET Names]
  /\ lockName \in [Calls -> Names \cup {None}]
  /\ lockIdentity \in [Calls -> SUBSET Names]
  /\ attempts \in [Calls -> 0 .. MaxAttempts]

(* Two bodies never run for a common name, unless a key of one of them     *)
(* expired meanwhile: whatever commands arrive late, answers are lost,     *)
(* calls time out half way through their names or fail to unlock.          *)
BodiesExclusive ==
  \A c, d \in Calls : c # d /\ pc[c] = "body" /\ pc[d] = "body" =>
    \A n \in lockNames[c] \cap lockNames[d] : {<<c, n>>, <<d, n>>} \cap expired # {}

(* Only an exception leaves a key to its 10 s: when tryLock has returned,  *)
(* having run the body or run out of time half way through its names, none *)
(* of its keys is left in Redis, and no command that could still set one.  *)
OnlyErrorsLeaveKeys ==
  \A c \in Calls : pc[c] = "done" /\ c \notin threw =>
    \A n \in Names : store[n] # c /\ <<c, n>> \notin sent

(* Every call returns or throws. *)
CallsEnd == \A c \in Calls : pc[c] # "idle" ~> pc[c] = "done"

(* The keys are leases: held is what the finally block will unlock, from   *)
(* the moment Redis has answered OK.                                       *)
Held == [c \in Calls |-> lockIdentity[c] \cup
                         IF pc[c] = "wait" /\ reply[c] = "OK" THEN {lockName[c]} ELSE {}]

KeyLeases == INSTANCE Leases WITH
  Clients <- Calls, NoClient <- None, owner <- store, held <- Held

IsLeases == KeyLeases!Spec
=============================================================================
