----------------------------- MODULE Snowflake ------------------------------
(***************************************************************************)
(* Snowflake.nextId, which makes the primary keys of every inserted row,   *)
(* on the hosts the program runs on.  A host's clock moves on and, when it *)
(* is corrected, back; a host is killed and started again, which forgets   *)
(* lastTimestamp and, in RunnerConfig, empties the tables.                 *)
(*                                                                         *)
(* BeanConfiguration gives a host's generator the last octet of its        *)
(* address or, if the host cannot tell its address, a random number.       *)
(* Nothing keeps two hosts from getting the same numbers.                  *)
(*                                                                         *)
(* nextId is synchronized: a call is one step, except where it waits for   *)
(* the next millisecond and keeps all other calls of its host waiting.     *)
(***************************************************************************)
EXTENDS Integers, FiniteSets

CONSTANTS
  Hosts,
  Octet,                         \* host -> last octet of its address
  RandomWorkers,                 \* 0 .. 127 in the code
  MaxWorkerId, MaxDatacenterId,  \* 255 and 3 in the code
  SequenceMask,                  \* 4095 in the code
  CreationTime,                  \* theCreationTime
  StartTimes,                    \* clocks the hosts may have at the start
  MaxClock, MaxBacks             \* bounds: clock values, corrections of a clock

(* the constructor's tests pass *)
ASSUME SnowflakeAssumption ==
  /\ MaxWorkerId \in Nat /\ MaxDatacenterId \in Nat /\ SequenceMask \in Nat
  /\ MaxDatacenterId >= 1
  /\ Octet \in [Hosts -> 0 .. MaxWorkerId] /\ RandomWorkers \subseteq 0 .. MaxWorkerId
  /\ CreationTime \in Nat /\ StartTimes \subseteq Nat
  /\ MaxClock \in Nat /\ MaxBacks \in Nat

VARIABLES
  clock,          \* host -> System.currentTimeMillis()
  lastTimestamp,  \* host -> time of its last id
  generator,      \* host -> <<worker, data center>> its ids are made of
  sequence,       \* host -> number of that id in its millisecond
  waiting,        \* host -> whether a call is in tilNextMillis
  ids,            \* host -> its ids in the tables, or on their way there
  issued,         \* host -> how many it handed out since its tables were emptied
  backs           \* corrections so far

vars == <<clock, lastTimestamp, generator, sequence, waiting, ids, issued, backs>>

Generators == (0 .. MaxWorkerId) \X (0 .. MaxDatacenterId)

(* BeanConfiguration.snowflake *)
NewGenerators(h) == {<<Octet[h], 1>>} \cup (RandomWorkers \X {0})

Init ==
  /\ clock \in [Hosts -> StartTimes]
  /\ lastTimestamp = [h \in Hosts |-> -1]
  /\ generator \in [Hosts -> Generators]
  /\ \A h \in Hosts : generator[h] \in NewGenerators(h)
  /\ sequence = [h \in Hosts |-> 0]
  /\ waiting = [h \in Hosts |-> FALSE]
  /\ ids = [h \in Hosts |-> {}]
  /\ issued = [h \in Hosts |-> 0]
  /\ backs = 0

(* The id: time, data center, worker and sequence side by side.  The code  *)
(* shifts by the widths of the fields and combines the parts by |.  The    *)
(* result stays below 2^63 until 2091.                                     *)
Pack(g, timestamp, seq) ==
  (((timestamp - CreationTime) * (MaxDatacenterId + 1) + g[2])
     * (MaxWorkerId + 1) + g[1])
     * (SequenceMask + 1) + seq

(* the end of nextId *)
Issue(h, timestamp, seq) ==
  /\ lastTimestamp' = [lastTimestamp EXCEPT ![h] = timestamp]
  /\ sequence' = [sequence EXCEPT ![h] = seq]
  /\ ids'      = [ids EXCEPT ![h] = @ \cup {Pack(generator[h], timestamp, seq)}]
  /\ UNCHANGED generator
  /\ issued'   = [issued EXCEPT ![h] = @ + 1]

(* seeded fault: a clock that went back counts as a new millisecond *)
NewMillisecond_AnyChange(h) ==
  /\ ~waiting[h] /\ clock[h] < MaxClock
  /\ clock[h] # lastTimestamp[h]
  /\ Issue(h, clock[h], 0)
  /\ UNCHANGED <<clock, waiting, backs>>

(* nextId in a later millisecond than the last id.  When the clock is      *)
(* behind lastTimestamp neither action is possible: the call throws.       *)
NewMillisecond(h) ==
  /\ ~waiting[h] /\ clock[h] < MaxClock
  /\ clock[h] > lastTimestamp[h]
  /\ Issue(h, clock[h], 0)
  /\ UNCHANGED <<clock, waiting, backs>>

Successor(seq) == (seq + 1) % (SequenceMask + 1)

(* nextId in the millisecond of the last id *)
SameMillisecond(h) ==
  /\ ~waiting[h] /\ clock[h] < MaxClock
  /\ clock[h] = lastTimestamp[h]
  /\ IF Successor(sequence[h]) = 0
     THEN /\ sequence' = [sequence EXCEPT ![h] = 0]
          /\ waiting'  = [waiting EXCEPT ![h] = TRUE]
          /\ UNCHANGED <<lastTimestamp, generator, ids, issued>>
     ELSE /\ Issue(h, clock[h], Successor(sequence[h]))
          /\ UNCHANGED waiting
  /\ UNCHANGED <<clock, backs>>

(* seeded fault: the comparison of tilNextMillis turned around *)
TilNextMillis_Turned(h) ==
  /\ waiting[h] /\ clock[h] < lastTimestamp[h]
  /\ waiting' = [waiting EXCEPT ![h] = FALSE]
  /\ Issue(h, clock[h], 0)
  /\ UNCHANGED <<clock, backs>>

(* tilNextMillis saw a later time *)
TilNextMillis(h) ==
  /\ waiting[h] /\ clock[h] > lastTimestamp[h]
  /\ waiting' = [waiting EXCEPT ![h] = FALSE]
  /\ Issue(h, clock[h], 0)
  /\ UNCHANGED <<clock, backs>>

(* seeded fault: RunnerConfig leaves the tables as they are *)
Restart_KeepsRows(h) ==
  /\ lastTimestamp' = [lastTimestamp EXCEPT ![h] = -1]
  /\ sequence' = [sequence EXCEPT ![h] = 0]
  /\ waiting'  = [waiting EXCEPT ![h] = FALSE]
  /\ UNCHANGED <<clock, generator, ids, issued, backs>>

(* The host is killed and started: a new generator, and RunnerConfig.run   *)
(* empties the tables before the first request.  Rows another host is      *)
(* about to commit survive that; here all rows of the others do.           *)
Restart(h) ==
  /\ lastTimestamp' = [lastTimestamp EXCEPT ![h] = -1]
  /\ sequence' = [sequence EXCEPT ![h] = 0]
  /\ waiting'  = [waiting EXCEPT ![h] = FALSE]
  /\ ids'      = [ids EXCEPT ![h] = {}]
  /\ issued'   = [issued EXCEPT ![h] = 0]
  /\ \E g \in NewGenerators(h) : generator' = [generator EXCEPT ![h] = g]
  /\ UNCHANGED <<clock, backs>>

Tick(h) ==
  /\ clock[h] < MaxClock
  /\ clock' = [clock EXCEPT ![h] = @ + 1]
  /\ UNCHANGED <<lastTimestamp, generator, sequence, waiting, ids, issued, backs>>

(* the clock is set back *)
SetBack(h) ==
  /\ backs < MaxBacks
  /\ \E earlier \in 0 .. clock[h] - 1 : clock' = [clock EXCEPT ![h] = earlier]
  /\ backs' = backs + 1
  /\ UNCHANGED <<lastTimestamp, generator, sequence, waiting, ids, issued>>

Step(h) == NewMillisecond(h) \/ SameMillisecond(h) \/ TilNextMillis(h)
             \/ Restart(h) \/ Tick(h) \/ SetBack(h)

Next == \E h \in Hosts : Step(h)

Spec == Init /\ [][Next]_vars

(* clocks run, and the loop of tilNextMillis is scheduled *)
FairSpec == Spec /\ \A h \in Hosts : WF_vars(Tick(h)) /\ WF_vars(TilNextMillis(h))

-----------------------------------------------------------------------------
(* Primary keys: no id is handed out twice while its row may exist, by     *)
(* one host, whose clock may go back and which may restart, or by two,     *)
(* unless they have been given the same numbers.                           *)
UniqueIds ==
  /\ \A h \in Hosts : Cardinality(ids[h]) = issued[h]
  /\ \A g, h \in Hosts : generator[g] # generator[h] => ids[g] \cap ids[h] = {}

(* Why: the ids of a host are no greater than the last one it made, or,    *)
(* while a call waits for the next millisecond, the last of this one.      *)
LastNumber(h) == IF waiting[h] THEN SequenceMask ELSE sequence[h]

IdsBelowLast ==
  \A h \in Hosts : \A id \in ids[h] : id <= Pack(generator[h], lastTimestamp[h], LastNumber(h))

(* an id is made of its host's numbers and a time it has seen *)
IdsPacked ==
  \A h \in Hosts : \A id \in ids[h] :
    \E timestamp \in 0 .. lastTimestamp[h], seq \in 0 .. SequenceMask :
      id = Pack(generator[h], timestamp, seq)

SnowflakeTypeOK ==
  /\ clock \in [Hosts -> Nat]
  /\ lastTimestamp \in [Hosts -> Nat \cup {-1}]
  /\ generator \in [Hosts -> Generators]
  /\ sequence \in [Hosts -> 0 .. SequenceMask]
  /\ waiting \in [Hosts -> BOOLEAN]
  /\ ids \in [Hosts -> SUBSET Int]
  /\ \A h \in Hosts : IsFiniteSet(ids[h])
  /\ issued \in [Hosts -> Nat]

(* The inductive invariant behind UniqueIds. *)
SnowflakeInv == SnowflakeTypeOK /\ IdsBelowLast /\ IdsPacked /\ UniqueIds

(* nextId holds the monitor while it waits, so every insert of the host    *)
(* waits with it: the wait ends, even if the clock is set back meanwhile.  *)
WaitEnds == \A h \in Hosts : waiting[h] ~> ~waiting[h]

=============================================================================
