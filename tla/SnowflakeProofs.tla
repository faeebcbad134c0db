-------------------------- MODULE SnowflakeProofs ---------------------------
(***************************************************************************)
(* The ids of a host, and of hosts with different numbers, are unique for  *)
(* any number of hosts, any widths of the fields, any restarts and any way *)
(* the clocks are set back.                                                *)
(***************************************************************************)
EXTENDS Snowflake, FiniteSetTheorems, TLAPS

(* Numbers made of digits: x is followed by a digit s below K. *)

LEMMA Positional ==
  ASSUME NEW x \in Int, NEW y \in Int, x < y, NEW K \in Nat, K > 0,
         NEW s \in 0 .. K - 1, NEW t \in 0 .. K - 1
  PROVE  x * K + s < y * K + t
<1>1. (y - x - 1) \in Nat
  OBVIOUS
<1>2. \A a, b \in Nat : a * b \in Nat
  OBVIOUS
<1>3. (y - x - 1) * K \in Nat
  BY <1>1, <1>2
<1>4. (y - x - 1) * K = y * K - x * K - K
  OBVIOUS
<1>5. x * K \in Int /\ y * K \in Int
  OBVIOUS
<1> QED
  BY <1>3, <1>4, <1>5

LEMMA DigitsUnique ==
  ASSUME NEW x \in Int, NEW y \in Int, NEW K \in Nat, K > 0,
         NEW s \in 0 .. K - 1, NEW t \in 0 .. K - 1,
         x * K + s = y * K + t
  PROVE  x = y /\ s = t
<1>1. x * K \in Int /\ y * K \in Int
  OBVIOUS
<1>2. ~(x < y)
  BY <1>1, Positional
<1>3. ~(y < x)
  BY <1>1, Positional
<1>4. x = y
  BY <1>2, <1>3
<1> QED
  BY <1>1, <1>4

(* the fields of an id, joined one after the other *)
LEMMA PackFields ==
  ASSUME NEW g \in Generators, NEW timestamp \in Int, NEW seq \in Int
  PROVE  /\ (timestamp - CreationTime) \in Int
         /\ (timestamp - CreationTime) * (MaxDatacenterId + 1) + g[2] \in Int
         /\ ((timestamp - CreationTime) * (MaxDatacenterId + 1) + g[2])
              * (MaxWorkerId + 1) + g[1] \in Int
         /\ Pack(g, timestamp, seq) \in Int
<1> DEFINE a == timestamp - CreationTime
           b == a * (MaxDatacenterId + 1) + g[2]
           c == b * (MaxWorkerId + 1) + g[1]
<1>1. /\ MaxWorkerId + 1 \in Int /\ MaxDatacenterId + 1 \in Int /\ SequenceMask + 1 \in Int
      /\ g[1] \in Int /\ g[2] \in Int /\ CreationTime \in Int
  BY SnowflakeAssumption DEF Generators
<1>2. a \in Int
  BY <1>1
<1>3. \A x, y, z \in Int : x * y + z \in Int
  OBVIOUS
<1>4. b \in Int
  <2> HIDE DEF a
  <2> QED BY <1>1, <1>2, <1>3
<1>5. c \in Int
  <2> HIDE DEF b
  <2> QED BY <1>1, <1>3, <1>4
<1>6. c * (SequenceMask + 1) + seq \in Int
  <2> HIDE DEF c
  <2> QED BY <1>1, <1>3, <1>5
<1> QED
  BY <1>2, <1>4, <1>5, <1>6 DEF Pack

(* A later time makes a greater id, whatever the sequence. *)
LEMMA LaterIsGreater ==
  ASSUME NEW g \in Generators, NEW early \in Int, NEW late \in Int, early < late,
         NEW s \in 0 .. SequenceMask, NEW t \in 0 .. SequenceMask
  PROVE  Pack(g, early, s) < Pack(g, late, t)
<1> DEFINE a(x) == x - CreationTime
           b(x) == a(x) * (MaxDatacenterId + 1) + g[2]
           c(x) == b(x) * (MaxWorkerId + 1) + g[1]
<1>1. /\ MaxDatacenterId + 1 \in Nat /\ MaxDatacenterId + 1 > 0
      /\ g[2] \in 0 .. (MaxDatacenterId + 1) - 1
      /\ MaxWorkerId + 1 \in Nat /\ MaxWorkerId + 1 > 0
      /\ g[1] \in 0 .. (MaxWorkerId + 1) - 1
      /\ SequenceMask + 1 \in Nat /\ SequenceMask + 1 > 0
      /\ s \in 0 .. (SequenceMask + 1) - 1 /\ t \in 0 .. (SequenceMask + 1) - 1
  BY SnowflakeAssumption DEF Generators
<1>2. /\ a(early) \in Int /\ a(late) \in Int /\ b(early) \in Int /\ b(late) \in Int
      /\ c(early) \in Int /\ c(late) \in Int
  BY PackFields, 0 \in Int
<1>3. a(early) < a(late)
  BY SnowflakeAssumption
<1>4. b(early) < b(late)
  <2> HIDE DEF a
  <2> QED BY <1>1, <1>2, <1>3, Positional
<1>5. c(early) < c(late)
  <2> HIDE DEF b
  <2> QED BY <1>1, <1>2, <1>4, Positional
<1>6. c(early) * (SequenceMask + 1) + s < c(late) * (SequenceMask + 1) + t
  <2> HIDE DEF c
  <2> QED BY <1>1, <1>2, <1>5, Positional
<1> QED
  BY <1>6 DEF Pack

(* In one millisecond the sequence orders the ids. *)
LEMMA SequenceOrders ==
  ASSUME NEW g \in Generators, NEW timestamp \in Int, NEW s \in Int, NEW t \in Int
  PROVE  (s < t => Pack(g, timestamp, s) < Pack(g, timestamp, t))
<1> DEFINE c == ((timestamp - CreationTime) * (MaxDatacenterId + 1) + g[2])
                   * (MaxWorkerId + 1) + g[1]
<1>1. c \in Int /\ SequenceMask + 1 \in Int
  <2>1. c \in Int
    BY PackFields, 0 \in Int
  <2> QED
    BY <2>1, SnowflakeAssumption
<1>2. c * (SequenceMask + 1) \in Int
  <2> HIDE DEF c
  <2> QED BY <1>1
<1> DEFINE d == c * (SequenceMask + 1)
<1>3. Pack(g, timestamp, s) = d + s /\ Pack(g, timestamp, t) = d + t
  BY DEF Pack
<1> HIDE DEF d
<1> QED
  BY <1>2, <1>3 DEF d

(* Different numbers never make the same id. *)
LEMMA NumbersDiffer ==
  ASSUME NEW g \in Generators, NEW h \in Generators, NEW u \in Int, NEW v \in Int,
         NEW s \in 0 .. SequenceMask, NEW t \in 0 .. SequenceMask,
         Pack(g, u, s) = Pack(h, v, t)
  PROVE  g = h
<1> DEFINE a(x) == x - CreationTime
           b(i, x) == a(x) * (MaxDatacenterId + 1) + i[2]
           c(i, x) == b(i, x) * (MaxWorkerId + 1) + i[1]
<1>1. /\ MaxDatacenterId + 1 \in Nat /\ MaxDatacenterId + 1 > 0
      /\ \A i \in Generators : i[2] \in 0 .. (MaxDatacenterId + 1) - 1
      /\ MaxWorkerId + 1 \in Nat /\ MaxWorkerId + 1 > 0
      /\ \A i \in Generators : i[1] \in 0 .. (MaxWorkerId + 1) - 1
      /\ SequenceMask + 1 \in Nat /\ SequenceMask + 1 > 0
      /\ s \in 0 .. (SequenceMask + 1) - 1 /\ t \in 0 .. (SequenceMask + 1) - 1
  BY SnowflakeAssumption DEF Generators
<1>2. /\ a(u) \in Int /\ a(v) \in Int /\ b(g, u) \in Int /\ b(h, v) \in Int
      /\ c(g, u) \in Int /\ c(h, v) \in Int
  BY PackFields, 0 \in Int
<1>3. c(g, u) * (SequenceMask + 1) + s = c(h, v) * (SequenceMask + 1) + t
  BY DEF Pack
<1>4. c(g, u) = c(h, v)
  <2> HIDE DEF c
  <2> QED BY <1>1, <1>2, <1>3, DigitsUnique
<1>5. b(g, u) = b(h, v) /\ g[1] = h[1]
  <2>1. b(g, u) * (MaxWorkerId + 1) + g[1] = b(h, v) * (MaxWorkerId + 1) + h[1]
    BY <1>4
  <2>2. g[1] \in 0 .. (MaxWorkerId + 1) - 1 /\ h[1] \in 0 .. (MaxWorkerId + 1) - 1
    BY <1>1
  <2> DEFINE K == MaxWorkerId + 1
             x == b(g, u)
             y == b(h, v)
             w == g[1]
             z == h[1]
  <2>3. K \in Nat /\ K > 0 /\ x \in Int /\ y \in Int
    BY <1>1, <1>2
  <2>4. w \in 0 .. K - 1 /\ z \in 0 .. K - 1
    BY <2>2
  <2>5. x * K + w = y * K + z
    BY <2>1
  <2> HIDE DEF b, K, x, y, w, z
  <2>6. x = y /\ w = z
    BY <2>3, <2>4, <2>5, DigitsUnique
  <2> QED BY <2>6 DEF x, y, w, z
<1>6. g[2] = h[2]
  <2> DEFINE K == MaxDatacenterId + 1
             x == a(u)
             y == a(v)
             w == g[2]
             z == h[2]
  <2>1. K \in Nat /\ K > 0 /\ x \in Int /\ y \in Int
    BY <1>1, <1>2
  <2>2. w \in 0 .. K - 1 /\ z \in 0 .. K - 1
    BY <1>1
  <2>3. x * K + w = y * K + z
    BY <1>5
  <2> HIDE DEF a, K, x, y, w, z
  <2>4. w = z
    BY <2>1, <2>2, <2>3, DigitsUnique
  <2> QED BY <2>4 DEF w, z
<1> QED
  BY <1>5, <1>6 DEF Generators

(* So tables of ids made of different numbers have nothing in common. *)
LEMMA PackedApart ==
  ASSUME NEW table, NEW last, NEW numbers,
         last \in [Hosts -> Nat \cup {-1}], numbers \in [Hosts -> Generators],
         \A g \in Hosts : \A id \in table[g] :
           \E time \in 0 .. last[g], number \in 0 .. SequenceMask :
             id = Pack(numbers[g], time, number)
  PROVE  \A f, g \in Hosts : numbers[f] # numbers[g] => table[f] \cap table[g] = {}
<1> SUFFICES ASSUME NEW f \in Hosts, NEW g \in Hosts, NEW id,
                    id \in table[f], id \in table[g]
             PROVE  numbers[f] = numbers[g]
  OBVIOUS
<1>1. PICK u \in 0 .. last[f], s \in 0 .. SequenceMask : id = Pack(numbers[f], u, s)
  OBVIOUS
<1>2. PICK v \in 0 .. last[g], t \in 0 .. SequenceMask : id = Pack(numbers[g], v, t)
  OBVIOUS
<1>3. u \in Int /\ v \in Int /\ numbers[f] \in Generators /\ numbers[g] \in Generators
  BY <1>1, <1>2
<1> QED
  BY <1>1, <1>2, <1>3, NumbersDiffer

-----------------------------------------------------------------------------
(* An id that is made now is greater than all its host has made, and so    *)
(* new; the others cannot have it.                                         *)
LEMMA IssueKeeps ==
  ASSUME SnowflakeInv, NEW h \in Hosts, NEW timestamp \in Nat,
         NEW seq \in 0 .. SequenceMask, Issue(h, timestamp, seq),
         timestamp >= lastTimestamp[h],
         Pack(generator[h], lastTimestamp[h], LastNumber(h)) < Pack(generator[h], timestamp, seq),
         waiting' \in [Hosts -> BOOLEAN], ~waiting'[h],
         \A g \in Hosts \ {h} : waiting'[g] = waiting[g],
         clock' = clock
  PROVE  SnowflakeInv'
<1> DEFINE new == Pack(generator[h], timestamp, seq)
<1>0. /\ SnowflakeTypeOK /\ IdsBelowLast /\ IdsPacked /\ UniqueIds
  BY DEF SnowflakeInv
<1>. generator' = generator /\ generator \in [Hosts -> Generators]
  BY <1>0 DEF Issue, SnowflakeTypeOK
<1>1. new \in Int
  BY PackFields, timestamp \in Int, seq \in Int, SnowflakeAssumption
<1>2. /\ Pack(generator[h], lastTimestamp[h], LastNumber(h)) \in Int
      /\ \A id \in ids[h] : id \in Int /\ id < new
  <2>1. lastTimestamp[h] \in Int /\ LastNumber(h) \in Int
    BY <1>0, SnowflakeAssumption DEF SnowflakeTypeOK, LastNumber
  <2>2. Pack(generator[h], lastTimestamp[h], LastNumber(h)) \in Int
    BY <2>1, PackFields
  <2>3. \A id \in ids[h] : id \in Int /\ id <= Pack(generator[h], lastTimestamp[h], LastNumber(h))
    BY <1>0 DEF SnowflakeTypeOK, IdsBelowLast
  <2> QED
    BY <1>1, <2>2, <2>3
<1>3. \A g \in Hosts : /\ g = h => ids'[g] = ids[g] \cup {new}
                       /\ g # h => ids'[g] = ids[g]
                       /\ lastTimestamp'[g] = IF g = h THEN timestamp ELSE lastTimestamp[g]
                       /\ sequence'[g] = IF g = h THEN seq ELSE sequence[g]
                       /\ issued'[g] = IF g = h THEN issued[g] + 1 ELSE issued[g]
  BY <1>0 DEF Issue, SnowflakeTypeOK
<1>4. SnowflakeTypeOK'
  <2>1. /\ lastTimestamp' \in [Hosts -> Nat \cup {-1}]
        /\ sequence' \in [Hosts -> 0 .. SequenceMask]
        /\ issued' \in [Hosts -> Nat]
    BY <1>0 DEF Issue, SnowflakeTypeOK
  <2>2. ids' \in [Hosts -> SUBSET Int]
    <3> HIDE DEF new
    <3>1. ids' = [ids EXCEPT ![h] = @ \cup {new}]
      BY DEF Issue, new
    <3> QED
      BY <1>0, <1>1, <3>1 DEF SnowflakeTypeOK
  <2>3. \A g \in Hosts : IsFiniteSet(ids'[g])
    <3> SUFFICES ASSUME NEW g \in Hosts PROVE IsFiniteSet(ids'[g])
      OBVIOUS
    <3>1. IsFiniteSet(ids[g])
      BY <1>0 DEF SnowflakeTypeOK
    <3>2. IsFiniteSet(ids[g] \cup {new})
      BY <3>1, FS_AddElement
    <3> QED
      BY <1>3, <3>1, <3>2
  <2> QED
    BY <1>0, <2>1, <2>2, <2>3 DEF SnowflakeTypeOK
<1>5. \A g \in Hosts : LastNumber(g)' = IF g = h THEN seq ELSE LastNumber(g)
  BY <1>3 DEF LastNumber
<1>6. IdsBelowLast'
  <2> SUFFICES ASSUME NEW g \in Hosts, NEW id \in ids'[g]
               PROVE  id <= Pack(generator[g], lastTimestamp'[g], LastNumber(g)')
    BY DEF IdsBelowLast
  <2>1. CASE g # h
    BY <1>0, <1>3, <1>5, <2>1 DEF IdsBelowLast
  <2>2. CASE g = h
    <3>1. Pack(generator[g], lastTimestamp'[g], LastNumber(g)') = new
      BY <1>3, <1>5, <2>2
    <3>2. id \in Int /\ id <= new
      BY <1>1, <1>2, <1>3, <2>2
    <3> QED
      BY <3>1, <3>2
  <2> QED
    BY <2>1, <2>2
<1>7. IdsPacked'
  <2> SUFFICES ASSUME NEW g \in Hosts, NEW id \in ids'[g]
               PROVE  \E time \in 0 .. lastTimestamp'[g], number \in 0 .. SequenceMask :
                        id = Pack(generator[g], time, number)
    BY DEF IdsPacked
  <2>1. CASE g = h /\ id = new
    <3>1. timestamp \in 0 .. lastTimestamp'[g]
      BY <1>3, <2>1
    <3> QED
      BY <2>1, <3>1
  <2>2. CASE id \in ids[g]
    <3>1. PICK time \in 0 .. lastTimestamp[g], number \in 0 .. SequenceMask :
                 id = Pack(generator[g], time, number)
      BY <1>0, <2>2 DEF IdsPacked
    <3>2. time \in 0 .. lastTimestamp'[g]
      BY <1>0, <1>3 DEF SnowflakeTypeOK
    <3> QED
      BY <3>1, <3>2
  <2> QED
    BY <1>3, <2>1, <2>2
<1>8. \A g \in Hosts : Cardinality(ids'[g]) = issued'[g]
  <2> SUFFICES ASSUME NEW g \in Hosts PROVE Cardinality(ids'[g]) = issued'[g]
    OBVIOUS
  <2>1. IsFiniteSet(ids[g]) /\ Cardinality(ids[g]) = issued[g]
    BY <1>0 DEF SnowflakeTypeOK, UniqueIds
  <2>2. CASE g = h
    <3>1. new \notin ids[g]
      BY <1>1, <1>2, <2>2
    <3>2. Cardinality(ids[g] \cup {new}) = Cardinality(ids[g]) + 1
      BY <2>1, <3>1, FS_AddElement
    <3> QED
      BY <1>3, <2>1, <2>2, <3>2
  <2> QED
    BY <1>3, <2>1, <2>2
<1>9. \A f, g \in Hosts : generator'[f] # generator'[g] => ids'[f] \cap ids'[g] = {}
  <2>1. lastTimestamp' \in [Hosts -> Nat \cup {-1}] /\ generator' \in [Hosts -> Generators]
    BY <1>4 DEF SnowflakeTypeOK
  <2>2. \A g \in Hosts : \A id \in ids'[g] :
          \E time \in 0 .. lastTimestamp'[g], number \in 0 .. SequenceMask :
            id = Pack(generator'[g], time, number)
    BY <1>7 DEF IdsPacked
  <2> HIDE DEF new
  <2> QED
    BY <2>1, <2>2, PackedApart
<1> QED
  BY <1>4, <1>6, <1>7, <1>8, <1>9 DEF SnowflakeInv, UniqueIds

(* the id of a later millisecond, made at once or after a wait *)
LEMMA LaterStep ==
  ASSUME SnowflakeInv, NEW h \in Hosts, NewMillisecond(h) \/ TilNextMillis(h)
  PROVE  SnowflakeInv'
<1>0. SnowflakeTypeOK
  BY DEF SnowflakeInv
<1>1. /\ clock[h] \in Nat /\ clock[h] > lastTimestamp[h] /\ lastTimestamp[h] \in Int
      /\ Issue(h, clock[h], 0) /\ clock' = clock /\ generator[h] \in Generators
      /\ 0 \in 0 .. SequenceMask /\ LastNumber(h) \in 0 .. SequenceMask
  BY <1>0, SnowflakeAssumption
     DEF NewMillisecond, TilNextMillis, SnowflakeTypeOK, LastNumber
<1>2. Pack(generator[h], lastTimestamp[h], LastNumber(h)) < Pack(generator[h], clock[h], 0)
  BY <1>1, LaterIsGreater
<1>3. /\ waiting' \in [Hosts -> BOOLEAN] /\ ~waiting'[h]
      /\ \A g \in Hosts \ {h} : waiting'[g] = waiting[g]
  BY <1>0 DEF NewMillisecond, TilNextMillis, SnowflakeTypeOK
<1> QED
  BY <1>1, <1>2, <1>3, IssueKeeps

LEMMA SameMillisecondStep ==
  ASSUME SnowflakeInv, NEW h \in Hosts, SameMillisecond(h)
  PROVE  SnowflakeInv'
<1>0. /\ SnowflakeTypeOK /\ IdsBelowLast /\ IdsPacked /\ UniqueIds
  BY DEF SnowflakeInv
<1>1. /\ sequence[h] \in 0 .. SequenceMask /\ SequenceMask \in Nat
      /\ clock[h] \in Nat /\ clock[h] = lastTimestamp[h] /\ ~waiting[h]
      /\ generator[h] \in Generators
  BY <1>0, SnowflakeAssumption DEF SameMillisecond, SnowflakeTypeOK
<1>2. /\ sequence[h] < SequenceMask => Successor(sequence[h]) = sequence[h] + 1
      /\ sequence[h] = SequenceMask => Successor(sequence[h]) = 0
  BY <1>1 DEF Successor
<1>3. CASE Successor(sequence[h]) # 0
  <2>1. Issue(h, clock[h], Successor(sequence[h])) /\ waiting' = waiting /\ clock' = clock
    BY <1>3 DEF SameMillisecond
  <2>2. Successor(sequence[h]) = sequence[h] + 1 /\ Successor(sequence[h]) \in 0 .. SequenceMask
    BY <1>1, <1>2, <1>3
  <2>3. LastNumber(h) = sequence[h]
    BY <1>1 DEF LastNumber
  <2>4. Pack(generator[h], lastTimestamp[h], LastNumber(h))
          < Pack(generator[h], clock[h], Successor(sequence[h]))
    <3>1. clock[h] \in Int /\ sequence[h] \in Int /\ sequence[h] + 1 \in Int
      BY <1>1
    <3>2. Pack(generator[h], clock[h], sequence[h]) < Pack(generator[h], clock[h], sequence[h] + 1)
      BY <1>1, <3>1, SequenceOrders
    <3> QED
      BY <1>1, <2>2, <2>3, <3>2
  <2>5. waiting' \in [Hosts -> BOOLEAN] /\ ~waiting'[h]
    BY <1>0, <1>1, <2>1 DEF SnowflakeTypeOK
  <2>6. clock[h] >= lastTimestamp[h]
    BY <1>1
  <2> QED
    BY <1>1, <2>1, <2>2, <2>4, <2>5, <2>6, IssueKeeps
<1>4. CASE Successor(sequence[h]) = 0
  <2>1. /\ sequence' = [sequence EXCEPT ![h] = 0] /\ waiting' = [waiting EXCEPT ![h] = TRUE]
        /\ UNCHANGED <<clock, lastTimestamp, generator, ids, issued>>
    BY <1>4 DEF SameMillisecond
  <2>2. sequence[h] = SequenceMask
    BY <1>1, <1>2, <1>4
  <2>3. \A g \in Hosts : LastNumber(g)' = LastNumber(g)
    BY <1>0, <1>1, <2>1, <2>2 DEF LastNumber, SnowflakeTypeOK
  <2>4. SnowflakeTypeOK'
    BY <1>0, <1>1, <2>1 DEF SnowflakeTypeOK
  <2>5. IdsBelowLast' /\ IdsPacked' /\ UniqueIds'
    BY <1>0, <2>1, <2>3 DEF IdsBelowLast, IdsPacked, UniqueIds
  <2> QED
    BY <2>4, <2>5 DEF SnowflakeInv
<1> QED
  BY <1>3, <1>4

LEMMA BeansInRange == \A h \in Hosts : NewGenerators(h) \subseteq Generators
<1> SUFFICES ASSUME NEW h \in Hosts, NEW g \in NewGenerators(h)
             PROVE  g \in Generators
  OBVIOUS
<1>1. 0 \in 0 .. MaxDatacenterId /\ 1 \in 0 .. MaxDatacenterId /\ Octet[h] \in 0 .. MaxWorkerId
  BY SnowflakeAssumption
<1>2. CASE g = <<Octet[h], 1>>
  BY <1>1, <1>2 DEF Generators
<1>3. CASE g \in RandomWorkers \X {0}
  BY <1>1, <1>3, SnowflakeAssumption DEF Generators
<1> QED
  BY <1>2, <1>3 DEF NewGenerators

LEMMA RestartStep ==
  ASSUME SnowflakeInv, NEW h \in Hosts, Restart(h)
  PROVE  SnowflakeInv'
<1>0. /\ SnowflakeTypeOK /\ IdsBelowLast /\ IdsPacked /\ UniqueIds
  BY DEF SnowflakeInv
<1>1. \A g \in Hosts : /\ g = h => ids'[g] = {} /\ issued'[g] = 0
                       /\ g # h => /\ ids'[g] = ids[g] /\ issued'[g] = issued[g]
                                   /\ lastTimestamp'[g] = lastTimestamp[g]
                                   /\ generator'[g] = generator[g]
                                   /\ LastNumber(g)' = LastNumber(g)
  BY <1>0 DEF Restart, SnowflakeTypeOK, LastNumber
<1>2. SnowflakeTypeOK'
  <2>1. /\ clock' \in [Hosts -> Nat] /\ lastTimestamp' \in [Hosts -> Nat \cup {-1}]
        /\ sequence' \in [Hosts -> 0 .. SequenceMask] /\ waiting' \in [Hosts -> BOOLEAN]
        /\ ids' \in [Hosts -> SUBSET Int] /\ issued' \in [Hosts -> Nat]
    BY <1>0, SnowflakeAssumption DEF Restart, SnowflakeTypeOK
  <2>3. generator' \in [Hosts -> Generators]
    BY <1>0, BeansInRange DEF Restart, SnowflakeTypeOK
  <2>2. \A g \in Hosts : IsFiniteSet(ids'[g])
    BY <1>0, <1>1, FS_EmptySet DEF SnowflakeTypeOK
  <2> QED
    BY <2>1, <2>2, <2>3 DEF SnowflakeTypeOK
<1>3. IdsBelowLast' /\ IdsPacked'
  BY <1>0, <1>1 DEF IdsBelowLast, IdsPacked
<1>4. UniqueIds'
  BY <1>0, <1>1, FS_EmptySet DEF UniqueIds
<1> QED
  BY <1>2, <1>3, <1>4 DEF SnowflakeInv

(* the clock matters to nothing that is on record *)
LEMMA ClockStep ==
  ASSUME SnowflakeInv, NEW h \in Hosts, Tick(h) \/ SetBack(h)
  PROVE  SnowflakeInv'
<1>0. /\ SnowflakeTypeOK /\ IdsBelowLast /\ IdsPacked /\ UniqueIds
  BY DEF SnowflakeInv
<1>1. UNCHANGED <<lastTimestamp, generator, sequence, waiting, ids, issued>>
  BY DEF Tick, SetBack
<1>2. clock' \in [Hosts -> Nat]
  <2>1. CASE Tick(h)
    BY <1>0, <2>1 DEF Tick, SnowflakeTypeOK
  <2>2. CASE SetBack(h)
    BY <1>0, <2>2 DEF SetBack, SnowflakeTypeOK
  <2> QED
    BY <2>1, <2>2
<1>3. SnowflakeTypeOK'
  BY <1>0, <1>1, <1>2 DEF SnowflakeTypeOK
<1>4. IdsBelowLast' /\ IdsPacked' /\ UniqueIds'
  BY <1>0, <1>1 DEF IdsBelowLast, IdsPacked, UniqueIds, LastNumber
<1> QED
  BY <1>3, <1>4 DEF SnowflakeInv

LEMMA SnowflakeInit == Init => SnowflakeInv
<1> SUFFICES ASSUME Init PROVE SnowflakeInv
  OBVIOUS
<1>1. SnowflakeTypeOK
  <2>1. clock \in [Hosts -> Nat]
    BY SnowflakeAssumption DEF Init
  <2>2. /\ lastTimestamp \in [Hosts -> Nat \cup {-1}]
        /\ sequence \in [Hosts -> 0 .. SequenceMask] /\ generator \in [Hosts -> Generators]
    BY SnowflakeAssumption DEF Init
  <2>3. waiting \in [Hosts -> BOOLEAN] /\ issued \in [Hosts -> Nat]
    BY DEF Init
  <2>4. ids \in [Hosts -> SUBSET Int] /\ \A h \in Hosts : IsFiniteSet(ids[h])
    BY FS_EmptySet DEF Init
  <2> QED
    BY <2>1, <2>2, <2>3, <2>4 DEF SnowflakeTypeOK
<1>2. IdsBelowLast /\ IdsPacked /\ UniqueIds
  BY FS_EmptySet DEF Init, IdsBelowLast, IdsPacked, UniqueIds
<1> QED
  BY <1>1, <1>2 DEF SnowflakeInv

(* What the clocks and the generators do never makes an id twice: the      *)
(* inductive invariant of nextId.                                          *)
THEOREM SnowflakeInvariant == Spec => []SnowflakeInv
<1>1. SnowflakeInv /\ [Next]_vars => SnowflakeInv'
  <2> SUFFICES ASSUME SnowflakeInv, [Next]_vars PROVE SnowflakeInv'
    OBVIOUS
  <2>1. CASE UNCHANGED vars
    BY <2>1 DEF vars, SnowflakeInv, SnowflakeTypeOK, IdsBelowLast, IdsPacked, UniqueIds,
                LastNumber
  <2>2. ASSUME NEW h \in Hosts, Step(h) PROVE SnowflakeInv'
    BY <2>2, LaterStep, SameMillisecondStep, RestartStep, ClockStep DEF Step
  <2> QED
    BY <2>1, <2>2 DEF Next
<1> QED
  BY <1>1, SnowflakeInit, PTL DEF Spec

(* Primary keys are unique on every host, and among hosts BeanConfiguration *)
(* has given different numbers, for any number of hosts, any field widths, *)
(* any restarts, and clocks that are set back at any time.                 *)
THEOREM IdsAreUnique == Spec => []UniqueIds
<1>1. SnowflakeInv => UniqueIds
  BY DEF SnowflakeInv
<1> QED
  BY <1>1, SnowflakeInvariant, PTL

=============================================================================
