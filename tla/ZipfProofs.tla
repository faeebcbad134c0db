----------------------------- MODULE ZipfProofs -----------------------------
(***************************************************************************)
(* Orders draw products that exist, and find one unless an update is under *)
(* way, the sum of the frequencies falls short or overlapping updates have *)
(* left a broken map or list, for any number of updaters, ranks, updates   *)
(* and coefficients.                                                       *)
(***************************************************************************)
EXTENDS ZipfGenerator, WellFoundedInduction, TLAPS

(* every entry is one of a distribution asked for *)
IsEntry(k, v) ==
  \E F \in Coefficients : k \in DOMAIN computeMap(F) /\ v = computeMap(F)[k]
EntriesOK == \A k \in DOMAIN map : IsEntry(k, map[k])

(* keys an update in putAll still has to put *)
PutsOK ==
  \A u \in Updaters :
    IF pc[u] \in {"put", "inside"}
    THEN rest[u] # {} /\ rest[u] \subseteq DOMAIN computeMap(skew[u])
    ELSE rest[u] = {}

(* the keys of a distribution are all there, or an update will put them *)
Covers(F, keys) == DOMAIN computeMap(F) \subseteq keys
Restores(u) ==
  \/ pc[u] \in {"clear", "compute", "putAll", "build"}
  \/ pc[u] \in {"put", "inside"} /\ Covers(skew[u], DOMAIN map \cup rest[u])
Refilled ==
  \/ stuck \/ torn
  \/ \E F \in Coefficients : Covers(F, DOMAIN map)
  \/ \E u \in Updaters : Restores(u)

(* an update that has met no other finds the map as it has cleared it *)
ByItself(u) ==
  /\ \A v \in Updaters \ {u} : ~Running(v)
  /\ skew[u] = last /\ pc[u] \notin {"put", "inside"}
  /\ pc[u] \in {"clear", "compute", "putAll"} => ~sized
  /\ pc[u] \in {"compute", "putAll", "build"} => ~torn
Alone ==
  ~overlap =>
    /\ \A u \in Updaters : Running(u) => ByItself(u)
    /\ Quiet /\ ~stuck => ~torn /\ map = computeMap(last)

(* TypeOK without what EntriesOK says of the map *)
StepsOK ==
  /\ torn \in BOOLEAN /\ sized \in BOOLEAN /\ stuck \in BOOLEAN /\ overlap \in BOOLEAN
  /\ pc \in [Updaters -> {"idle", "clear", "compute", "putAll", "build", "put", "inside"}]
  /\ skew \in [Updaters -> Coefficients] /\ last \in Coefficients
  /\ rest \in [Updaters -> SUBSET (0 .. Resolution)]
  /\ updates \in 0 .. MaxUpdates
  /\ value \in 0 .. Resolution

ZipfInv == StepsOK /\ EntriesOK /\ PutsOK /\ Refilled /\ Alone /\ RanksExist

-----------------------------------------------------------------------------
(* Least and greatest keys. *)

LEMMA LeastExists ==
  ASSUME NEW S \in SUBSET Nat, S # {}
  PROVE  \E m \in S : \A k \in S : m <= k
<1> DEFINE R == {ss \in Nat \X Nat : ss[1] < ss[2]}
<1>1. IsWellFoundedOn(R, Nat)
  BY NatLessThanWellFounded, Zenon DEF OpToRel
<1>2. PICK m \in S : \A k \in S : <<k, m>> \notin R
  <2> HIDE DEF R
  <2> QED BY <1>1, WFMin
<1>3. \A k \in S : ~(k < m)
  BY <1>2
<1> QED
  BY <1>3

LEMMA MinIsLeast ==
  ASSUME NEW S \in SUBSET Nat, S # {}
  PROVE  Min(S) \in S /\ \A k \in S : Min(S) <= k
BY LeastExists DEF Min

LEMMA MaxIsGreatest ==
  ASSUME NEW n \in Nat, NEW S \in SUBSET (0 .. n), S # {}
  PROVE  Max(S) \in S /\ \A k \in S : Max(S) >= k
<1> DEFINE T == {n - k : k \in S}
<1>1. T \in SUBSET Nat /\ T # {}
  <2>1. PICK k \in S : TRUE
    OBVIOUS
  <2>2. n - k \in T
    BY <2>1
  <2> QED
    BY <2>2
<1>2. PICK m \in T : \A k \in T : m <= k
  <2> HIDE DEF T
  <2> QED BY <1>1, LeastExists
<1>3. PICK i \in S : m = n - i
  BY <1>2
<1>4. \A k \in S : i >= k
  BY <1>2, <1>3
<1> QED
  BY <1>4 DEF Max

LEMMA NaturalsInduced ==
  ASSUME NEW T, 0 \in T, \A n \in Nat : n \in T => n + 1 \in T
  PROVE  Nat \subseteq T
<1> SUFFICES ASSUME Nat \ T # {} PROVE FALSE
  OBVIOUS
<1>1. PICK m \in Nat \ T : \A k \in Nat \ T : m <= k
  BY LeastExists
<1>2. m - 1 \in Nat /\ ~(m <= m - 1)
  BY <1>1
<1>3. m - 1 \in T
  BY <1>1, <1>2
<1> QED
  BY <1>1, <1>2, <1>3

-----------------------------------------------------------------------------
(* The running sums, and the keys. *)

IsSum(s, F) == s = [i \in 0 .. Size |-> IF i = 0 THEN 0 ELSE s[i - 1] + Weight[F][i]]

LEMMA SumIsChosen ==
  ASSUME NEW F
  PROVE  Sum(F) = CHOOSE s : IsSum(s, F)
BY DEF Sum, IsSum

(* a function that is the running sum up to n, for every n *)
SumsUpTo(s, F, n) ==
  \A i \in 0 .. n : s[i] = IF i = 0 THEN 0 ELSE s[i - 1] + Weight[F][i]

LEMMA SumExists ==
  ASSUME NEW F
  PROVE  IsSum(Sum(F), F)
<1> DEFINE T == {n \in Nat : \E s : SumsUpTo(s, F, n)}
<1>1. 0 \in T
  <2> DEFINE s == [i \in {0} |-> 0]
  <2>1. SumsUpTo(s, F, 0)
    BY DEF SumsUpTo
  <2> QED BY <2>1
<1>2. ASSUME NEW n \in Nat, n \in T PROVE n + 1 \in T
  <2>1. PICK s : SumsUpTo(s, F, n)
    BY <1>2
  <2> DEFINE h == [i \in 0 .. n + 1 |-> IF i = n + 1 THEN s[n] + Weight[F][n + 1] ELSE s[i]]
  <2>2. ASSUME NEW i \in 0 .. n + 1
        PROVE  h[i] = IF i = 0 THEN 0 ELSE h[i - 1] + Weight[F][i]
    <3>1. CASE i = n + 1
      <4>1. h[i] = s[n] + Weight[F][n + 1] /\ h[i - 1] = s[n] /\ i # 0
        BY <3>1
      <4> QED BY <3>1, <4>1
    <3>2. CASE i # n + 1 /\ i # 0
      <4>1. i \in 0 .. n /\ i - 1 \in 0 .. n + 1 /\ i - 1 # n + 1
        BY <3>2
      <4>2. h[i] = s[i] /\ h[i - 1] = s[i - 1]
        BY <3>2, <4>1
      <4>3. s[i] = s[i - 1] + Weight[F][i]
        BY <2>1, <3>2, <4>1 DEF SumsUpTo
      <4> QED BY <3>2, <4>2, <4>3
    <3>3. CASE i = 0
      <4>1. h[0] = s[0] /\ s[0] = 0
        BY <2>1 DEF SumsUpTo
      <4> QED BY <3>3, <4>1
    <3> QED
      BY <3>1, <3>2, <3>3
  <2> HIDE DEF h
  <2>3. SumsUpTo(h, F, n + 1)
    BY <2>2 DEF SumsUpTo
  <2> QED
    BY <2>3
<1>3. Size \in T
  <2>1. Nat \subseteq T
    <3> HIDE DEF T
    <3> QED BY <1>1, <1>2, NaturalsInduced
  <2> QED
    BY <2>1, ZipfAssumption
<1>4. PICK s : SumsUpTo(s, F, Size)
  BY <1>3
<1> DEFINE h == [i \in 0 .. Size |-> s[i]]
<1>5. IsSum(h, F)
  <2>1. ASSUME NEW i \in 0 .. Size
        PROVE  h[i] = IF i = 0 THEN 0 ELSE h[i - 1] + Weight[F][i]
    BY <1>4, ZipfAssumption DEF SumsUpTo
  <2>2. h = [i \in 0 .. Size |-> h[i]]
    OBVIOUS
  <2> HIDE DEF h
  <2> QED
    BY <2>1, <2>2 DEF IsSum
<1> HIDE DEF h
<1> QED
  BY <1>5, SumIsChosen

(* Weights are positive, so that the sums grow from 0 to the last one. *)
LEMMA SumsGrow ==
  ASSUME NEW F \in Coefficients
  PROVE  /\ \A i \in 0 .. Size : Sum(F)[i] \in Nat /\ Sum(F)[i] <= Sum(F)[Size]
         /\ Sum(F)[Size] > 0
<1> DEFINE s == Sum(F)
           w == Weight[F]
<1>1. Size \in Nat /\ Size > 0 /\ \A i \in 1 .. Size : w[i] \in Nat /\ w[i] > 0
  BY ZipfAssumption
<1>2. s[0] = 0 /\ \A i \in 1 .. Size : s[i] = s[i - 1] + w[i]
  <2>1. IsSum(s, F)
    BY SumExists
  <2>2. \A i \in 0 .. Size : s[i] = IF i = 0 THEN 0 ELSE s[i - 1] + w[i]
    <3> HIDE DEF s
    <3> QED BY <2>1, <1>1 DEF IsSum
  <2> HIDE DEF s, w
  <2> QED
    BY <1>1, <2>2
<1> HIDE DEF s, w
<1>3. \A i \in 0 .. Size : s[i] \in Nat
  <2> DEFINE T == {n \in Nat : n <= Size => s[n] \in Nat}
  <2>1. 0 \in T
    BY <1>2
  <2>2. ASSUME NEW n \in Nat, n \in T PROVE n + 1 \in T
    <3>1. CASE n + 1 <= Size
      <4>1. s[n] \in Nat /\ n + 1 \in 1 .. Size
        BY <1>1, <2>2, <3>1
      <4>2. s[n + 1] = s[n] + w[n + 1]
        BY <1>2, <4>1
      <4> QED
        BY <1>1, <4>1, <4>2
    <3> QED
      BY <3>1
  <2>3. Nat \subseteq T
    <3> HIDE DEF T
    <3> QED BY <2>1, <2>2, NaturalsInduced
  <2> QED
    BY <1>1, <2>3
<1>4. \A i \in 0 .. Size : s[i] <= s[Size]
  <2> DEFINE T == {n \in Nat : n <= Size => s[Size - n] <= s[Size]}
  <2>1. 0 \in T
    BY <1>1, <1>3
  <2>2. ASSUME NEW n \in Nat, n \in T PROVE n + 1 \in T
    <3>1. CASE n + 1 <= Size
      <4> DEFINE i == Size - n
      <4>1. i \in 1 .. Size /\ i - 1 \in 0 .. Size /\ i \in 0 .. Size /\ s[i] <= s[Size]
            /\ Size - (n + 1) = i - 1 /\ Size \in 0 .. Size
        BY <1>1, <2>2, <3>1
      <4> HIDE DEF i
      <4>2. s[i] = s[i - 1] + w[i] /\ w[i] \in Nat /\ s[i - 1] \in Nat /\ s[Size] \in Nat
        BY <1>1, <1>2, <1>3, <4>1
      <4>3. s[i - 1] <= s[Size]
        BY <4>1, <4>2
      <4> QED
        BY <4>1, <4>3
    <3> QED
      BY <3>1
  <2>3. Nat \subseteq T
    <3> HIDE DEF T
    <3> QED BY <2>1, <2>2, NaturalsInduced
  <2>4. ASSUME NEW i \in 0 .. Size PROVE s[i] <= s[Size]
    <3>1. Size - i \in Nat /\ Size - (Size - i) = i /\ Size - i <= Size
      BY <1>1
    <3>2. Size - i \in T
      BY <2>3, <3>1
    <3> QED
      BY <3>1, <3>2
  <2> QED
    BY <2>4
<1>5. s[Size] > 0
  <2>1. Size \in 1 .. Size /\ Size - 1 \in 0 .. Size
    BY <1>1
  <2>2. s[Size] = s[Size - 1] + w[Size] /\ s[Size - 1] \in Nat
    BY <1>2, <1>3, <2>1
  <2> QED
    BY <1>1, <2>1, <2>2
<1> QED
  BY <1>3, <1>4, <1>5 DEF s

LEMMA Quotient ==
  ASSUME NEW a \in Nat, NEW s \in Nat \ {0}, a <= s, NEW r \in Nat
  PROVE  (a * r) \div s \in 0 .. r
<1> DEFINE q == (a * r) \div s
           m == (a * r) % s
<1>1. /\ a * r \in Nat /\ q \in Int /\ m \in 0 .. s - 1
      /\ a * r = s * q + m
  OBVIOUS
<1>2. a * r <= s * r
  OBVIOUS
<1> HIDE DEF q, m
<1>3. q >= 0
  <2> SUFFICES ASSUME q <= -1 PROVE FALSE
    BY <1>1
  <2>1. s * q <= s * (-1)
    BY <1>1
  <2> QED
    BY <1>1, <2>1
<1>4. q <= r
  <2> SUFFICES ASSUME q >= r + 1 PROVE FALSE
    BY <1>1
  <2>1. s * q >= s * (r + 1) /\ s * (r + 1) = s * r + s
    BY <1>1
  <2> QED
    BY <1>1, <1>2, <2>1
<1> QED
  BY <1>1, <1>3, <1>4 DEF q

(* Keys are between 0 and 1, the last one included. *)
LEMMA KeyRange ==
  ASSUME NEW F \in Coefficients, NEW i \in 1 .. Size
  PROVE  Key(F, i) \in 0 .. Resolution
<1>1. Size \in 0 .. Size /\ Resolution \in Nat /\ LastSum[F] \in 0 .. Resolution
      /\ i \in 0 .. Size
  BY ZipfAssumption
<1>2. CASE i = Size
  BY <1>1, <1>2 DEF Key
<1>3. CASE i # Size
  <2> DEFINE a == Sum(F)[i]
             s == Sum(F)[Size]
  <2>1. a \in Nat /\ a <= s /\ s \in Nat /\ s > 0
    BY <1>1, SumsGrow
  <2>2. Key(F, i) = (a * Resolution) \div s
    BY <1>3 DEF Key
  <2> HIDE DEF a, s
  <2>3. s \in Nat \ {0}
    BY <2>1
  <2> QED
    BY <1>1, <2>1, <2>2, <2>3, Quotient
<1> QED
  BY <1>2, <1>3

(* What putAll puts: keys up to 1, the last sum among them, with ranks     *)
(* less one.                                                               *)
LEMMA MapEntries ==
  ASSUME NEW F \in Coefficients
  PROVE  /\ DOMAIN computeMap(F) \subseteq 0 .. Resolution
         /\ LastSum[F] \in DOMAIN computeMap(F)
         /\ \A k \in DOMAIN computeMap(F) : computeMap(F)[k] \in 0 .. Size - 1
<1>1. Size \in Nat /\ Size \in 1 .. Size
  BY ZipfAssumption
<1>2. DOMAIN computeMap(F) = {Key(F, i) : i \in 1 .. Size}
  BY DEF computeMap
<1>3. ASSUME NEW k \in DOMAIN computeMap(F) PROVE computeMap(F)[k] \in 0 .. Size - 1
  <2> DEFINE S == {i \in 1 .. Size : Key(F, i) = k}
  <2>1. S # {} /\ S \in SUBSET (0 .. Size)
    BY <1>1, <1>2
  <2>2. Max(S) \in S
    <3> HIDE DEF S
    <3> QED BY <1>1, <2>1, MaxIsGreatest
  <2>3. computeMap(F)[k] = Max(S) - 1
    BY <1>2 DEF computeMap
  <2> QED
    BY <1>1, <2>2, <2>3
<1>4. LastSum[F] = Key(F, Size)
  BY DEF Key
<1> QED
  BY <1>1, <1>2, <1>3, <1>4, KeyRange

(* ... so entries are keys and ranks less one as well *)
LEMMA EntryType ==
  ASSUME NEW k, NEW v, IsEntry(k, v)
  PROVE  k \in 0 .. Resolution /\ v \in 0 .. Size - 1
BY MapEntries DEF IsEntry

-----------------------------------------------------------------------------
(* The steps. *)

LEMMA ZipfInit == Init => ZipfInv
<1> SUFFICES ASSUME Init PROVE ZipfInv
  OBVIOUS
<1>1. map = computeMap(last) /\ last \in Coefficients /\ torn = FALSE
  BY DEF Init
<1>s. StepsOK
  <2>1. torn \in BOOLEAN /\ sized \in BOOLEAN /\ stuck \in BOOLEAN /\ overlap \in BOOLEAN
        /\ last \in Coefficients
    BY DEF Init
  <2>2. pc \in [Updaters -> {"idle", "clear", "compute", "putAll", "build", "put", "inside"}]
    BY DEF Init
  <2>3. skew \in [Updaters -> Coefficients] /\ rest \in [Updaters -> SUBSET (0 .. Resolution)]
    BY DEF Init
  <2>4. updates \in 0 .. MaxUpdates /\ value \in 0 .. Resolution
    BY ZipfAssumption DEF Init
  <2> QED
    BY <2>1, <2>2, <2>3, <2>4 DEF StepsOK
<1>p. PutsOK
  BY DEF Init, PutsOK
<1>2. RanksExist
  BY ZipfAssumption DEF Init, RanksExist
<1>3. EntriesOK /\ Refilled
  BY <1>1 DEF EntriesOK, IsEntry, Refilled, Covers
<1>4. Alone
  BY <1>1 DEF Init, Alone, Running
<1> QED
  BY <1>s, <1>p, <1>2, <1>3, <1>4 DEF ZipfInv

(* a draw leaves the map and the updates alone *)
LEMMA DrawKeeps ==
  ASSUME ZipfInv, UNCHANGED <<treeVars, updateVars>>,
         value' \in 0 .. Resolution - 1, drawn' \in 1 .. Size \cup {NullPointer}
  PROVE  ZipfInv'
<1>1. value' \in 0 .. Resolution
  BY ZipfAssumption
<1>2. StepsOK' /\ EntriesOK' /\ PutsOK' /\ Refilled' /\ Alone'
  BY <1>1 DEF ZipfInv, StepsOK, EntriesOK, IsEntry, PutsOK, Refilled, Covers, Restores,
     Alone, ByItself, Running, Quiet, treeVars, updateVars
<1> QED
  BY <1>2 DEF ZipfInv, RanksExist

FoundNone ==
  \/ ~Quiet \/ stuck \/ torn
  \/ \E F \in Coefficients : value' > LastSum[F]

(* next() finds the last key at least, unless an update is under way. *)
LEMMA DrawStep ==
  ASSUME ZipfInv, Draw
  PROVE  ZipfInv' /\ (drawn' = NullPointer => FoundNone)
<1>1. UNCHANGED <<treeVars, updateVars>>
  BY DEF Draw
<1>2. PICK v \in 0 .. Resolution - 1 :
        v = value' /\ drawn' = IF Ceiling(v) = {} THEN NullPointer ELSE map[Min(Ceiling(v))] + 1
  BY DEF Draw
<1>3. Resolution \in Nat /\ Size \in Nat
  BY ZipfAssumption
<1>4. \A k \in DOMAIN map : k \in 0 .. Resolution /\ map[k] \in 0 .. Size - 1
  BY EntryType DEF ZipfInv, EntriesOK
<1>5. drawn' = NullPointer \/ drawn' \in 1 .. Size
  <2>1. CASE Ceiling(v) # {}
    <3>1. Ceiling(v) \in SUBSET Nat
      BY <1>3, <1>4 DEF Ceiling
    <3>2. Min(Ceiling(v)) \in DOMAIN map
      BY <2>1, <3>1, MinIsLeast DEF Ceiling
    <3> QED
      BY <1>2, <1>3, <1>4, <2>1, <3>2
  <2> QED
    BY <1>2, <2>1
<1>6. drawn' = NullPointer => FoundNone
  <2> SUFFICES ASSUME Quiet, ~stuck, ~torn, \A F \in Coefficients : ~(v > LastSum[F])
               PROVE  drawn' # NullPointer
    BY <1>2 DEF FoundNone
  <2>1. PICK F \in Coefficients : Covers(F, DOMAIN map)
    BY DEF ZipfInv, Refilled, Restores, Quiet, Running
  <2>2. LastSum[F] \in Ceiling(v)
    <3>1. LastSum[F] \in DOMAIN map
      BY <2>1, MapEntries DEF Covers
    <3>2. LastSum[F] \in 0 .. Resolution
      BY <1>4, <3>1
    <3> QED
      BY <1>2, <1>3, <3>1, <3>2 DEF Ceiling
  <2>3. Ceiling(v) \in SUBSET Nat
    BY <1>3, <1>4 DEF Ceiling
  <2>4. Min(Ceiling(v)) \in DOMAIN map
    BY <2>2, <2>3, MinIsLeast DEF Ceiling
  <2>5. drawn' = map[Min(Ceiling(v))] + 1
    BY <1>2, <2>2
  <2> QED
    BY <1>3, <1>4, <2>4, <2>5 DEF NullPointer
<1>7. ZipfInv'
  BY <1>1, <1>2, <1>5, DrawKeeps
<1> QED
  BY <1>6, <1>7

(* ... and in the middle of a put or on a torn tree anything *)
LEMMA DrawAnythingStep ==
  ASSUME ZipfInv, DrawAnything
  PROVE  ZipfInv' /\ FoundNone
<1>1. UNCHANGED <<treeVars, updateVars>> /\ value' \in 0 .. Resolution - 1
      /\ drawn' \in {v + 1 : v \in Values} \cup {NullPointer}
  BY DEF DrawAnything
<1>2. \A v \in Values : v + 1 \in 1 .. Size
  BY MapEntries, ZipfAssumption DEF Values
<1>3. drawn' \in 1 .. Size \cup {NullPointer}
  BY <1>1, <1>2
<1>4. torn \/ ~Quiet
  BY DEF DrawAnything, Quiet, Running
<1> QED
  BY <1>1, <1>3, <1>4, DrawKeeps DEF FoundNone

(* update empties the map; this update will fill it *)
LEMMA ClearStep ==
  ASSUME ZipfInv, NEW u \in Updaters, Clear(u)
  PROVE  ZipfInv'
<1>1. /\ pc[u] = "idle" /\ updates < MaxUpdates /\ updates' = updates + 1
      /\ last' \in Coefficients /\ skew' = [skew EXCEPT ![u] = last']
      /\ overlap' = ~Quiet /\ map' = map /\ sized' = FALSE /\ torn' = torn
      /\ pc' = [pc EXCEPT ![u] = "clear"]
      /\ stuck' = stuck /\ rest' = rest /\ drawn' = drawn /\ value' = value
  BY DEF Clear, Running, drawVars
<1>2. StepsOK'
  <2>1. updates' \in 0 .. MaxUpdates /\ skew' \in [Updaters -> Coefficients]
        /\ pc' \in [Updaters -> {"idle", "clear", "compute", "putAll", "build", "put", "inside"}]
        /\ rest' \in [Updaters -> SUBSET (0 .. Resolution)] /\ last' \in Coefficients
        /\ value' \in 0 .. Resolution
    BY <1>1, ZipfAssumption DEF ZipfInv, StepsOK
  <2>2. torn' \in BOOLEAN /\ sized' \in BOOLEAN /\ stuck' \in BOOLEAN
    BY <1>1 DEF ZipfInv, StepsOK
  <2>3. overlap' \in BOOLEAN
    BY <1>1, Zenon
  <2> QED
    BY <2>1, <2>2, <2>3 DEF StepsOK
<1>3. EntriesOK'
  BY <1>1 DEF ZipfInv, EntriesOK, IsEntry
<1>4. PutsOK'
  BY <1>1 DEF ZipfInv, StepsOK, PutsOK
<1>5. Refilled'
  BY <1>1 DEF ZipfInv, StepsOK, Refilled, Restores
<1>6. Alone'
  <2>1. pc'[u] = "clear" /\ skew'[u] = last'
    BY <1>1 DEF ZipfInv, StepsOK
  <2>2. ~overlap' => \A v \in Updaters \ {u} : ~Running(v)'
    BY <1>1 DEF ZipfInv, StepsOK, Quiet, Running
  <2> QED
    BY <1>1, <2>1, <2>2 DEF Alone, ByItself, Quiet, Running
<1>7. RanksExist'
  BY <1>1 DEF ZipfInv, RanksExist
<1> QED
  BY <1>2, <1>3, <1>4, <1>5, <1>6, <1>7 DEF ZipfInv

(* the root is gone, and with it all damage, unless a put is under way *)
LEMMA ClearRootStep ==
  ASSUME ZipfInv, NEW u \in Updaters, ClearRoot(u)
  PROVE  ZipfInv'
<1>1. /\ pc[u] = "clear" /\ map' = Empty /\ torn' = OthersInside(u)
      /\ pc' = [pc EXCEPT ![u] = "compute"]
      /\ UNCHANGED <<sized, stuck, skew, rest, updates, last, overlap, drawn, value>>
  BY DEF ClearRoot, drawVars
<1>2. torn' \in BOOLEAN
  BY <1>1, Zenon DEF OthersInside
<1>3. StepsOK' /\ PutsOK' /\ RanksExist'
  BY <1>1, <1>2 DEF ZipfInv, StepsOK, PutsOK, RanksExist
<1>4. EntriesOK'
  BY <1>1 DEF EntriesOK, Empty
<1>5. Refilled'
  BY <1>1 DEF ZipfInv, StepsOK, Refilled, Restores
<1>6. Alone'
  <2>1. pc'[u] = "compute" /\ \A v \in Updaters \ {u} : pc'[v] = pc[v]
    BY <1>1 DEF ZipfInv, StepsOK
  <2>2. ~overlap => ByItself(u)
    BY <1>1 DEF ZipfInv, Alone, Running
  <2>3. ~overlap => ~OthersInside(u)
    BY <2>2 DEF ByItself, Running, OthersInside
  <2> QED
    BY <1>1, <2>1, <2>2, <2>3 DEF Alone, ByItself, Quiet, Running
<1> QED
  BY <1>3, <1>4, <1>5, <1>6 DEF ZipfInv

(* an update whose list of points is stuck leaves the map empty *)
LEMMA ClearPointsStep ==
  ASSUME ZipfInv, NEW u \in Updaters, ClearPoints(u)
  PROVE  ZipfInv'
<1>1. /\ pc[u] = "compute" /\ pc' = [pc EXCEPT ![u] = IF stuck THEN "idle" ELSE "putAll"]
      /\ UNCHANGED <<map, torn, sized, stuck, skew, rest, updates, drawn, value, last, overlap>>
  BY DEF ClearPoints, treeVars, drawVars
<1>2. StepsOK' /\ EntriesOK' /\ PutsOK' /\ RanksExist'
  BY <1>1 DEF ZipfInv, StepsOK, EntriesOK, IsEntry, PutsOK, RanksExist
<1>3. Refilled'
  BY <1>1 DEF ZipfInv, StepsOK, Refilled, Restores
<1>4. Alone'
  <2>1. pc'[u] = IF stuck THEN "idle" ELSE "putAll"
    BY <1>1 DEF ZipfInv, StepsOK
  <2>2. \A v \in Updaters \ {u} : pc'[v] = pc[v]
    BY <1>1 DEF ZipfInv, StepsOK
  <2> QED
    BY <1>1, <2>1, <2>2 DEF ZipfInv, Alone, ByItself, Quiet, Running
<1> QED
  BY <1>2, <1>3, <1>4 DEF ZipfInv

(* another update, which is there to throw this one off, goes on *)
LEMMA AddThrowsStep ==
  ASSUME ZipfInv, NEW u \in Updaters, AddThrows(u)
  PROVE  ZipfInv'
<1>1. PICK v \in Updaters \ {u} : pc[v] = "putAll"
  BY DEF AddThrows
<1>2. /\ pc[u] = "putAll" /\ pc' = [pc EXCEPT ![u] = "idle"] /\ stuck' \in {stuck, TRUE}
      /\ UNCHANGED <<map, torn, sized, skew, rest, updates, drawn, value, last, overlap>>
  BY DEF AddThrows, treeVars, drawVars
<1>3. StepsOK' /\ EntriesOK' /\ PutsOK' /\ RanksExist'
  BY <1>2 DEF ZipfInv, StepsOK, EntriesOK, IsEntry, PutsOK, RanksExist
<1>4. Refilled'
  BY <1>1, <1>2 DEF ZipfInv, StepsOK, Refilled, Restores
<1>5. Alone'
  BY <1>1, <1>2 DEF ZipfInv, Alone, ByItself, Running
<1> QED
  BY <1>3, <1>4, <1>5 DEF ZipfInv

LEMMA PutAllStep ==
  ASSUME ZipfInv, NEW u \in Updaters, PutAll(u)
  PROVE  ZipfInv'
<1> DEFINE keys == DOMAIN computeMap(skew[u])
<1>1. /\ pc[u] = "putAll" /\ sized' = TRUE
      /\ \/ sized /\ pc' = [pc EXCEPT ![u] = "put"] /\ rest' = [rest EXCEPT ![u] = keys]
         \/ ~sized /\ pc' = [pc EXCEPT ![u] = "build"] /\ rest' = rest
      /\ UNCHANGED <<map, torn, stuck, skew, updates, drawn, value, last, overlap>>
  BY DEF PutAll, drawVars
<1>2. keys # {} /\ keys \subseteq 0 .. Resolution
  BY MapEntries DEF ZipfInv, StepsOK
<1> HIDE DEF keys
<1>3. StepsOK' /\ EntriesOK' /\ RanksExist'
  BY <1>1, <1>2 DEF ZipfInv, StepsOK, EntriesOK, IsEntry, RanksExist
<1>4. PutsOK'
  <2> SUFFICES ASSUME NEW v \in Updaters
               PROVE  IF pc'[v] \in {"put", "inside"}
                      THEN rest'[v] # {} /\ rest'[v] \subseteq DOMAIN computeMap(skew[v])
                      ELSE rest'[v] = {}
    BY <1>1 DEF PutsOK
  <2>1. CASE v = u
    BY <1>1, <1>2, <2>1 DEF ZipfInv, StepsOK, PutsOK, keys
  <2>2. CASE v # u
    BY <1>1, <2>2 DEF ZipfInv, StepsOK, PutsOK
  <2> QED
    BY <2>1, <2>2
<1>5. Refilled'
  <2>1. (pc'[u] = "put" /\ rest'[u] = keys) \/ pc'[u] = "build"
    BY <1>1 DEF ZipfInv, StepsOK
  <2>2. keys \subseteq DOMAIN map' \cup keys /\ skew' = skew
    BY <1>1
  <2>3. Restores(u)'
    BY <2>1, <2>2 DEF Restores, Covers, keys
  <2> QED
    BY <2>3 DEF Refilled
<1>6. Alone'
  <2>1. \A v \in Updaters \ {u} : pc'[v] = pc[v]
    BY <1>1 DEF ZipfInv, StepsOK
  <2>2. ~overlap => ByItself(u) /\ ~sized
    BY <1>1 DEF ZipfInv, Alone, ByItself, Running
  <2>3. ~overlap => pc'[u] = "build"
    BY <1>1, <2>2 DEF ZipfInv, StepsOK
  <2> QED
    BY <1>1, <2>1, <2>2, <2>3 DEF Alone, ByItself, Quiet, Running
<1> QED
  BY <1>3, <1>4, <1>5, <1>6 DEF ZipfInv

(* the new tree is a whole distribution, whatever it replaces *)
LEMMA BuildStep ==
  ASSUME ZipfInv, NEW u \in Updaters, Build(u)
  PROVE  ZipfInv'
<1>1. /\ pc[u] = "build" /\ torn' = OthersInside(u) /\ pc' = [pc EXCEPT ![u] = "idle"]
      /\ map' = IF torn' THEN Empty ELSE computeMap(skew[u])
      /\ UNCHANGED <<sized, stuck, skew, rest, updates, drawn, value, last, overlap>>
  BY DEF Build, drawVars
<1>2. skew[u] \in Coefficients
  BY DEF ZipfInv, StepsOK
<1>t. torn' \in BOOLEAN
  BY <1>1, Zenon DEF OthersInside
<1>3. StepsOK' /\ PutsOK' /\ RanksExist'
  BY <1>1, <1>t DEF ZipfInv, StepsOK, PutsOK, RanksExist
<1>4. EntriesOK'
  BY <1>1, <1>2 DEF EntriesOK, IsEntry, Empty
<1>5. Refilled'
  BY <1>1, <1>2 DEF Refilled, Covers
<1>6. Alone'
  <2>1. \A v \in Updaters \ {u} : pc'[v] = pc[v]
    BY <1>1 DEF ZipfInv, StepsOK
  <2>2. ~overlap => ByItself(u)
    BY <1>1 DEF ZipfInv, Alone, Running
  <2>3. pc'[u] = "idle"
    BY <1>1 DEF ZipfInv, StepsOK
  <2>4. ~overlap => ~torn'
    BY <1>1, <2>2 DEF ByItself, Running, OthersInside
  <2> QED
    BY <1>1, <2>1, <2>2, <2>3, <2>4 DEF Alone, ByItself, Running
<1> QED
  BY <1>3, <1>4, <1>5, <1>6 DEF ZipfInv

(* a put begins: two at once tear the tree *)
LEMMA BeginPutStep ==
  ASSUME ZipfInv, NEW u \in Updaters, BeginPut(u)
  PROVE  ZipfInv'
<1>1. /\ pc[u] = "put" /\ torn' = (torn \/ OthersInside(u))
      /\ map' = IF torn' THEN Empty ELSE map
      /\ pc' = [pc EXCEPT ![u] = "inside"]
      /\ UNCHANGED <<sized, stuck, skew, rest, updates, drawn, value, last, overlap>>
  BY DEF BeginPut, drawVars
<1>2. torn' \in BOOLEAN
  BY <1>1, Zenon DEF OthersInside
<1>3. StepsOK' /\ PutsOK' /\ RanksExist'
  BY <1>1, <1>2 DEF ZipfInv, StepsOK, PutsOK, RanksExist
<1>4. EntriesOK'
  BY <1>1 DEF ZipfInv, EntriesOK, IsEntry, Empty
<1>5. Refilled'
  <2> SUFFICES ASSUME ~torn' PROVE Refilled'
    BY DEF Refilled
  <2>1. map' = map /\ ~torn
    BY <1>1
  <2>2. \A v \in Updaters : Restores(v) => Restores(v)'
    BY <1>1, <2>1 DEF ZipfInv, StepsOK, Restores, Covers
  <2> QED
    BY <1>1, <2>1, <2>2 DEF ZipfInv, Refilled, Covers
<1>6. Alone'
  BY <1>1 DEF ZipfInv, Alone, ByItself, Running
<1> QED
  BY <1>3, <1>4, <1>5, <1>6 DEF ZipfInv

(* what PutDone makes of the keys left and of the next step *)
LEMMA PutDoneStep ==
  ASSUME ZipfInv, NEW u \in Updaters, pc[u] = "inside", PutDone(u)
  PROVE  /\ Min(rest[u]) \in rest[u]
         /\ rest' = [rest EXCEPT ![u] = rest[u] \ {Min(rest[u])}]
         /\ pc' = [pc EXCEPT ![u] = IF rest[u] \ {Min(rest[u])} = {} THEN "idle" ELSE "put"]
<1> DEFINE k == Min(rest[u])
<1>1. /\ rest[u] # {} /\ rest[u] \in SUBSET (0 .. Resolution)
      /\ rest \in [Updaters -> SUBSET (0 .. Resolution)]
  BY DEF ZipfInv, PutsOK, StepsOK
<1>2. rest[u] \in SUBSET Nat
  BY <1>1, ZipfAssumption
<1>3. k \in rest[u]
  BY <1>1, <1>2, MinIsLeast
<1>4. rest' = [rest EXCEPT ![u] = rest[u] \ {k}]
  BY DEF PutDone
<1>5. rest'[u] = rest[u] \ {k}
  BY <1>1, <1>4
<1>6. pc' = [pc EXCEPT ![u] = IF rest'[u] = {} THEN "idle" ELSE "put"]
  BY DEF PutDone
<1> QED
  BY <1>3, <1>4, <1>5, <1>6

LEMMA EndPutStep ==
  ASSUME ZipfInv, NEW u \in Updaters, EndPut(u)
  PROVE  ZipfInv'
<1> DEFINE k == Min(rest[u])
           v == computeMap(skew[u])[k]
<1>1. /\ pc[u] = "inside" /\ ~torn
      /\ map' = [j \in DOMAIN map \cup {k} |-> IF j = k THEN v ELSE map[j]]
      /\ sized' = (sized \/ k \notin DOMAIN map) /\ PutDone(u)
      /\ UNCHANGED <<torn, stuck, skew, updates, drawn, value, last, overlap>>
  BY DEF EndPut, drawVars
<1>2. rest[u] # {} /\ rest[u] \subseteq DOMAIN computeMap(skew[u]) /\ skew[u] \in Coefficients
  BY <1>1 DEF ZipfInv, PutsOK, StepsOK
<1>3. /\ k \in rest[u] /\ rest' = [rest EXCEPT ![u] = rest[u] \ {k}]
      /\ pc' = [pc EXCEPT ![u] = IF rest[u] \ {k} = {} THEN "idle" ELSE "put"]
  BY <1>1, PutDoneStep
<1>4. IsEntry(k, v)
  BY <1>2, <1>3 DEF IsEntry
<1>s. sized' \in BOOLEAN
  BY <1>1, Zenon
<1> HIDE DEF k, v
<1>5. DOMAIN map' = DOMAIN map \cup {k}
  BY <1>1
<1>6. StepsOK' /\ RanksExist'
  BY <1>1, <1>3, <1>s DEF ZipfInv, StepsOK, RanksExist
<1>7. EntriesOK'
  <2> SUFFICES ASSUME NEW j \in DOMAIN map' PROVE IsEntry(j, map'[j])
    BY DEF EntriesOK, IsEntry
  <2>1. CASE j = k
    BY <1>1, <1>4, <1>5, <2>1
  <2>2. CASE j # k
    <3>1. j \in DOMAIN map /\ map'[j] = map[j]
      BY <1>1, <1>5, <2>2
    <3> QED
      BY <3>1 DEF ZipfInv, EntriesOK
  <2> QED
    BY <2>1, <2>2
<1>8. PutsOK'
  BY <1>1, <1>2, <1>3 DEF ZipfInv, StepsOK, PutsOK
<1>9. Refilled'
  <2>1. CASE stuck
    BY <1>1, <2>1 DEF Refilled
  <2>2. ASSUME NEW F \in Coefficients, Covers(F, DOMAIN map) PROVE Refilled'
    BY <1>5, <2>2 DEF Refilled, Covers
  <2>3. ASSUME NEW w \in Updaters, Restores(w) PROVE Refilled'
    <3>1. CASE w # u
      <4>1. pc'[w] = pc[w] /\ rest'[w] = rest[w] /\ skew' = skew
        BY <1>1, <1>3, <3>1 DEF ZipfInv, StepsOK
      <4>2. Restores(w)'
        BY <1>5, <2>3, <4>1 DEF Restores, Covers
      <4> QED
        BY <4>2 DEF Refilled
    <3>2. CASE w = u
      <4>1. Covers(skew[u], DOMAIN map \cup rest[u])
        BY <1>1, <2>3, <3>2 DEF Restores
      <4>2. rest'[u] = rest[u] \ {k} /\ skew' = skew
            /\ pc'[u] = (IF rest[u] \ {k} = {} THEN "idle" ELSE "put")
        BY <1>1, <1>3 DEF ZipfInv, StepsOK
      <4>3. Covers(skew[u], DOMAIN map' \cup rest'[u])
        BY <1>5, <4>1, <4>2 DEF Covers
      <4>4. CASE rest[u] \ {k} = {}
        <5>1. Covers(skew[u], DOMAIN map')
          BY <4>2, <4>3, <4>4 DEF Covers
        <5> QED
          BY <1>2, <5>1 DEF Refilled, Covers
      <4>5. CASE rest[u] \ {k} # {}
        <5>1. Restores(u)'
          BY <4>2, <4>3, <4>5 DEF Restores, Covers
        <5> QED
          BY <5>1 DEF Refilled
      <4> QED
        BY <4>4, <4>5
    <3> QED
      BY <3>1, <3>2
  <2> QED
    BY <1>1, <2>1, <2>2, <2>3 DEF ZipfInv, Refilled
<1>10. Alone'
  BY <1>1 DEF ZipfInv, Alone, ByItself, Running
<1> QED
  BY <1>6, <1>7, <1>8, <1>9, <1>10 DEF ZipfInv

(* a put on a torn tree leaves it torn *)
LEMMA EndPutTornStep ==
  ASSUME ZipfInv, NEW u \in Updaters, EndPutTorn(u)
  PROVE  ZipfInv'
<1>1. /\ pc[u] = "inside" /\ torn /\ sized' \in {sized, TRUE}
      /\ UNCHANGED <<map, torn, stuck, skew, updates, drawn, value, last, overlap>>
  BY DEF EndPutTorn, drawVars
<1>2. PICK keys \in SUBSET rest[u] :
        /\ rest' = [rest EXCEPT ![u] = keys]
        /\ pc' = [pc EXCEPT ![u] = IF keys = {} THEN "idle" ELSE "put"]
  <2>1. CASE PutDone(u)
    <3>1. rest[u] \ {Min(rest[u])} \in SUBSET rest[u]
      OBVIOUS
    <3> QED
      BY <1>1, <2>1, <3>1, PutDoneStep
  <2>2. CASE rest' = [rest EXCEPT ![u] = {}] /\ pc' = [pc EXCEPT ![u] = "idle"]
    BY <2>2
  <2> QED
    BY <2>1, <2>2 DEF EndPutTorn
<1>3. StepsOK' /\ EntriesOK' /\ RanksExist'
  BY <1>1, <1>2 DEF ZipfInv, StepsOK, EntriesOK, IsEntry, RanksExist
<1>4. PutsOK'
  BY <1>1, <1>2 DEF ZipfInv, StepsOK, PutsOK
<1>5. Refilled'
  BY <1>1 DEF Refilled
<1>6. Alone'
  BY <1>1 DEF ZipfInv, Alone, ByItself, Running
<1> QED
  BY <1>3, <1>4, <1>5, <1>6 DEF ZipfInv

LEMMA GoStep ==
  ASSUME ZipfInv, NEW u \in Updaters, Go(u)
  PROVE  ZipfInv' /\ drawn' = drawn
<1>1. CASE ClearRoot(u)   BY <1>1, ClearRootStep DEF ClearRoot, drawVars
<1>2. CASE ClearPoints(u) BY <1>2, ClearPointsStep DEF ClearPoints, drawVars
<1>3. CASE AddThrows(u)   BY <1>3, AddThrowsStep DEF AddThrows, drawVars
<1>4. CASE PutAll(u)      BY <1>4, PutAllStep DEF PutAll, drawVars
<1>5. CASE Build(u)       BY <1>5, BuildStep DEF Build, drawVars
<1>6. CASE BeginPut(u)    BY <1>6, BeginPutStep DEF BeginPut, drawVars
<1>7. CASE EndPut(u)      BY <1>7, EndPutStep DEF EndPut, drawVars
<1>8. CASE EndPutTorn(u)  BY <1>8, EndPutTornStep DEF EndPutTorn, drawVars
<1> QED
  BY <1>1, <1>2, <1>3, <1>4, <1>5, <1>6, <1>7, <1>8 DEF Go

(* Every step keeps the invariant, and nothing but a draw fails. *)
LEMMA ZipfNext ==
  ASSUME ZipfInv, [Next]_vars
  PROVE  ZipfInv' /\ (drawn' = NullPointer => drawn = NullPointer \/ FoundNone)
<1>1. CASE Draw
  BY <1>1, DrawStep
<1>2. CASE DrawAnything
  BY <1>2, DrawAnythingStep
<1>3. ASSUME NEW u \in Updaters, Clear(u) PROVE ZipfInv' /\ drawn' = drawn
  BY <1>3, ClearStep DEF Clear, drawVars
<1>4. ASSUME NEW u \in Updaters, Go(u) PROVE ZipfInv' /\ drawn' = drawn
  BY <1>4, GoStep
<1>5. CASE UNCHANGED vars
  BY <1>5 DEF ZipfInv, StepsOK, EntriesOK, IsEntry, PutsOK, Refilled, Covers, Restores,
     Alone, ByItself, Running, Quiet, RanksExist, vars, treeVars, updateVars, drawVars
<1> QED
  BY <1>1, <1>2, <1>3, <1>4, <1>5 DEF Next

LEMMA ZipfInvariant == Spec => []ZipfInv
BY ZipfInit, ZipfNext, PTL DEF Spec

(* Type correctness: whichever updates have filled the map, its keys are   *)
(* between 0 and 1 and its values ranks less one.                          *)
THEOREM ZipfTypeCorrect == Spec => []TypeOK
<1>1. ZipfInv => TypeOK
  BY EntryType DEF ZipfInv, StepsOK, EntriesOK, TypeOK
<1> QED
  BY ZipfInvariant, <1>1, PTL

(* Orders ask for products that exist, or fail, whatever updates mix or    *)
(* tear.                                                                   *)
THEOREM RanksAlwaysExist == Spec => []RanksExist
<1>1. ZipfInv => RanksExist
  BY DEF ZipfInv
<1> QED
  BY ZipfInvariant, <1>1, PTL

(* An update that ran alone leaves exactly its distribution, whatever was  *)
(* there before; overlapping ones leave all keys of one distribution and   *)
(* entries of none but those asked for, or a torn tree.                    *)
THEOREM MapIsWhole == Spec => []WholeWhenQuiet
<1>1. ZipfInv => WholeWhenQuiet
  <2> SUFFICES ASSUME ZipfInv, Quiet, ~stuck
               PROVE  /\ ~overlap => ~torn /\ map = computeMap(last)
                      /\ ~torn =>
                           /\ \E F \in Coefficients : DOMAIN computeMap(F) \subseteq DOMAIN map
                           /\ \A entry \in Entries(map) :
                                \E F \in Coefficients : entry \in Entries(computeMap(F))
    BY DEF WholeWhenQuiet
  <2>1. ~torn => \E F \in Coefficients : DOMAIN computeMap(F) \subseteq DOMAIN map
    BY DEF ZipfInv, Refilled, Restores, Covers, Quiet, Running
  <2>2. \A entry \in Entries(map) : \E F \in Coefficients : entry \in Entries(computeMap(F))
    BY DEF ZipfInv, EntriesOK, IsEntry, Entries
  <2> QED
    BY <2>1, <2>2 DEF ZipfInv, Alone
<1> QED
  BY ZipfInvariant, <1>1, PTL

(* A draw fails only while an update is under way, above the last sum of a *)
(* distribution, on a torn tree, or after the list of points got stuck:    *)
(* however many updates overlap.                                           *)
THEOREM DrawsFailOnlyDuringUpdates == Spec => FailsOnlyDuringUpdate
<1>1. ZipfInv /\ [Next]_vars =>
        [drawn' = NullPointer =>
           \/ drawn = NullPointer \/ ~Quiet \/ stuck \/ torn
           \/ \E F \in Coefficients : value' > LastSum[F]]_vars
  BY ZipfNext DEF FoundNone
<1> QED
  BY ZipfInvariant, <1>1, PTL DEF Spec, FailsOnlyDuringUpdate
=============================================================================
