---------------------------- MODULE ZipfGenerator ----------------------------
(***************************************************************************)
(* ZipfGenerator, the bean productZipf: every order draws its products     *)
(* from one shared TreeMap, and /gen/updateZipf/{zipf} replaces the map's  *)
(* contents meanwhile: clear(), then the long computeMap, then putAll.     *)
(* Nothing is synchronized, and two updates may overlap.  computeMap notes *)
(* its first points in a static ArrayList; where two that run at the same  *)
(* time meet at its end, one throws, and if that was the other's last      *)
(* point the list (of Java 8) has a size beyond its array from then on and *)
(* its clear() throws.                                                     *)
(*                                                                         *)
(* Keys and random numbers, doubles between 0 and 1, are counted in steps  *)
(* of 1/Resolution.  The running sum of doubles may end below 1, or above, *)
(* which no random number can tell from 1.                                 *)
(*                                                                         *)
(* TreeMap.putAll of a sorted map looks at the size.  An empty map has its *)
(* size set, its tree built aside, and the root set at the end; into any   *)
(* other map the entries are put one by one.  What two threads that write  *)
(* to the tree at the same time make of it is anybody's guess: the tree is *)
(* torn, a lookup may find any entry or none, a put may throw or loop for  *)
(* ever.  A root that is set while nobody else is inside a put makes it    *)
(* whole again.                                                            *)
(***************************************************************************)
EXTENDS Integers, FiniteSetsExt

CONSTANTS
  Updaters,      \* servlet threads that serve /gen/updateZipf
  Size,          \* R, the number of ranks: product-max
  Coefficients,  \* the values of zipf asked for
  Weight,        \* coefficient -> rank -> 1 / rank^coefficient, up to a factor
  Resolution,    \* abstraction: steps between 0 and 1
  LastSum,       \* coefficient -> where the running sum ends, at most 1
  MaxUpdates     \* bound: updates in all

ASSUME ZipfAssumption ==
  /\ Size \in Nat \ {0} /\ Resolution \in Nat \ {0} /\ MaxUpdates \in Nat
  /\ LastSum \in [Coefficients -> 0 .. Resolution]
  /\ \A F \in Coefficients : \A i \in 1 .. Size : Weight[F][i] \in Nat \ {0}

VARIABLES
  map,      \* the entries a lookup reaches: key -> rank - 1 (none noted if torn)
  torn,     \* whether two threads have written to the tree at the same time
  sized,    \* TreeMap.size # 0
  stuck,    \* arr, the list of points, cannot be cleared any more
  pc,       \* updater -> the step of update it is at
  skew,     \* updater -> the coefficient it installs
  rest,     \* updater -> keys putAll still has to put
  updates,  \* updates begun
  value,    \* the last random number
  drawn,    \* what next() returned for it (1 to begin with)
  last,     \* history: the coefficient of the update begun last
  overlap   \* history: updates have overlapped since the map was last quiet

treeVars   == <<map, torn, sized>>
updateVars == <<stuck, pc, skew, rest, updates, last, overlap>>
drawVars   == <<value, drawn>>
vars == <<treeVars, updateVars, drawVars>>

NullPointer == -1
Empty == [k \in {} |-> 0]
Entries(m) == {<<k, m[k]>> : k \in DOMAIN m}

Running(u) == pc[u] # "idle"
Quiet == \A u \in Updaters : ~Running(u)

(* the running sum of the frequencies *)
Sum(F) == LET s[i \in 0 .. Size] == IF i = 0 THEN 0 ELSE s[i - 1] + Weight[F][i] IN s

(* the sum of the probabilities p of the ranks up to i *)
Key(F, i) == IF i = Size THEN LastSum[F] ELSE (Sum(F)[i] * Resolution) \div Sum(F)[Size]

(* seeded fault: the loop of computeMap leaves out the last rank *)
computeMap_Short(F) ==
  [k \in {Key(F, i) : i \in 1 .. Size - 1} |-> Max({i \in 1 .. Size : Key(F, i) = k}) - 1]

(* seeded fault: ranks, and not ranks - 1, are put *)
computeMap_FromOne(F) ==
  [k \in {Key(F, i) : i \in 1 .. Size} |-> Max({i \in 1 .. Size : Key(F, i) = k})]

(* a later put of the same key replaces the value *)
computeMap(F) ==
  [k \in {Key(F, i) : i \in 1 .. Size} |-> Max({i \in 1 .. Size : Key(F, i) = k}) - 1]

(* the ranks less one an entry may have *)
Values == UNION {{computeMap(F)[k] : k \in DOMAIN computeMap(F)} : F \in Coefficients}

Init ==
  /\ last \in Coefficients
  /\ map = computeMap(last) /\ sized = TRUE /\ torn = FALSE
  /\ pc = [u \in Updaters |-> "idle"]
  /\ skew = [u \in Updaters |-> last]
  /\ rest = [u \in Updaters |-> {}]
  /\ updates = 0 /\ value = 0 /\ drawn = 1
  /\ overlap = FALSE /\ stuck = FALSE

OthersInside(u) == \E v \in Updaters \ {u} : pc[v] = "inside"

(* ceilingEntry(v): the least key that is not below v *)
Ceiling(v) == {k \in DOMAIN map : k >= v}

(* seeded fault: the value of the entry is taken for the rank *)
Draw_NoPlusOne ==
  /\ ~torn /\ \A u \in Updaters : pc[u] # "inside"
  /\ value' \in 0 .. Resolution - 1
  /\ drawn' = IF Ceiling(value') = {} THEN NullPointer ELSE map[Min(Ceiling(value'))]
  /\ UNCHANGED <<treeVars, updateVars>>

(* next, on a tree that nobody is writing to *)
Draw ==
  /\ ~torn /\ \A u \in Updaters : pc[u] # "inside"
  /\ value' \in 0 .. Resolution - 1
  /\ drawn' = IF Ceiling(value') = {} THEN NullPointer ELSE map[Min(Ceiling(value'))] + 1
  /\ UNCHANGED <<treeVars, updateVars>>

(* next, in the middle of a put or on a torn tree, where it may also loop  *)
(* for ever                                                                *)
DrawAnything ==
  /\ torn \/ \E u \in Updaters : pc[u] = "inside"
  /\ value' \in 0 .. Resolution - 1
  /\ drawn' \in {v + 1 : v \in Values} \cup {NullPointer}
  /\ UNCHANGED <<treeVars, updateVars>>

(* seeded fault: the new entries are put over the old ones *)
Clear_Keep(u) ==
  /\ ~Running(u) /\ updates < MaxUpdates
  /\ updates' = updates + 1
  /\ last' \in Coefficients /\ skew' = [skew EXCEPT ![u] = last']
  /\ overlap' = ~Quiet
  /\ pc' = [pc EXCEPT ![u] = "compute"]
  /\ UNCHANGED <<treeVars, stuck, rest, drawVars>>

(* update: clear() sets the size ... *)
Clear(u) ==
  /\ ~Running(u) /\ updates < MaxUpdates
  /\ updates' = updates + 1
  /\ last' \in Coefficients /\ skew' = [skew EXCEPT ![u] = last']
  /\ overlap' = ~Quiet
  /\ sized' = FALSE
  /\ pc' = [pc EXCEPT ![u] = "clear"]
  /\ UNCHANGED <<map, torn, stuck, rest, drawVars>>

(* ... and the root; a put another thread is inside may set it again *)
ClearRoot(u) ==
  /\ pc[u] = "clear"
  /\ map' = Empty /\ torn' = OthersInside(u)
  /\ pc' = [pc EXCEPT ![u] = "compute"]
  /\ UNCHANGED <<sized, stuck, skew, rest, updates, last, overlap, drawVars>>

(* computeMap begins with arr.clear() *)
ClearPoints(u) ==
  /\ pc[u] = "compute"
  /\ pc' = [pc EXCEPT ![u] = IF stuck THEN "idle" ELSE "putAll"]
  /\ UNCHANGED <<treeVars, stuck, skew, rest, updates, last, overlap, drawVars>>

(* arr.add behind the end of the array another add has just filled: the    *)
(* update ends here, with the map it has cleared                           *)
AddThrows(u) ==
  /\ pc[u] = "putAll" /\ \E v \in Updaters \ {u} : pc[v] = "putAll"
  /\ pc' = [pc EXCEPT ![u] = "idle"]
  /\ stuck' \in {stuck, TRUE}
  /\ UNCHANGED <<treeVars, skew, rest, updates, last, overlap, drawVars>>

(* computeMap is through *)
PutAll(u) ==
  /\ pc[u] = "putAll"
  /\ sized' = TRUE
  /\ IF sized
     THEN /\ pc'   = [pc EXCEPT ![u] = "put"]
          /\ rest' = [rest EXCEPT ![u] = DOMAIN computeMap(skew[u])]
     ELSE /\ pc'   = [pc EXCEPT ![u] = "build"]
          /\ UNCHANGED rest
  /\ UNCHANGED <<map, torn, stuck, skew, updates, last, overlap, drawVars>>

(* buildFromSorted: the root, whatever the map holds by now *)
Build(u) ==
  /\ pc[u] = "build"
  /\ torn' = OthersInside(u)
  /\ map' = IF torn' THEN Empty ELSE computeMap(skew[u])
  /\ pc' = [pc EXCEPT ![u] = "idle"]
  /\ UNCHANGED <<sized, stuck, skew, rest, updates, last, overlap, drawVars>>

(* put of the next entry begins *)
BeginPut(u) ==
  /\ pc[u] = "put"
  /\ torn' = (torn \/ OthersInside(u))
  /\ map' = IF torn' THEN Empty ELSE map
  /\ pc' = [pc EXCEPT ![u] = "inside"]
  /\ UNCHANGED <<sized, stuck, skew, rest, updates, last, overlap, drawVars>>

(* the next round of the loop of putAll, or its end *)
PutDone(u) ==
  /\ rest' = [rest EXCEPT ![u] = @ \ {Min(@)}]
  /\ pc' = [pc EXCEPT ![u] = IF rest'[u] = {} THEN "idle" ELSE "put"]

(* the entry is in the tree *)
EndPut(u) ==
  LET k == Min(rest[u])
  IN /\ pc[u] = "inside" /\ ~torn
     /\ map' = [j \in DOMAIN map \cup {k} |-> IF j = k THEN computeMap(skew[u])[k] ELSE map[j]]
     /\ sized' = (sized \/ k \notin DOMAIN map)
     /\ PutDone(u)
     /\ UNCHANGED <<torn, stuck, skew, updates, last, overlap, drawVars>>

(* put on a torn tree returns or throws, if it ends *)
EndPutTorn(u) ==
  /\ pc[u] = "inside" /\ torn
  /\ sized' \in {sized, TRUE}
  /\ \/ PutDone(u)
     \/ rest' = [rest EXCEPT ![u] = {}] /\ pc' = [pc EXCEPT ![u] = "idle"]
  /\ UNCHANGED <<map, torn, stuck, skew, updates, last, overlap, drawVars>>

Go(u) == \/ ClearRoot(u) \/ ClearPoints(u) \/ AddThrows(u) \/ PutAll(u)
         \/ Build(u) \/ BeginPut(u) \/ EndPut(u) \/ EndPutTorn(u)
Next == Draw \/ DrawAnything \/ \E u \in Updaters : Clear(u) \/ Go(u)
Spec == Init /\ [][Next]_vars

-----------------------------------------------------------------------------
(* Every variable has its type: the values of the map are ranks less one,  *)
(* whichever updates have filled it.                                       *)
TypeOK ==
  /\ DOMAIN map \subseteq 0 .. Resolution
  /\ \A k \in DOMAIN map : map[k] \in 0 .. Size - 1
  /\ {torn, sized, stuck, overlap} \subseteq BOOLEAN
  /\ pc \in [Updaters -> {"idle", "clear", "compute", "putAll", "build", "put", "inside"}]
  /\ skew \in [Updaters -> Coefficients] /\ last \in Coefficients
  /\ rest \in [Updaters -> SUBSET (0 .. Resolution)]
  /\ updates \in 0 .. MaxUpdates
  /\ value \in 0 .. Resolution

(* Orders ask for products that exist: next() returns a rank, never 0 and  *)
(* none above product-max, or throws, also on a map that two overlapping   *)
(* updates have mixed or torn.                                             *)
RanksExist == drawn \in 1 .. Size \cup {NullPointer}

(* next() finds no entry, and the order fails with a NullPointerException, *)
(* only while an update is under way, for a random number above the last   *)
(* sum of a distribution, or on what overlapping updates have left: a tree *)
(* two of them tore, or a list of points that is stuck, where the next     *)
(* update clears the map and never fills it again.  Updates that overlap   *)
(* in any other way leave a map with all keys of a distribution.           *)
FailsOnlyDuringUpdate ==
  [][drawn' = NullPointer =>
       \/ drawn = NullPointer \/ ~Quiet \/ stuck \/ torn
       \/ \E F \in Coefficients : value' > LastSum[F]]_vars

(* An update that meets no other leaves its distribution and nothing else, *)
(* whatever overlapping ones have made of the map before, a torn tree      *)
(* included; only the list of points may stop it.  Overlapping updates may *)
(* mix entries of theirs, but leave all keys of one, or a torn tree.       *)
WholeWhenQuiet ==
  Quiet /\ ~stuck =>
    /\ ~overlap => ~torn /\ map = computeMap(last)
    /\ ~torn =>
         /\ \E F \in Coefficients : DOMAIN computeMap(F) \subseteq DOMAIN map
         /\ \A entry \in Entries(map) :
              \E F \in Coefficients : entry \in Entries(computeMap(F))
=============================================================================
