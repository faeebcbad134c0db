--------------------------- MODULE AccountsProofs ---------------------------
(***************************************************************************)
(* What consume and calculationRecharge guarantee for every amount.        *)
(***************************************************************************)
EXTENDS Accounts, Functions, FiniteSetTheorems, WellFoundedInduction, TLAPS

(* consume neither makes nor loses money: the accounts shrink by what the  *)
(* trade records, and bill = cash + credit + debt of the trade.            *)
THEOREM ConsumeConserves ==
  ASSUME NEW cash \in Int, NEW credit \in Int, NEW bill \in Int
  PROVE  LET result == Consume(cash, credit, bill)
         IN /\ result.cash \in Int /\ result.credit \in Int
            /\ result.cashConsume \in Int /\ result.creditConsume \in Int
            /\ result.debt \in Int
            /\ result.cash + result.credit + result.cashConsume + result.creditConsume
                 = cash + credit
            /\ result.cashConsume + result.creditConsume + result.debt = bill
BY DEF Consume

(* consume overdraws no account, charges a bill at most once, and leaves a *)
(* debt only when both accounts are empty.                                 *)
THEOREM ConsumeLimits ==
  ASSUME NEW cash \in Nat, NEW credit \in Nat, NEW bill \in Nat
  PROVE  LET result == Consume(cash, credit, bill)
         IN /\ result.cash \in 0 .. cash /\ result.credit \in 0 .. credit
            /\ result.debt \in 0 .. bill
            /\ result.debt > 0 => result.cash = 0 /\ result.credit = 0
            /\ result.credit < credit => result.cash = 0
BY DEF Consume

(* calculationRecharge books the whole amount, once.  It holds for a       *)
(* credit above its maximum too (the state GeneratorController leaves).    *)
THEOREM RechargeConserves ==
  ASSUME NEW amount \in Int, NEW cash \in Int, NEW credit \in Int, NEW creditMax \in Int
  PROVE  LET result == CalculationRecharge(amount, cash, credit, creditMax)
         IN /\ result.cash \in Int /\ result.credit \in Int
            /\ result.cashConsume \in Int /\ result.creditConsume \in Int
            /\ result.cash + result.credit = cash + credit + amount
            /\ result.cashConsume + result.creditConsume = amount
BY DEF CalculationRecharge

(* A recharge repays the credit before it adds to the cash, and never      *)
(* lifts the credit above its maximum.                                     *)
THEOREM RechargeLimits ==
  ASSUME NEW amount \in Nat, NEW cash \in Nat, NEW creditMax \in Nat,
         NEW credit \in 0 .. creditMax
  PROVE  LET result == CalculationRecharge(amount, cash, credit, creditMax)
         IN /\ result.credit \in credit .. creditMax
            /\ result.cash >= cash
            /\ result.cash > cash => result.credit = creditMax
BY DEF CalculationRecharge

-----------------------------------------------------------------------------
(* Sums over finite sets, by induction: what a fold computes.              *)

(* the element a fold takes next *)
Picked(s) == CHOOSE x \in s : TRUE

(* what holds of the empty set, and of a set when it holds without its     *)
(* next element, holds of a finite set *)
LEMMA SetInduction ==
  ASSUME NEW S, IsFiniteSet(S), NEW T, {} \in T,
         \A s \in SUBSET S : s # {} /\ s \ {Picked(s)} \in T => s \in T
  PROVE  S \in T
<1> DEFINE F == FiniteSubsetsOf(S)
           R == StrictSubsetOrdering(S)
           Bad == {s \in F : s \notin T}
<1>1. IsWellFoundedOn(R, F)
  BY FS_StrictSubsetOrderingWellFounded
<1>2. SUFFICES ASSUME Bad # {} PROVE FALSE
  BY DEF FiniteSubsetsOf
<1>3. PICK s \in Bad : \A u \in Bad : <<u, s>> \notin R
  <2>1. Bad \subseteq F
    OBVIOUS
  <2> HIDE DEF R, F, Bad
  <2>2. \E s \in Bad : \A u \in Bad : ~(<<u, s>> \in R)
    BY <1>1, <1>2, <2>1, WFMin
  <2> QED
    BY <2>2
<1>4. s # {} /\ Picked(s) \in s
  BY DEF Picked
<1>5. s \ {Picked(s)} \in F /\ <<s \ {Picked(s)}, s>> \in R
  BY <1>4, FS_Subset DEF FiniteSubsetsOf, StrictSubsetOrdering
<1>6. s \ {Picked(s)} \in T
  BY <1>3, <1>5
<1> QED
  BY <1>4, <1>6 DEF FiniteSubsetsOf

(* the recursive function inside of a fold *)
IsFold(iter, f, S) ==
  iter = [s \in SUBSET S |-> IF s = {} THEN 0 ELSE f[Picked(s)] + iter[s \ {Picked(s)}]]

LEMMA FoldIsIter ==
  ASSUME NEW f, NEW S
  PROVE  SumFunctionOnSet(f, S) = (CHOOSE iter : IsFold(iter, f, S))[S]
BY DEF SumFunctionOnSet, FoldFunctionOnSet, MapThenFoldSet, IsFold, Picked

LEMMA NaturalsInduced ==
  ASSUME NEW T, 0 \in T, \A n \in Nat : n \in T => n + 1 \in T
  PROVE  Nat \subseteq T
<1> DEFINE R == {ss \in Nat \X Nat : ss[1] < ss[2]}
           Bad == Nat \ T
<1>1. IsWellFoundedOn(R, Nat)
  BY NatLessThanWellFounded, Zenon DEF OpToRel
<1>2. SUFFICES ASSUME Bad # {} PROVE FALSE
  OBVIOUS
<1>3. PICK m \in Bad : \A k \in Bad : <<k, m>> \notin R
  <2> HIDE DEF R
  <2> QED BY <1>1, <1>2, WFMin
<1>4. m \in Nat /\ m # 0 /\ m - 1 \in Nat /\ m - 1 < m
  BY <1>3
<1>5. <<m - 1, m>> \in R
  BY <1>4
<1>6. m - 1 \in T
  BY <1>3, <1>4, <1>5
<1> QED
  BY <1>3, <1>4, <1>6

(* one turn of the fold, with what iter knows of smaller sets *)
Turn(iter, f, s) == IF s = {} THEN 0 ELSE f[Picked(s)] + iter[s \ {Picked(s)}]

LEMMA FoldExists ==
  ASSUME NEW f, NEW S, IsFiniteSet(S)
  PROVE  \E iter : IsFold(iter, f, S)
<1> DEFINE UpTo(n) == {s \in SUBSET S : Cardinality(s) <= n}
           T == {n \in Nat : \E g : \A s \in UpTo(n) : g[s] = Turn(g, f, s)}
<1>1. \A s \in SUBSET S :
        /\ IsFiniteSet(s) /\ Cardinality(s) \in Nat
        /\ Cardinality(s) = 0 => s = {}
        /\ s # {} => /\ s \ {Picked(s)} \in SUBSET S
                     /\ Cardinality(s \ {Picked(s)}) = Cardinality(s) - 1
  <2>1. SUFFICES ASSUME NEW s \in SUBSET S
                 PROVE  /\ IsFiniteSet(s) /\ Cardinality(s) \in Nat
                        /\ Cardinality(s) = 0 => s = {}
                        /\ s # {} => /\ s \ {Picked(s)} \in SUBSET S
                                     /\ Cardinality(s \ {Picked(s)}) = Cardinality(s) - 1
    OBVIOUS
  <2>2. IsFiniteSet(s) /\ Cardinality(s) \in Nat
    BY FS_Subset, FS_CardinalityType
  <2>3. s # {} => Picked(s) \in s
    BY DEF Picked
  <2> QED
    BY <2>2, <2>3, FS_EmptySet, FS_RemoveElement
<1>2. 0 \in T
  <2>1. ASSUME NEW s \in UpTo(0) PROVE s = {}
    <3>1. s \in SUBSET S /\ Cardinality(s) <= 0
      OBVIOUS
    <3>2. Cardinality(s) \in Nat /\ (Cardinality(s) = 0 => s = {})
      BY <1>1, <3>1
    <3> QED
      BY <3>1, <3>2
  <2> DEFINE g == [s \in {{}} |-> 0]
  <2>2. \A s \in UpTo(0) : g[s] = Turn(g, f, s)
    BY <2>1 DEF Turn
  <2> QED
    BY <2>2
<1>3. ASSUME NEW n \in Nat, n \in T PROVE n + 1 \in T
  <2>1. PICK g : \A s \in UpTo(n) : g[s] = Turn(g, f, s)
    BY <1>3
  <2> DEFINE h == [s \in UpTo(n + 1) |-> Turn(g, f, s)]
  <2>2. ASSUME NEW s \in UpTo(n) PROVE s \in UpTo(n + 1) /\ h[s] = g[s]
    <3>1. s \in SUBSET S /\ Cardinality(s) <= n /\ Cardinality(s) \in Nat
      BY <1>1
    <3>2. s \in UpTo(n + 1)
      BY <3>1
    <3> HIDE DEF UpTo
    <3> QED BY <2>1, <3>2
  <2>3. \A s \in UpTo(n + 1) : s # {} => s \ {Picked(s)} \in UpTo(n)
    BY <1>1
  <2>4. \A s \in UpTo(n + 1) : h[s] = Turn(h, f, s)
    <3> HIDE DEF UpTo
    <3> QED BY <2>2, <2>3 DEF Turn
  <2> HIDE DEF h
  <2> QED
    BY <2>4
<1>4. Cardinality(S) \in T
  <2>1. Nat \subseteq T
    <3> HIDE DEF T
    <3> QED BY <1>2, <1>3, NaturalsInduced
  <2> QED
    BY <1>1, <2>1
<1>5. PICK g : \A s \in UpTo(Cardinality(S)) : g[s] = Turn(g, f, s)
  BY <1>4
<1>6. UpTo(Cardinality(S)) = SUBSET S
  BY <1>1, FS_Subset
<1> DEFINE h == [s \in SUBSET S |-> Turn(g, f, s)]
<1>7. h = [s \in SUBSET S |-> Turn(h, f, s)]
  BY <1>1, <1>5, <1>6 DEF Turn
<1> QED
  BY <1>7 DEF IsFold, Turn

(* a sum over no indices, and over one more *)
LEMMA SumStep ==
  ASSUME NEW f, NEW S, IsFiniteSet(S)
  PROVE  SumFunctionOnSet(f, S) =
           IF S = {} THEN 0 ELSE f[Picked(S)] + SumFunctionOnSet(f, S \ {Picked(S)})
<1> DEFINE I(s) == CHOOSE iter : IsFold(iter, f, s)
<1>1. \A s \in SUBSET S : IsFold(I(s), f, s) /\ SumFunctionOnSet(f, s) = I(s)[s]
  <2>1. SUFFICES ASSUME NEW s \in SUBSET S
                 PROVE  IsFold(I(s), f, s) /\ SumFunctionOnSet(f, s) = I(s)[s]
    OBVIOUS
  <2>2. \E iter : IsFold(iter, f, s)
    BY FS_Subset, FoldExists
  <2> QED
    BY <2>2, FoldIsIter
<1>2. CASE S = {}
  <2>1. IsFold(I(S), f, S) /\ SumFunctionOnSet(f, S) = I(S)[S]
    BY <1>1
  <2> HIDE DEF I
  <2>2. {} \in SUBSET S
    OBVIOUS
  <2>3. I(S)[{}] = 0
    BY <2>1, <2>2 DEF IsFold
  <2> QED
    BY <1>2, <2>1, <2>3
<1>3. CASE S # {}
  <2> DEFINE s == S \ {Picked(S)}
             T == {u \in SUBSET s : I(s)[u] = I(S)[u]}
             c(u) == f[Picked(u)]
  <2>1. Picked(S) \in S /\ IsFiniteSet(s) /\ s \in SUBSET S
    BY <1>3, FS_Subset DEF Picked
  <2>2. /\ IsFold(I(s), f, s) /\ IsFold(I(S), f, S)
        /\ SumFunctionOnSet(f, s) = I(s)[s] /\ SumFunctionOnSet(f, S) = I(S)[S]
    BY <1>1, <2>1
  <2> HIDE DEF I
  <2>3. {} \in T
    <3>1. {} \in SUBSET s /\ {} \in SUBSET S
      OBVIOUS
    <3>2. I(s)[{}] = 0
      BY <2>2, <3>1 DEF IsFold
    <3>3. I(S)[{}] = 0
      BY <2>2, <3>1 DEF IsFold
    <3> QED
      BY <3>1, <3>2, <3>3
  <2>4. ASSUME NEW u \in SUBSET s, u # {}, u \ {Picked(u)} \in T PROVE u \in T
    <3>1. I(s)[u] = c(u) + I(s)[u \ {Picked(u)}]
      BY <2>2, <2>4 DEF IsFold
    <3>2. u \in SUBSET S
      BY <2>1, <2>4
    <3>3. I(S)[u] = c(u) + I(S)[u \ {Picked(u)}]
      BY <2>2, <2>4, <3>2 DEF IsFold
    <3>4. I(s)[u \ {Picked(u)}] = I(S)[u \ {Picked(u)}]
      BY <2>4
    <3> QED
      BY <2>4, <3>1, <3>3, <3>4
  <2>5. s \in T
    <3> HIDE DEF T
    <3> QED BY <2>1, <2>3, <2>4, SetInduction
  <2>6. I(S)[S] = f[Picked(S)] + I(S)[s]
    BY <1>3, <2>2 DEF IsFold
  <2> QED
    BY <1>3, <2>2, <2>5, <2>6
<1> QED
  BY <1>2, <1>3

LEMMA SumEmpty ==
  ASSUME NEW f
  PROVE  SumFunctionOnSet(f, {}) = 0
BY SumStep, FS_EmptySet

(* A sum of integers is one. *)
LEMMA SumType ==
  ASSUME NEW S, IsFiniteSet(S), NEW f, \A x \in S : f[x] \in Int
  PROVE  SumFunctionOnSet(f, S) \in Int
<1> DEFINE T == {s \in SUBSET S : SumFunctionOnSet(f, s) \in Int}
<1>1. {} \in T
  BY SumEmpty
<1>2. ASSUME NEW s \in SUBSET S, s # {}, s \ {Picked(s)} \in T PROVE s \in T
  <2>1. Picked(s) \in s /\ IsFiniteSet(s)
    BY <1>2, FS_Subset DEF Picked
  <2> QED
    BY <1>2, <2>1, SumStep
<1> QED
  <2> HIDE DEF T
  <2>1. S \in T
    BY <1>1, <1>2, SetInduction
  <2> QED
    BY <2>1 DEF T

(* Sums are added point by point. *)
LEMMA SumAdd ==
  ASSUME NEW S, IsFiniteSet(S), NEW f, NEW g, NEW h,
         \A x \in S : f[x] \in Int /\ g[x] \in Int /\ h[x] = f[x] + g[x]
  PROVE  SumFunctionOnSet(h, S) = SumFunctionOnSet(f, S) + SumFunctionOnSet(g, S)
<1> DEFINE T == {s \in SUBSET S :
                   SumFunctionOnSet(h, s) = SumFunctionOnSet(f, s) + SumFunctionOnSet(g, s)}
<1>1. {} \in T
  BY SumEmpty
<1>2. ASSUME NEW s \in SUBSET S, s # {}, s \ {Picked(s)} \in T PROVE s \in T
  <2> DEFINE c == Picked(s)
             r == s \ {c}
  <2>1. c \in s /\ IsFiniteSet(s) /\ IsFiniteSet(r) /\ c \in S /\ r \in SUBSET S
    BY <1>2, FS_Subset DEF Picked
  <2>2. SumFunctionOnSet(f, r) \in Int /\ SumFunctionOnSet(g, r) \in Int
    BY <2>1, SumType
  <2>3. /\ SumFunctionOnSet(f, s) = f[c] + SumFunctionOnSet(f, r)
        /\ SumFunctionOnSet(g, s) = g[c] + SumFunctionOnSet(g, r)
        /\ SumFunctionOnSet(h, s) = h[c] + SumFunctionOnSet(h, r)
    BY <1>2, <2>1, SumStep
  <2>4. SumFunctionOnSet(h, r) = SumFunctionOnSet(f, r) + SumFunctionOnSet(g, r)
    BY <1>2
  <2> HIDE DEF c, r
  <2> QED
    BY <2>1, <2>2, <2>3, <2>4
<1> QED
  <2> HIDE DEF T
  <2>1. S \in T
    BY <1>1, <1>2, SetInduction
  <2> QED
    BY <2>1 DEF T

(* Only what is at the indices counts. *)
LEMMA SumSame ==
  ASSUME NEW S, IsFiniteSet(S), NEW f, NEW g, \A x \in S : f[x] = g[x]
  PROVE  SumFunctionOnSet(f, S) = SumFunctionOnSet(g, S)
<1> DEFINE T == {s \in SUBSET S : SumFunctionOnSet(f, s) = SumFunctionOnSet(g, s)}
<1>1. {} \in T
  BY SumEmpty
<1>2. ASSUME NEW s \in SUBSET S, s # {}, s \ {Picked(s)} \in T PROVE s \in T
  <2>1. Picked(s) \in s /\ IsFiniteSet(s)
    BY <1>2, FS_Subset DEF Picked
  <2> QED
    BY <1>2, <2>1, SumStep
<1> QED
  <2> HIDE DEF T
  <2>1. S \in T
    BY <1>1, <1>2, SetInduction
  <2> QED
    BY <2>1 DEF T

LEMMA SumZero ==
  ASSUME NEW S, IsFiniteSet(S), NEW f, \A x \in S : f[x] = 0
  PROVE  SumFunctionOnSet(f, S) = 0
<1> DEFINE T == {s \in SUBSET S : SumFunctionOnSet(f, s) = 0}
<1>1. {} \in T
  BY SumEmpty
<1>2. ASSUME NEW s \in SUBSET S, s # {}, s \ {Picked(s)} \in T PROVE s \in T
  <2>1. Picked(s) \in s /\ IsFiniteSet(s)
    BY <1>2, FS_Subset DEF Picked
  <2>2. SumFunctionOnSet(f, s) = f[Picked(s)] + SumFunctionOnSet(f, s \ {Picked(s)})
    BY <1>2, <2>1, SumStep
  <2>3. f[Picked(s)] = 0 /\ SumFunctionOnSet(f, s \ {Picked(s)}) = 0
    BY <1>2, <2>1
  <2> QED
    BY <2>2, <2>3
<1> QED
  <2> HIDE DEF T
  <2>1. S \in T
    BY <1>1, <1>2, SetInduction
  <2> QED
    BY <2>1 DEF T

(* A change at one index changes the sum by as much. *)
LEMMA SumPoint ==
  ASSUME NEW S, IsFiniteSet(S), NEW f, NEW g, NEW d \in S, NEW n \in Int,
         \A x \in S : f[x] \in Int,
         \A x \in S \ {d} : g[x] = f[x], g[d] = f[d] + n
  PROVE  SumFunctionOnSet(g, S) = SumFunctionOnSet(f, S) + n
<1> DEFINE T == {s \in SUBSET S : SumFunctionOnSet(g, s) =
                                    SumFunctionOnSet(f, s) + IF d \in s THEN n ELSE 0}
<1>1. {} \in T
  BY SumEmpty
<1>2. ASSUME NEW s \in SUBSET S, s # {}, s \ {Picked(s)} \in T PROVE s \in T
  <2> DEFINE c == Picked(s)
             r == s \ {c}
  <2>1. c \in s /\ IsFiniteSet(s) /\ IsFiniteSet(r) /\ c \in S /\ r \in SUBSET S
    BY <1>2, FS_Subset DEF Picked
  <2>2. SumFunctionOnSet(f, r) \in Int /\ SumFunctionOnSet(g, r) \in Int
    <3>1. \A x \in r : f[x] \in Int /\ g[x] \in Int
      BY <2>1
    <3> QED
      BY <2>1, <3>1, SumType
  <2>3. /\ SumFunctionOnSet(f, s) = f[c] + SumFunctionOnSet(f, r)
        /\ SumFunctionOnSet(g, s) = g[c] + SumFunctionOnSet(g, r)
    BY <1>2, <2>1, SumStep
  <2>4. SumFunctionOnSet(g, r) = SumFunctionOnSet(f, r) + IF d \in r THEN n ELSE 0
    BY <1>2
  <2>5. f[c] \in Int
    BY <2>1
  <2>6. CASE c = d
    <3>1. d \notin r /\ d \in s
      BY <2>1, <2>6
    <3> HIDE DEF c, r
    <3> QED
      BY <2>2, <2>3, <2>4, <2>5, <2>6, <3>1
  <2>7. CASE c # d
    <3>1. d \in r <=> d \in s
      BY <2>7
    <3>2. g[c] = f[c]
      BY <2>1, <2>7
    <3> HIDE DEF c, r
    <3> QED
      BY <2>2, <2>3, <2>4, <2>5, <3>1, <3>2
  <2> QED
    BY <2>6, <2>7
<1> QED
  <2> HIDE DEF T
  <2>1. S \in T
    BY <1>1, <1>2, SetInduction
  <2> QED
    BY <2>1 DEF T

=============================================================================
