------------------------------- MODULE Tables -------------------------------
(***************************************************************************)
(* The tables of the program as far as two requests can share a row, the   *)
(* amounts ConfigData and the generators give it, and the arithmetic of    *)
(* AbstractBizService on them.                                             *)
(***************************************************************************)
EXTENDS Accounts, FiniteSets, Functions

CONSTANTS
  Users,             \* ids of user_info
  Products,          \* ids of product
  OriginalPrice,     \* product -> original_price
  Discount,          \* product -> discount in percent
  CashInit, CreditInit, ProductStockMax, BatchSize,   \* ConfigData
  BillAmounts,       \* what createBillSource can draw
  RechargeAmounts    \* what createRechargeSource can draw

(* doRecharge draws users until it has BatchSize different ones: with      *)
(* fewer users the loop would not end.                                     *)
ASSUME TablesAssumption ==
  /\ Users    \subseteq Nat /\ Users    # {} /\ IsFiniteSet(Users)
  /\ Products \subseteq Nat /\ Products # {} /\ IsFiniteSet(Products)
  /\ OriginalPrice \in [Products -> Nat] /\ Discount \in [Products -> Nat]
  /\ CashInit \in Nat /\ CreditInit \in Nat /\ ProductStockMax \in Nat
  /\ BatchSize \in Nat \ {0} /\ BatchSize <= Cardinality(Users)
  /\ BillAmounts \subseteq Nat /\ RechargeAmounts \subseteq Nat

UserRow(u)    == <<"user_info", u>>
CashRow(u)    == <<"account_cash", u>>
CreditRow(u)  == <<"account_credit", u>>
ProductRow(p) == <<"product", p>>

UserRows    == {UserRow(u) : u \in Users}
AccountRows == {CashRow(u) : u \in Users} \cup {CreditRow(u) : u \in Users}
ProductRows == {ProductRow(p) : p \in Products}
Rows        == UserRows \cup AccountRows \cup ProductRows

(* What RunnerConfig.run leaves in the tables. *)
InitialRow(r) == CASE r[1] = "account_cash"   -> CashInit
                   [] r[1] = "account_credit" -> CreditInit
                   [] r[1] = "product"        -> ProductStockMax
                   [] OTHER                   -> 0

(* A product -> number map of a request: the TreeMap of doPackageBill, or  *)
(* the pIds of doReload with number 1.                                     *)
NoProducts    == [p \in Products |-> 0]
InBatch(b)    == {p \in Products : b[p] > 0}
ReloadOf(ids) == [p \in Products |-> IF p \in ids THEN 1 ELSE 0]

(* The carts doPackageBill can fill: 1 to BatchSize picks. *)
Carts == {c \in [Products -> 0 .. BatchSize] :
            c # NoProducts /\ FoldFunction(+, 0, c) <= BatchSize}

(* What findInsufficient can return for a view of the stocks: the          *)
(* BatchSize products with the least stock, ties in any order.             *)
Insufficient(stock) ==
  {ids \in SUBSET Products :
     /\ \/ Cardinality(ids) = BatchSize
        \/ Cardinality(ids) < BatchSize /\ ids = Products
     /\ \A p \in ids, q \in Products \ ids : stock[p] <= stock[q]}

(* The users of a recharge. *)
RechargeSets == {S \in SUBSET Users : Cardinality(S) = BatchSize}

=============================================================================
