------------------------------ MODULE Accounts ------------------------------
(***************************************************************************)
(* The arithmetic of AbstractBizService: how a bill is taken from a cash   *)
(* and a credit account (consume), how a recharge refills them             *)
(* (calculationRecharge), and the price of an order item.  Every value is  *)
(* a long of the code; the amounts the program works with are at most      *)
(* 10^10, far from 2^63, so they are integers here.                        *)
(***************************************************************************)
EXTENDS Integers

(* consume: cash first, then credit; what neither can pay stays as debt. *)
Consume(cash, credit, bill) ==
  LET fromCash   == IF cash >= bill THEN bill ELSE cash
      rest       == bill - fromCash
      fromCredit == IF rest = 0      THEN 0
                    ELSE IF credit >= rest THEN rest ELSE credit
  IN [cashConsume   |-> fromCash,
      creditConsume |-> fromCredit,
      cash          |-> cash - fromCash,
      credit        |-> credit - fromCredit,
      debt          |-> rest - fromCredit]

(* seeded fault: the amount is not cut at the credit maximum *)
CalculationRecharge_Uncut(amount, cash, credit, creditMax) ==
  LET toCredit == IF credit = creditMax THEN 0 ELSE amount
  IN [cashConsume |-> amount - toCredit, creditConsume |-> toCredit,
      cash |-> cash + (amount - toCredit), credit |-> credit + toCredit]

(* calculationRecharge: fill the credit up to its maximum, the remainder   *)
(* of the amount goes to cash.                                             *)
CalculationRecharge(amount, cash, credit, creditMax) ==
  LET toCredit == IF credit = creditMax THEN 0
                  ELSE IF credit + amount > creditMax THEN creditMax - credit
                  ELSE amount
  IN [cashConsume   |-> amount - toCredit,
      creditConsume |-> toCredit,
      cash          |-> cash + (amount - toCredit),
      credit        |-> credit + toCredit]

(* createOrderItems: original price * discount * number, cut to a long.    *)
(* The discount is a BigDecimal, here in percent.                          *)
ItemPrice(original, percent, num) == (original * percent * num) \div 100

=============================================================================
