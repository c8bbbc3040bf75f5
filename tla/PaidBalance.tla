------------------------------ MODULE PaidBalance ------------------------------
(***************************************************************************)
(* What the Adjust Invoices module promises about money: every paid        *)
(* tranche is an account that opens with its amount, is drawn one          *)
(* adjustment at a time and is never overdrawn.  A rejection that comes    *)
(* after an approval gives its amount back.                                *)
(***************************************************************************)
EXTENDS Naturals

CONSTANTS
  Tranches,     \* tranche ids
  AmountOf      \* the amount of each tranche, in cents

VARIABLE balance   \* what is left to reallocate from each tranche

Draw(t, x) ==
  /\ x \in 1..balance[t]
  /\ balance' = [balance EXCEPT ![t] = @ - x]

GiveBack(t, x) ==
  /\ x \in 1..AmountOf[t]
  /\ balance[t] + x <= AmountOf[t]
  /\ balance' = [balance EXCEPT ![t] = @ + x]

BInit == balance = AmountOf
BNext == \E t \in Tranches : \E x \in 1..AmountOf[t] : Draw(t, x) \/ GiveBack(t, x)
BSpec == BInit /\ [][BNext]_balance

================================================================================
