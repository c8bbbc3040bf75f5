---------------------------- MODULE RunningBalance ----------------------------
(***************************************************************************)
(* What the extraction makes of the rows that the vision model read from a *)
(* bank statement.  Amounts are in cents.  A row says by how much, in      *)
(* which column, and, on statements that print it, the balance after it:   *)
(* the walk along the balances puts an amount into the other column or     *)
(* fills in a missing one where the balance proves it.                     *)
(***************************************************************************)
EXTENDS Integers, Sequences

CONSTANT NoAmount      \* None in an amount column

ASSUME NoAmountAssumption == NoAmount \notin Int

Amount == Nat \cup {NoAmount}

TxnRow == [debit : Amount, credit : Amount, balance : Int \cup {NoAmount}]

Tolerance == 1

(* "x or Decimal(0)", and what a row adds to the account.                  *)
OrZero(amount) == IF amount = NoAmount THEN 0 ELSE amount
Net(row) == OrZero(row.credit) - OrZero(row.debit)

Apart(a, b) == a - b > Tolerance \/ b - a > Tolerance

Swapped(row) == [row EXCEPT !.debit = row.credit, !.credit = row.debit]

Recovered(row, delta) ==
  IF delta > 0 THEN [row EXCEPT !.credit = delta] ELSE [row EXCEPT !.debit = -delta]

Blank(row) == row.debit = NoAmount /\ row.credit = NoAmount
HasAmount(row) == OrZero(row.debit) # 0 \/ OrZero(row.credit) # 0

(* One turn of reconcile_directions: prev is the balance before the row.   *)
Corrected(prev, row) ==
  IF prev = NoAmount \/ row.balance = NoAmount THEN row
  ELSE LET delta == row.balance - prev
       IN IF ~Apart(delta, Net(row)) THEN row
          ELSE IF ~Apart(delta, -Net(row)) /\ HasAmount(row) THEN Swapped(row)
          ELSE IF Blank(row) THEN Recovered(row, delta)
          ELSE row

(* Without the balance of the row itself the walk goes on with the amount. *)
Carried(prev, row) ==
  IF row.balance # NoAmount THEN row.balance
  ELSE IF prev # NoAmount THEN prev + Net(row) ELSE NoAmount

(* The walk: the balance before row i + 1.  Starting every row from the     *)
(* opening balance would prove the wrong side.                             *)
FromOpening(beginning, rows) == [i \in 0..Len(rows) |-> beginning]

Walk(beginning, rows) ==
  LET prev[i \in 0..Len(rows)] ==
        IF i = 0 THEN beginning ELSE Carried(prev[i - 1], Corrected(prev[i - 1], rows[i]))
  IN prev

Reconciled(beginning, rows) ==
  LET prev == Walk(beginning, rows)
  IN [i \in DOMAIN rows |-> Corrected(prev[i - 1], rows[i])]

LastBalance(rows) ==
  LET printed == {i \in DOMAIN rows : rows[i].balance # NoAmount}
  IN IF printed = {} THEN NoAmount
     ELSE rows[CHOOSE i \in printed : \A j \in printed : j <= i].balance

(* The balances the header does not give: the first from the first row as  *)
(* it was read, the last from the last balance printed.                    *)
Beginning(header, rows) ==
  IF header.beginning = NoAmount /\ rows # <<>> /\ rows[1].balance # NoAmount
  THEN rows[1].balance - Net(rows[1])
  ELSE header.beginning

Ending(header, rows) ==
  IF header.ending = NoAmount THEN LastBalance(rows) ELSE header.ending

NetOf(rows) ==
  LET sum[i \in 0..Len(rows)] == IF i = 0 THEN 0 ELSE sum[i - 1] + Net(rows[i])
  IN sum[Len(rows)]

(* integrity_note: skipped, passed or a mismatch; one that looked at the   *)
(* shortfall only would pass a row with too much.                          *)
ShortfallNote(beginning, ending, rows) ==
  IF beginning = NoAmount \/ ending = NoAmount THEN "skipped"
  ELSE IF ending - beginning - NetOf(rows) > Tolerance THEN "mismatch" ELSE "passed"
IntegrityNote(beginning, ending, rows) ==
  IF beginning = NoAmount \/ ending = NoAmount THEN "skipped"
  ELSE IF Apart(beginning + NetOf(rows), ending) THEN "mismatch" ELSE "passed"

(* The rows to be stored and the note beside them.                         *)
Verified(header, rows) ==
  LET beginning == Beginning(header, rows)
      fixed == Reconciled(beginning, rows)
  IN [rows |-> fixed, note |-> IntegrityNote(beginning, Ending(header, rows), fixed)]

================================================================================
