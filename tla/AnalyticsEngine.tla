---------------------------- MODULE AnalyticsEngine ----------------------------
(***************************************************************************)
(* The analytics engine: what one request's dates are worth on a given     *)
(* day.  Days are integers, day 0 being the day every request is raised;   *)
(* a date that is not recorded is NoDate.  Money is in the smallest unit   *)
(* and the deposit times the yearly rate over 365 is a charge per day, so  *)
(* that the rounding to cents is left out.                                 *)
(***************************************************************************)
EXTENDS Integers

CONSTANTS NoDate,        \* Python's None in a date or day column
          GraceDays,     \* etd_grace_days
          DailyCharge    \* deposit_amount * cost_of_fund_rate / 365

ASSUME EngineAssumption ==
  /\ NoDate \notin Int
  /\ GraceDays \in Nat
  /\ DailyCharge \in Nat

Date == Nat \cup {NoDate}

GraceEtd(row) == IF row.etd = NoDate THEN NoDate ELSE row.etd + GraceDays

(* The defaulter rule: paid, not shipped, the graced date passed.          *)
Overdue(row, today) ==
  IF row.etd = NoDate THEN NoDate
  ELSE IF row.paid # NoDate /\ row.ship = NoDate /\ today > row.etd + GraceDays
       THEN today - (row.etd + GraceDays)
       ELSE 0

(* Days from the original date to the shipment, or to today; signed.       *)
Late(row, today) ==
  IF row.etd = NoDate THEN NoDate
  ELSE (IF row.ship = NoDate THEN today ELSE row.ship) - row.etd

Applicable(row) == row.paid # NoDate /\ row.etd # NoDate

(* The charge runs from the original date; anchored at the graced one it   *)
(* would leave the grace days free.                                        *)
ChargeFromGrace(row, today) ==
  IF Applicable(row) /\ today > row.etd + GraceDays
  THEN DailyCharge * (Late(row, today) - GraceDays) ELSE 0

Charge(row, today) ==
  IF Applicable(row) /\ today > row.etd + GraceDays
  THEN DailyCharge * Late(row, today) ELSE 0

DefaultStatus(overdue) ==
  CASE overdue = NoDate -> "pending"
    [] overdue # NoDate /\ overdue = 0 -> "on_time"
    [] overdue # NoDate /\ overdue \in 1..30 -> "delayed"
    [] OTHER -> "critical"

(* compute(): the row of analytics_snapshots.                              *)
Compute(row, today) ==
  [grace_etd |-> GraceEtd(row),
   overdue |-> Overdue(row, today),
   payment_to_ship |-> IF row.paid = NoDate \/ row.ship = NoDate THEN NoDate
                       ELSE row.ship - row.paid,
   payment_to_request |-> row.paid,
   actual_overdue |-> Late(row, today),
   cof_applicable |-> Applicable(row),
   cof |-> Charge(row, today),
   default_status |-> DefaultStatus(Overdue(row, today))]

================================================================================
