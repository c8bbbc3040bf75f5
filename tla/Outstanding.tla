------------------------------ MODULE Outstanding ------------------------------
(***************************************************************************)
(* What the screens say is still to be paid of a request: the outstanding  *)
(* tracker, the weekly deposit tracker, the ageing grid by payment date    *)
(* with its download, the pending tab with its extract, the tile of the    *)
(* tranches to be released, the chart of the money raised, the actuals     *)
(* beside the projections, the lists with their counts and cards, and the  *)
(* reports of deposits.  Each draws its own rows from the tranches, by its *)
(* own list of statuses.  How the rows are grouped (weeks, people, bands)  *)
(* and the filters other than status are left out: every row is in one     *)
(* group and those filters narrow all alike.                               *)
(***************************************************************************)
EXTENDS TrancheLifecycle

AmountOf(nums) == FoldFunctionOnSet(+, 0, [n \in Nums |-> tranches[n].amount], nums)

(* The two trackers list their statuses themselves, and keep a file that   *)
(* Accounts rejected; the grid and the chart leave all four out.           *)
TrackerExcludes == {"cancelled_by_merchandiser", "cancelled_by_accounts", "rejected_by_hom"}
DashboardExcludes == TrackerExcludes \cup {"rejected_by_accounts"}

(* The mutant counts what is not paid instead of what is unpaid.           *)
NotPaidRows == IF deleted THEN {} ELSE Rows(tranches) \ Paid(tranches)
TrackerRows == IF deleted \/ status \in TrackerExcludes THEN {} ELSE Unpaid(tranches)

WeeklyRows == IF deleted \/ status \in TrackerExcludes THEN {} ELSE Unpaid(tranches)

AgeingPaymentRows ==
  IF deleted \/ status \in DashboardExcludes THEN {} ELSE Unpaid(tranches)

(* The request in the pending queue, and "Amount Payable" of the extract.  *)
InPendingQueue == ~deleted /\ status = "pending_payment"
AmountPayable == IF InPendingQueue THEN AmountOf(Unpaid(tranches)) ELSE 0

Raised == IF deleted \/ status \in DashboardExcludes THEN 0 ELSE deposit

(* The download asks the service that draws the screen.                    *)
AgeingSheet == AmountOf(AgeingPaymentRows)

(* "Yet to be Released": the first tranche is released when it is raised.  *)
PendingRelease ==
  IF InPendingQueue THEN {n \in Unpaid(tranches) : n > 1 /\ ~tranches[n].released} ELSE {}

(* What a vertical asked for beside what it projected: in the month's      *)
(* table, and in the trend, whose average suggests the next figure, here   *)
(* of the one month of the request.                                        *)
ProjectionExcludes == {"cancelled_by_merchandiser", "cancelled_by_accounts",
                       "rejected_by_hom", "rejected_by_accounts"}
Actuals == IF deleted \/ status \in ProjectionExcludes THEN 0 ELSE deposit
ProjectionDashboard(projected) == [projected |-> projected, actual |-> Actuals]
Trend(projected) ==
  [proposed |-> projected, actual |-> Actuals, variance |-> projected - Actuals,
   suggested |-> Actuals]

(* The list, and the count above it, under a filter of statuses; no filter *)
(* lists everything that is not deleted.  The queue of the head of         *)
(* merchandisers is the list under one status.                             *)
Filtered(statuses) == statuses = {} \/ status \in statuses
Listed(statuses) == ~deleted /\ Filtered(statuses)
CountFor(statuses) == IF ~deleted /\ Filtered(statuses) THEN 1 ELSE 0
InHomQueue == Listed({"pending_hom_approval"})

(* The cards above the payment queue.                                      *)
QueueKpis ==
  [pending_payment |-> {"pending_payment"},
   awaiting_hom    |-> {"pending_hom_approval"},
   on_hold         |-> {"hold_by_merchandiser", "hold_by_accounts"},
   processed       |-> {"payment_processed"},
   rejected        |-> {"rejected_by_accounts", "rejected_by_hom"},
   cancelled       |-> {"cancelled_by_merchandiser", "cancelled_by_accounts"}]
Cards == {card \in DOMAIN QueueKpis : ~deleted /\ status \in QueueKpis[card]}

(* The deposits of the supplier report and of the bank ledger: whatever    *)
(* the status.                                                             *)
SupplierReport == IF deleted THEN {} ELSE {<<deposit, status>>}
BankLedger == IF deleted THEN {} ELSE {deposit}

--------------------------------------------------------------------------------
(* The deposit is the sum of the live tranches, within the invoice total.  *)
Ledger == deposit = LiveSum(tranches) /\ deposit <= total

(* What the chart says was raised is what the grid and its download still  *)
(* expect and what was paid, and what the projections call actual in both  *)
(* of their tables; the trackers differ from the grid on a file that       *)
(* Accounts rejected only; the queue asks for what the trackers show, each *)
(* tranche of it released or on the tile of those to be released; a file   *)
(* on a list has a card, unless it was reopened; and a file in a queue    *)
(* is on the reports with the deposit that the chart counts.               *)
ScreensAddUp ==
  /\ ~deleted /\ status \notin DashboardExcludes =>
       Raised = AgeingSheet + AmountOf(Paid(tranches))
  /\ LET projected == Raised + 1
     IN  /\ ProjectionDashboard(projected).actual = Raised
         /\ LET row == Trend(projected) IN row.variance = 1 /\ row.suggested = Raised
  /\ TrackerRows = WeeklyRows
  /\ status # "rejected_by_accounts" => TrackerRows = AgeingPaymentRows
  /\ InPendingQueue =>
       /\ AmountPayable = AmountOf(TrackerRows)
       /\ \A n \in TrackerRows : tranches[n].released \/ n \in PendingRelease
  /\ status # "reopened" => CountFor({}) = CountFor(UNION {QueueKpis[c] : c \in Cards})
  /\ InPendingQueue \/ InHomQueue =>
       Raised \in BankLedger /\ <<Raised, status>> \in SupplierReport

(* Paying a cancelled tranche brings its amount back without a re-sync,    *)
(* and the form writes the amounts as given.                               *)
RevivesCancelled ==
  \E n \in Paid(tranches)' : tranches[n].status = "cancelled"
FormWritten == tranches' = tranches /\ <<deposit, total>>' # <<deposit, total>>

(* Books that balance stay balanced through every handler, of tranches as  *)
(* well as of statuses, but for the two known ways around it.              *)
Books == Ledger /\ ScreensAddUp
BooksStay ==
  [][Books /\ ~RevivesCancelled /\ ~FormWritten => Books']_vars

================================================================================
