---------------------------- MODULE TrancheLifecycle ----------------------------
(***************************************************************************)
(* One deposit request with its payment tranches, its payment_details row  *)
(* and the invoice adjustments that name its tranches.  Every action is a  *)
(* whole API call, run alone: the transaction that the session dependency  *)
(* commits after the handler.  What two interleaved transactions do is     *)
(* the subject of TrancheConcurrency.                                      *)
(***************************************************************************)
EXTENDS StatusTransitions, Naturals, Functions

CONSTANTS
  MaxTranches,      \* bound: tranche numbers are 1..MaxTranches
  Amounts,          \* the amounts a tranche may have, positive
  Totals,           \* the proforma invoice totals a request may carry
  Levels,           \* bound: levels the Accounts details of a tranche may take
  PaymentEdits,     \* bound: payment_details rows an Accounts edit may leave
  AdjustableNums    \* bound: tranche numbers that adjustments may name

Nums == 1..MaxTranches
Level == {"none", "partial", "complete"}

(* payment_details of the request; the row that does not exist and the row *)
(* with no field set are handled alike.  "fields" is "complete" once both  *)
(* payment date and bank are recorded, "partial" when only other Accounts  *)
(* fields are (bank alone, reference, remarks).                            *)
PaymentEdit == [status : {"none", "processed", "other"}, fields : Level,
                shipped : BOOLEAN]
PaymentRow == [status : {"none", "processed", "other"}, fields : Level,
               shipped : BOOLEAN, tt : BOOLEAN]

ASSUME ConstantsOK ==
  /\ MaxTranches \in Nat \ {0}
  /\ Amounts \subseteq Nat \ {0} /\ Totals \subseteq Nat \ {0}
  /\ Levels \subseteq Level
  /\ PaymentEdits \subseteq PaymentEdit
  /\ AdjustableNums \subseteq Nums

VARIABLES
  status,     \* deposit_requests.current_status
  locked,     \* deposit_requests.is_locked
  deleted,    \* deposit_requests.is_deleted
  deposit,    \* deposit_requests.deposit_amount
  total,      \* deposit_requests.total_supplier_invoice_amount
  tranches,   \* payment_tranches by tranche_number; "none" is no row
  payment,    \* payment_details
  adjs        \* side and status of the adjustments that name each tranche

vars == <<status, locked, deleted, deposit, total, tranches, payment, adjs>>

--------------------------------------------------------------------------------
(* Rows and sums.                                                          *)

TrancheStatus == {"none", "unpaid", "paid", "rejected", "cancelled"}
AdjustmentStatus == {"pending_approval", "completed", "rejected"}
Side == {"out", "in"}     \* the tranche is the source or the destination

(* "dropped": rejection_reason / rejected_at / rejected_by are filled in,  *)
(* which both reject_tranche and cancel_tranche do.                        *)
TrancheRow ==
  [status : TrancheStatus, amount : Nat, released : BOOLEAN, tt : BOOLEAN,
   details : Level, dropped : BOOLEAN]

NoRow == [status |-> "none", amount |-> 0, released |-> FALSE, tt |-> FALSE,
          details |-> "none", dropped |-> FALSE]

NewRow(amount, released) ==
  [status |-> "unpaid", amount |-> amount, released |-> released, tt |-> FALSE,
   details |-> "none", dropped |-> FALSE]

(* What reject_tranche and cancel_tranche write.                           *)
DroppedRow(row, st) == [row EXCEPT !.status = st, !.dropped = TRUE]

Rows(t) == {n \in Nums : t[n].status # "none"}
Live(t) == {n \in Nums : t[n].status \in {"unpaid", "paid"}}
Unpaid(t) == {n \in Nums : t[n].status = "unpaid"}
Paid(t) == {n \in Nums : t[n].status = "paid"}

(* sum_amounts_for_request: the live rows only.                            *)
LiveAmounts(t) == [n \in Nums |-> IF n \in Live(t) THEN t[n].amount ELSE 0]
LiveSum(t) == FoldFunction(+, 0, LiveAmounts(t))

(* accounts_touched_reason(request) is not None.                           *)
AccountsTouched ==
  \/ payment.status = "processed"
  \/ payment.fields # "none"
  \/ payment.shipped \/ payment.tt
  \/ \E n \in Nums, side \in Side : <<side, "completed">> \in adjs[n]

(* Accounts recorded something on this tranche.                            *)
TouchedRow(row) == row.tt \/ row.details # "none"

(* _assert_merchandiser_may_modify.                                        *)
MayModify(role, adding) ==
  role \in AuthorGatedRoles =>
    /\ status \in EditableStatuses
    /\ AccountsTouched =>
         adding /\ \E n \in Nums : tranches[n].status = "rejected"

(* The tranche exists and is neither paid nor rejected.                    *)
Open(n) == tranches[n].status \in {"unpaid", "cancelled"}

(* _sync_request_totals, after the tranches became t.                      *)
SyncTotals(t) == deposit' = LiveSum(t)

(* _sync_request_payment_details: the payment date and the processed       *)
(* marker are written; a bank recorded without a date is now complete.     *)
SyncPaymentDetails ==
  \E f \in IF payment.fields = "partial" THEN {"partial", "complete"}
                                         ELSE {payment.fields} :
    payment' = [payment EXCEPT !.status = "processed", !.fields = f]

(* The request moves to payment_processed and locks.                       *)
Complete ==
  /\ status' = "payment_processed"
  /\ locked' = TRUE
  /\ SyncPaymentDetails

--------------------------------------------------------------------------------
(* Creation: DepositRequestService.create and create_public.  A flagged    *)
(* supplier that the author overrides sends the request to the HoM first.  *)
(* Explicit tranches respect the invoice total; the single legacy tranche  *)
(* of a tranche-less submission is not compared with it.                   *)

Init ==
  /\ status \in {"pending_payment", "pending_hom_approval"}
  /\ locked = FALSE /\ deleted = FALSE
  /\ total \in Totals
  /\ \E k \in Nums, a \in [Nums -> Amounts] :
       /\ tranches = [n \in Nums |-> IF n <= k THEN NewRow(a[n], n = 1) ELSE NoRow]
       /\ k > 1 => LiveSum(tranches) <= total
  /\ deposit = LiveSum(tranches)
  /\ payment = [status |-> "none", fields |-> "none", shipped |-> FALSE, tt |-> FALSE]
  /\ adjs = [n \in Nums |-> {}]

--------------------------------------------------------------------------------
(* Tranche handlers of the authors.                                        *)

UpdateTranche(n, amount, role) ==
  LET t == [tranches EXCEPT ![n].amount = amount] IN
  /\ ~deleted /\ role \in AuthorRoles /\ NotLocked(locked, role)
  /\ status \notin TerminalStatuses
  /\ MayModify(role, FALSE)
  /\ Open(n)
  /\ role \in AuthorGatedRoles => ~TouchedRow(tranches[n])
  /\ LiveSum(tranches) + amount <= total + tranches[n].amount
  /\ tranches' = t
  /\ SyncTotals(t)
  /\ UNCHANGED <<status, locked, deleted, total, payment, adjs>>

(* max tranche number + 1; its row must fit the bound.                     *)
NextNumber(n) == Rows(tranches) \subseteq 1..(n - 1) /\
                 (n = 1 \/ n - 1 \in Rows(tranches))

(* On a completed file the add lifts the lock and reopens the request.     *)
AddTranche(n, amount, role) ==
  LET t == [tranches EXCEPT ![n] = NewRow(amount, n = 1)] IN
  /\ ~deleted /\ role \in AuthorRoles
  /\ status \notin TerminalStatuses
  /\ LiveSum(tranches) + amount <= total
  /\ NextNumber(n)
  /\ tranches' = t
  /\ SyncTotals(t)
  /\ \/ /\ status = "payment_processed"
        /\ TransitionAllowed(status, "pending_payment", role)
        /\ status' = "pending_payment"
        /\ locked' = FALSE
        /\ payment' = IF payment.status = "processed"
                        THEN [payment EXCEPT !.status = "none"] ELSE payment
     \/ /\ status # "payment_processed"
        /\ NotLocked(locked, role)
        /\ MayModify(role, TRUE)
        /\ UNCHANGED <<status, locked, payment>>
  /\ UNCHANGED <<deleted, total, adjs>>

ReleaseTranche(n, role) ==
  /\ ~deleted /\ role \in AuthorRoles
  /\ status \notin TerminalStatuses
  /\ Open(n)
  /\ ~tranches[n].released
  /\ tranches' = [tranches EXCEPT ![n].released = TRUE]
  /\ UNCHANGED <<status, locked, deleted, deposit, total, payment, adjs>>

(* A row stays, and no adjustment names the deleted one.                   *)
MayDelete(n, t) == Rows(t) # {} /\ adjs[n] = {}

(* Deleting the only unpaid tranche can leave every live one paid, and     *)
(* then the request completes.                                             *)
DeleteTranche(n, role) ==
  LET t == [tranches EXCEPT ![n] = NoRow] IN
  /\ ~deleted /\ role \in AuthorRoles /\ NotLocked(locked, role)
  /\ status \notin TerminalStatuses
  /\ MayModify(role, FALSE)
  /\ Open(n)
  /\ role \in AuthorGatedRoles => ~TouchedRow(tranches[n])
  /\ MayDelete(n, t)
  /\ tranches' = t
  /\ SyncTotals(t)
  /\ IF status = "pending_payment" /\ Live(t) # {} /\ Live(t) = Paid(t)
       THEN Complete ELSE UNCHANGED <<status, locked, payment>>
  /\ UNCHANGED <<deleted, total, adjs>>

CancelTranche(n, role) ==
  LET t == [tranches EXCEPT ![n] = DroppedRow(@, "cancelled")] IN
  /\ ~deleted /\ role \in AuthorRoles
  /\ status \notin TerminalStatuses
  /\ tranches[n].status = "unpaid"
  /\ tranches' = t
  /\ SyncTotals(t)
  /\ UNCHANGED <<status, locked, deleted, total, payment, adjs>>

--------------------------------------------------------------------------------
(* Tranche handlers of Accounts.                                           *)

(* _assert_not_held_by_merchandiser and the terminal-status refusal, which *)
(* the mutant forgets.                                                     *)
TouchOnClosed == ~deleted /\ status # "hold_by_merchandiser"
AccountsMayTouch == ~deleted /\ status \notin TerminalStatuses
                             /\ status # "hold_by_merchandiser"

AttachTtCopy(n, role) ==
  /\ AccountsMayTouch /\ role \in AccountsRoles
  /\ tranches[n].status \in {"unpaid", "paid", "cancelled"}
  /\ tranches' = [tranches EXCEPT ![n].tt = TRUE]
  /\ UNCHANGED <<status, locked, deleted, deposit, total, payment, adjs>>

RemoveTtCopy(n, role) ==
  /\ AccountsMayTouch /\ role \in AccountsRoles
  /\ tranches[n].status # "none" /\ tranches[n].tt
  /\ tranches' = [tranches EXCEPT ![n].tt = FALSE]
  /\ UNCHANGED <<status, locked, deleted, deposit, total, payment, adjs>>

UpdatePaymentDetails(n, level, role) ==
  /\ AccountsMayTouch /\ role \in AccountsRoles
  /\ Open(n)
  /\ tranches' = [tranches EXCEPT ![n].details = level]
  /\ UNCHANGED <<status, locked, deleted, deposit, total, payment, adjs>>

(* The count of unpaid rows is taken before the write: one is the last.    *)
(* The mutant compares the count taken after it.                           *)
LastAfterWrite(n) == \E m \in Nums : Unpaid(tranches) \ {n} = {m}
LastUnpaid(n) == \E m \in Nums : Unpaid(tranches) = {m}

(* Only the payment queue is paid; the mutant pays whatever Accounts may   *)
(* touch.                                                                  *)
InQueueOrHeld == AccountsMayTouch
InQueue == status = "pending_payment"

(* The readiness gate.                                                     *)
Ready(row) == row.tt /\ row.details = "complete"

MarkPaid(n, row, role) ==
  /\ role \in AccountsRoles
  /\ row.status \notin {"none", "paid", "rejected"}
  /\ InQueue
  /\ row.released \/ n = 1
  /\ Ready(row)
  /\ tranches' = [tranches EXCEPT ![n] = [row EXCEPT !.status = "paid"]]
  /\ IF LastUnpaid(n)
       THEN TransitionAllowed(status, "payment_processed", role) /\ Complete
       ELSE UNCHANGED <<status, locked, payment>>
  /\ UNCHANGED <<deleted, deposit, total, adjs>>

PayTranche(n, role) == ~deleted /\ MarkPaid(n, tranches[n], role)

(* One request of a bulk payment: the lowest-numbered payable tranche gets *)
(* the shared TT copy and the details, and is paid, in one transaction.    *)
BulkPay(role) ==
  LET payable == {n \in Unpaid(tranches) : tranches[n].released \/ n = 1} IN
  \E n \in payable :
    /\ AccountsMayTouch
    /\ \A m \in payable : n <= m
    /\ MarkPaid(n, [tranches[n] EXCEPT !.tt = TRUE, !.details = "complete"], role)

RejectTranche(n, role) ==
  LET t == [tranches EXCEPT ![n] = DroppedRow(@, "rejected")] IN
  /\ AccountsMayTouch
  /\ role \in AccountsRoles \cup {"head_of_merchandiser"}
  /\ NotLocked(locked, role)
  /\ Open(n)
  /\ tranches' = t
  /\ SyncTotals(t)
  /\ UNCHANGED <<status, locked, deleted, total, payment, adjs>>

--------------------------------------------------------------------------------
(* Request-level payment handlers.                                         *)

SavePaymentDetails(edit, role) ==
  /\ ~deleted /\ role \in AccountsRoles /\ NotLocked(locked, role)
  /\ payment' = [status |-> edit.status, fields |-> edit.fields,
                 shipped |-> edit.shipped, tt |-> payment.tt]
  /\ UNCHANGED <<status, locked, deleted, deposit, total, tranches, adjs>>

ProcessPayment(role) ==
  /\ ~deleted /\ role \in AccountsRoles
  /\ status # "payment_processed"
  /\ TransitionAllowed(status, "payment_processed", role)
  /\ payment.fields = "complete" /\ payment.status # "none"
  /\ Unpaid(tranches) = {}
  /\ status' = "payment_processed"
  /\ locked' = TRUE
  /\ UNCHANGED <<deleted, deposit, total, tranches, payment, adjs>>

AttachRequestTtCopy(role) ==
  /\ ~deleted /\ role \in AccountsRoles
  /\ payment' = [payment EXCEPT !.tt = TRUE]
  /\ UNCHANGED <<status, locked, deleted, deposit, total, tranches, adjs>>

SetShipDate(role) ==
  /\ ~deleted /\ role \in AccountsRoles \cup {"finance_admin"}
  /\ payment' = [payment EXCEPT !.shipped = TRUE]
  /\ UNCHANGED <<status, locked, deleted, deposit, total, tranches, adjs>>

--------------------------------------------------------------------------------
(* Request-level status and form handlers.                                 *)

(* The guards of transition_status on the tranches; each mutant drops one. *)
NoPaidGuard(target) ==
  target = "cancelled_by_merchandiser" =>
    ~ ((\E n \in Nums : tranches[n].status = "rejected") /\ Unpaid(tranches) # {})
NoCloseGuard(target) ==
  target \in {"hold_by_accounts", "rejected_by_accounts"} => Paid(tranches) = {}
TranchesAllow(target) ==
  /\ target \in {"hold_by_accounts", "rejected_by_accounts"} =>
       Paid(tranches) = {}
  /\ target = "cancelled_by_merchandiser" =>
       ~ /\ \E n \in Nums : tranches[n].status = "rejected"
         /\ Unpaid(tranches) # {}

(* transition_status.                                                      *)
Transition(target, role) ==
  /\ ~deleted
  /\ TransitionAllowed(status, target, role)
  /\ NotLocked(locked, role)
  /\ TranchesAllow(target)
  /\ status' = target
  /\ UNCHANGED <<locked, deleted, deposit, total, tranches, payment, adjs>>

(* The endpoints choose the target from the caller's role.                 *)
HoldRequest(role) ==
  Transition(IF role = "merchandiser" THEN "hold_by_merchandiser"
                                      ELSE "hold_by_accounts", role)
ResumeRequest(role) == Transition("pending_payment", role)
CancelRequest(role) ==
  Transition(IF role = "merchandiser" THEN "cancelled_by_merchandiser"
                                      ELSE "cancelled_by_accounts", role)
RejectRequest(role) ==
  role \in AccountsRoles /\ Transition("rejected_by_accounts", role)
ReopenRequest(role) == Transition("reopened", role)
HomApprove(role) == role \in {"head_of_merchandiser", "super_admin"} /\
                    Transition("pending_payment", role)
HomReject(role) == role \in {"head_of_merchandiser", "super_admin"} /\
                   Transition("rejected_by_hom", role)

(* PATCH of the form: the amounts are written as given.                    *)
UpdateRequest(newDeposit, newTotal, role) ==
  /\ ~deleted /\ NotLocked(locked, role)
  /\ role \in AuthorGatedRoles =>
       /\ status \in EditableStatuses
       /\ ~AccountsTouched
       /\ \A n \in Live(tranches) : n \notin Paid(tranches)
                                    /\ ~TouchedRow(tranches[n])
  /\ deposit' = newDeposit /\ total' = newTotal
  /\ UNCHANGED <<status, locked, deleted, tranches, payment, adjs>>

SoftDelete(role) ==
  /\ ~deleted /\ role = "super_admin"
  /\ deleted' = TRUE
  /\ UNCHANGED <<status, locked, deposit, total, tranches, payment, adjs>>

--------------------------------------------------------------------------------
(* Invoice adjustments, seen from this request: tranche n is the paid      *)
(* source or the unpaid destination, the other side is on another request. *)

AdjustmentSide(n, side) ==
  /\ tranches[n].status = IF side = "out" THEN "paid" ELSE "unpaid"
  /\ ~deleted /\ ~payment.shipped

RaiseAdjustment(n, side, role) ==
  /\ role \in AccountsRoles \cup {"merchandiser"}
  /\ AdjustmentSide(n, side)
  /\ adjs' = [adjs EXCEPT ![n] = @ \cup
       {<<side, IF role = "merchandiser" THEN "pending_approval" ELSE "completed">>}]
  /\ UNCHANGED <<status, locked, deleted, deposit, total, tranches, payment>>

(* Another pending one may name the same tranche, so the status that is    *)
(* decided may or may not stay in the set.                                 *)
DecideAdjustment(n, side, decision, role) ==
  LET pending == <<side, "pending_approval">> IN
  /\ role \in AccountsRoles
  /\ pending \in adjs[n]
  /\ decision = "completed" => AdjustmentSide(n, side)
  /\ \E rest \in {adjs[n], adjs[n] \ {pending}} :
       adjs' = [adjs EXCEPT ![n] = rest \cup {<<side, decision>>}]
  /\ UNCHANGED <<status, locked, deleted, deposit, total, tranches, payment>>

--------------------------------------------------------------------------------

TrancheStep(n, role) ==
  \/ \E a \in Amounts : UpdateTranche(n, a, role)
  \/ \E a \in Amounts : AddTranche(n, a, role)
  \/ ReleaseTranche(n, role)
  \/ DeleteTranche(n, role)
  \/ CancelTranche(n, role)
  \/ AttachTtCopy(n, role)
  \/ RemoveTtCopy(n, role)
  \/ \E l \in Levels : UpdatePaymentDetails(n, l, role)
  \/ PayTranche(n, role)
  \/ RejectTranche(n, role)

RequestStep(role) ==
  \/ BulkPay(role)
  \/ \E edit \in PaymentEdits : SavePaymentDetails(edit, role)
  \/ ProcessPayment(role)
  \/ AttachRequestTtCopy(role)
  \/ SetShipDate(role)
  \/ HoldRequest(role)
  \/ ResumeRequest(role)
  \/ CancelRequest(role)
  \/ RejectRequest(role)
  \/ ReopenRequest(role)
  \/ HomApprove(role)
  \/ HomReject(role)
  \/ \E d \in Totals \cup {deposit}, t \in Totals \cup {total} :
       UpdateRequest(d, t, role)
  \/ SoftDelete(role)

AdjustmentStep(n, side, role) ==
  \/ RaiseAdjustment(n, side, role)
  \/ \E d \in {"completed", "rejected"} : DecideAdjustment(n, side, d, role)

Next ==
  \E role \in UserRole :
    \/ RequestStep(role)
    \/ \E n \in Nums : TrancheStep(n, role)
    \/ \E n \in AdjustableNums, side \in Side : AdjustmentStep(n, side, role)

Spec == Init /\ [][Next]_vars

--------------------------------------------------------------------------------
(* The type of every variable; the sums are the business of Outstanding.   *)
TypeOK ==
  /\ status \in RequestStatus
  /\ locked \in BOOLEAN /\ deleted \in BOOLEAN
  /\ tranches \in [Nums -> TrancheRow]
  /\ payment \in PaymentRow
  /\ adjs \in [Nums -> SUBSET (Side \X AdjustmentStatus)]

(* Money never sits on a file that is not supposed to have any: a status   *)
(* that precedes payment, or one in which Accounts hold or rejected the    *)
(* whole file, has no paid tranche (guard of transition_status together    *)
(* with the status check of pay_tranche).                                  *)
NoPaidWhereNotPayable ==
  status \in {"pending_hom_approval", "rejected_by_hom", "hold_by_accounts",
             "cancelled_by_accounts", "rejected_by_accounts", "reopened"}
    => Paid(tranches) = {}

(* A completed file is locked, by whichever of the four handlers completes *)
(* it and whatever reopened and completed it again.                        *)
ProcessedIsLocked == status = "payment_processed" => locked

(* A paid tranche had been released (or is tranche 1) and has its payment  *)
(* date and bank: no later handler takes away what the readiness gate of   *)
(* pay_tranche asked for (the TT copy is the exception, remove_tt_copy     *)
(* works on paid tranches).                                                *)
PaidWasReady ==
  \A n \in Paid(tranches) : /\ tranches[n].released \/ n = 1
                            /\ tranches[n].details = "complete"

(* A completed file has nothing left to pay, unless a tranche that had     *)
(* been cancelled was paid on it: such a payment counts as the last one    *)
(* while another tranche is open.                                          *)
CompletedHasNothingOpen ==
  status = "payment_processed" =>
    \/ Unpaid(tranches) = {}
    \/ \E n \in Paid(tranches) : tranches[n].dropped

(* A file the merchandiser closed never combines a rejected tranche with   *)
(* an open one (guard 2 of transition_status), even later.                 *)
NothingClosedSilently ==
  status = "cancelled_by_merchandiser" =>
    Unpaid(tranches) = {} \/ \A n \in Nums : tranches[n].status # "rejected"

(* A request always keeps a tranche, however adds and deletes alternate.   *)
AlwaysATranche == Rows(tranches) # {}

(* An adjustment never loses a side: the tranche it names still exists,    *)
(* whatever its authors delete, and a source is still a paid tranche.      *)
AdjustmentsKeepTheirTranche ==
  \A n \in Nums : \A adj \in adjs[n] :
    /\ tranches[n].status # "none"
    /\ adj[1] = "out" => tranches[n].status = "paid"

(* Cancelling fills in the reason, and no handler clears it again, so a    *)
(* payment of a cancelled tranche remains recognisable.                    *)
CancelledHasReason ==
  \A n \in Nums : tranches[n].status = "cancelled" => tranches[n].dropped

(* The safety invariants with the strengthening that makes them inductive. *)
IInv ==
  /\ TypeOK
  /\ NoPaidWhereNotPayable
  /\ ProcessedIsLocked
  /\ PaidWasReady
  /\ CancelledHasReason
  /\ CompletedHasNothingOpen
  /\ NothingClosedSilently
  /\ AlwaysATranche
  /\ AdjustmentsKeepTheirTranche

(* A paid row is final: no handler changes its amount, status, release or  *)
(* payment details, and none deletes it.                                   *)
PaidRowsKept ==
  \A n \in Paid(tranches) :
    tranches'[n] \in {[tranches[n] EXCEPT !.tt = b] : b \in BOOLEAN}
PaidRowsAreFinal == [][PaidRowsKept]_vars

(* On a cancelled or rejected file no handler changes a tranche, and only  *)
(* the reopening of an Accounts cancellation leaves that status.           *)
TerminalStep ==
  status \in TerminalStatuses =>
    /\ tranches' = tranches
    /\ \/ status' = status
       \/ status = "cancelled_by_accounts" /\ status' = "reopened"
TerminalFreezesTranches == [][TerminalStep]_vars

(* The lifecycle implements the promise about money.                       *)
Promise == INSTANCE PaymentPromise WITH paid <- Paid(tranches)
PromiseKept == Promise!PSpec

================================================================================
