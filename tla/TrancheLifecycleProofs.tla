------------------------- MODULE TrancheLifecycleProofs -------------------------
(***************************************************************************)
(* Theorems about TrancheLifecycle and Outstanding for every number of     *)
(* tranches and every set of amounts, totals and payment edits.            *)
(***************************************************************************)
EXTENDS Outstanding, Sums

(* The small named conditions and writes of the handlers.                  *)
USE DEF Open, MayDelete, DroppedRow, LastUnpaid, InQueue, TranchesAllow

(* Every move that the service table gives to some role is a pair of the   *)
(* database trigger: no handler that checked its transition is refused by  *)
(* the trigger when nothing changed in between.                            *)
THEOREM TableWithinTrigger ==
  ASSUME NEW current, NEW target, NEW role, TransitionAllowed(current, target, role)
  PROVE  TriggerAllows(current, target)
BY DEF TransitionAllowed, TriggerAllows, TriggerPairs, AuthorMoves,
       AccountsMoves, HomMoves

\* The initial state is typed.
LEMMA InitTypeOK == Init => TypeOK
<1> SUFFICES ASSUME Init PROVE TypeOK
  OBVIOUS
<1>1. PICK k \in Nums, a \in [Nums -> Amounts] :
        tranches = [n \in Nums |-> IF n <= k THEN NewRow(a[n], n = 1) ELSE NoRow]
  BY DEF Init
<1>2. \A n \in Nums : a[n] \in Nat
  BY ConstantsOK
<1>3. tranches \in [Nums -> TrancheRow]
  BY <1>1, <1>2 DEF TrancheRow, TrancheStatus, Level, NewRow, NoRow
<1>4. payment \in PaymentRow /\ adjs \in [Nums -> SUBSET (Side \X AdjustmentStatus)]
  BY DEF Init, PaymentRow, Level
<1> QED
  BY <1>3, <1>4 DEF Init, TypeOK, RequestStatus

(* What completion writes keeps its type.                                  *)
LEMMA CompleteType ==
  ASSUME TypeOK, Complete
  PROVE  /\ payment' \in PaymentRow
         /\ status' \in RequestStatus /\ locked' \in BOOLEAN
<1>1. PICK f \in Level : payment' = [payment EXCEPT !.status = "processed", !.fields = f]
  BY DEF TypeOK, PaymentRow, Level, Complete, SyncPaymentDetails
<1> QED
  BY <1>1 DEF TypeOK, PaymentRow, Complete, RequestStatus

\* Paying a tranche writes a typed row.
LEMMA MarkPaidTypeOK ==
  ASSUME TypeOK, NEW n \in Nums, NEW row \in TrancheRow, NEW role,
         MarkPaid(n, row, role)
  PROVE  TypeOK'
<1>1. [row EXCEPT !.status = "paid"] \in TrancheRow
  BY DEF TrancheRow, TrancheStatus
<1> QED
  BY <1>1, CompleteType DEF MarkPaid, Ready, TypeOK

\* The tranche handlers keep the types.
LEMMA TrancheStepTypeOK ==
  ASSUME TypeOK, NEW n \in Nums, NEW role \in UserRole, TrancheStep(n, role)
  PROVE  TypeOK'
<1> USE DEF TypeOK
<1>1. ASSUME NEW a \in Amounts, UpdateTranche(n, a, role) PROVE TypeOK'
  BY <1>1, ConstantsOK DEF UpdateTranche, TrancheRow
<1>2. ASSUME NEW a \in Amounts, AddTranche(n, a, role) PROVE TypeOK'
  <2>1. NewRow(a, n = 1) \in TrancheRow
    BY ConstantsOK DEF NewRow, TrancheRow, TrancheStatus, Level
  <2>2. payment' \in PaymentRow
    BY <1>2 DEF AddTranche, PaymentRow
  <2> QED
    BY <1>2, <2>1, <2>2 DEF AddTranche, RequestStatus
<1>3. CASE ReleaseTranche(n, role)
  BY <1>3 DEF ReleaseTranche, TrancheRow
<1>4. CASE DeleteTranche(n, role)
  <2>1. NoRow \in TrancheRow
    BY DEF NoRow, TrancheRow, TrancheStatus, Level
  <2> QED
    BY <1>4, <2>1, CompleteType DEF DeleteTranche
<1>5. CASE CancelTranche(n, role)
  BY <1>5 DEF CancelTranche, TrancheRow, TrancheStatus
<1>6. CASE AttachTtCopy(n, role)
  BY <1>6 DEF AttachTtCopy, TrancheRow
<1>7. CASE RemoveTtCopy(n, role)
  BY <1>7 DEF RemoveTtCopy, TrancheRow
<1>8. ASSUME NEW l \in Levels, UpdatePaymentDetails(n, l, role) PROVE TypeOK'
  BY <1>8, ConstantsOK DEF UpdatePaymentDetails, TrancheRow
<1>9. CASE PayTranche(n, role)
  BY <1>9, MarkPaidTypeOK DEF PayTranche
<1>10. CASE RejectTranche(n, role)
  BY <1>10 DEF RejectTranche, TrancheRow, TrancheStatus
<1> QED
  BY <1>1, <1>2, <1>3, <1>4, <1>5, <1>6, <1>7, <1>8, <1>9, <1>10 DEF TrancheStep

\* The request handlers keep the types.
LEMMA RequestStepTypeOK ==
  ASSUME TypeOK, NEW role \in UserRole, RequestStep(role)
  PROVE  TypeOK'
<1> USE DEF TypeOK
<1>1. CASE BulkPay(role)
  <2>1. PICK n \in Nums :
          MarkPaid(n, [tranches[n] EXCEPT !.tt = TRUE, !.details = "complete"], role)
    BY <1>1 DEF BulkPay, Unpaid
  <2>2. [tranches[n] EXCEPT !.tt = TRUE, !.details = "complete"] \in TrancheRow
    BY DEF TrancheRow, Level
  <2> QED
    BY <2>1, <2>2, MarkPaidTypeOK
<1>2. ASSUME NEW edit \in PaymentEdits, SavePaymentDetails(edit, role) PROVE TypeOK'
  BY <1>2, ConstantsOK DEF SavePaymentDetails, PaymentEdit, PaymentRow
<1>3. CASE ProcessPayment(role)
  BY <1>3 DEF ProcessPayment, RequestStatus
<1>4. CASE AttachRequestTtCopy(role)
  BY <1>4 DEF AttachRequestTtCopy, PaymentRow
<1>5. CASE SetShipDate(role)
  BY <1>5 DEF SetShipDate, PaymentRow
<1>6. ASSUME NEW target \in RequestStatus, Transition(target, role) PROVE TypeOK'
  BY <1>6 DEF Transition
<1>7. ASSUME NEW d, NEW t, UpdateRequest(d, t, role) PROVE TypeOK'
  BY <1>7 DEF UpdateRequest
<1>8. CASE SoftDelete(role)
  BY <1>8 DEF SoftDelete
<1> QED
  BY <1>1, <1>2, <1>3, <1>4, <1>5, <1>6, <1>7, <1>8
  DEF RequestStep, HoldRequest, ResumeRequest, CancelRequest, RejectRequest,
      ReopenRequest, HomApprove, HomReject, RequestStatus

\* The adjustment handlers keep the types.
LEMMA AdjustmentStepTypeOK ==
  ASSUME TypeOK, NEW n \in Nums, NEW side \in Side, NEW role \in UserRole,
         AdjustmentStep(n, side, role)
  PROVE  TypeOK'
<1> USE DEF TypeOK
<1>1. CASE RaiseAdjustment(n, side, role)
  BY <1>1 DEF RaiseAdjustment, AdjustmentStatus
<1>2. ASSUME NEW d \in {"completed", "rejected"}, DecideAdjustment(n, side, d, role)
      PROVE  TypeOK'
  <2>1. PICK rest \in SUBSET (Side \X AdjustmentStatus) :
          adjs' = [adjs EXCEPT ![n] = rest \cup {<<side, d>>}]
    BY <1>2 DEF DecideAdjustment
  <2>2. rest \cup {<<side, d>>} \in SUBSET (Side \X AdjustmentStatus)
    BY DEF AdjustmentStatus
  <2> QED
    BY <1>2, <2>1, <2>2 DEF DecideAdjustment
<1> QED
  BY <1>1, <1>2 DEF AdjustmentStep

\* Every step keeps the types.
LEMMA NextTypeOK == TypeOK /\ [Next]_vars => TypeOK'
<1> SUFFICES ASSUME TypeOK, [Next]_vars PROVE TypeOK'
  OBVIOUS
<1>1. CASE UNCHANGED vars
  BY <1>1 DEF vars, TypeOK
<1>2. AdjustableNums \subseteq Nums
  BY ConstantsOK
<1> QED
  BY <1>1, <1>2, TrancheStepTypeOK, RequestStepTypeOK, AdjustmentStepTypeOK DEF Next

(* The type of every variable, whatever the handlers do.                   *)
THEOREM TypeCorrect == Spec => []TypeOK
BY InitTypeOK, NextTypeOK, PTL DEF Spec

--------------------------------------------------------------------------------
(* The safety invariants.                                                  *)

\* The initial state satisfies the invariant.
LEMMA InitIInv == Init => IInv
<1> SUFFICES ASSUME Init PROVE IInv
  OBVIOUS
<1>1. PICK k \in Nums, a \in [Nums -> Amounts] :
        tranches = [n \in Nums |-> IF n <= k THEN NewRow(a[n], n = 1) ELSE NoRow]
  BY DEF Init
<1>2. \A n \in Nums : tranches[n].status \in {"unpaid", "none"}
  BY <1>1 DEF NewRow, NoRow
<1>3. 1 \in Nums /\ 1 <= k
  BY ConstantsOK DEF Nums
<1>4. tranches[1].status = "unpaid"
  BY <1>1, <1>3 DEF NewRow
<1> QED
  BY <1>2, <1>3, <1>4, InitTypeOK
  DEF Init, IInv, NoPaidWhereNotPayable, ProcessedIsLocked, PaidWasReady,
      CancelledHasReason, CompletedHasNothingOpen, NothingClosedSilently,
      AlwaysATranche, AdjustmentsKeepTheirTranche, Paid, Rows

(* A change of one existing row that neither pays nor revives it, on a     *)
(* request that is not closed.                                             *)
LEMMA RowChange ==
  ASSUME IInv, TypeOK', NEW n \in Nums, NEW row,
         tranches' = [tranches EXCEPT ![n] = row],
         status \notin TerminalStatuses,
         status' = status, locked' = locked, adjs' = adjs,
         row.status # "none",
         row.status \in {"unpaid", "paid"} => row.status = tranches[n].status,
         tranches[n].status = "paid" =>
           row \in {[tranches[n] EXCEPT !.tt = b] : b \in BOOLEAN},
         row.status = "cancelled" => row.dropped
  PROVE  IInv'
<1> USE DEF IInv, TypeOK
<1>1. \A m \in Nums : tranches'[m] = IF m = n THEN row ELSE tranches[m]
  OBVIOUS
<1>2. /\ Paid(tranches') = Paid(tranches)
      /\ Unpaid(tranches') \subseteq Unpaid(tranches)
      /\ Rows(tranches) \subseteq Rows(tranches')
  <2>1. tranches[n].status = "paid" => row.status = "paid"
    BY DEF TrancheRow
  <2> QED
    BY <1>1, <2>1 DEF Paid, Unpaid, Rows
<1>3. NoPaidWhereNotPayable' /\ ProcessedIsLocked' /\ AlwaysATranche'
  BY <1>2 DEF NoPaidWhereNotPayable, ProcessedIsLocked, AlwaysATranche
<1>4. \A m \in Paid(tranches) :
        /\ tranches'[m].released = tranches[m].released
        /\ tranches'[m].details = tranches[m].details
        /\ tranches'[m].dropped = tranches[m].dropped
  BY <1>1 DEF Paid, TrancheRow
<1>5. PaidWasReady'
  BY <1>2, <1>4 DEF PaidWasReady
<1>6. CancelledHasReason'
  BY <1>1 DEF CancelledHasReason
<1>7. CompletedHasNothingOpen'
  BY <1>2, <1>4 DEF CompletedHasNothingOpen
<1>8. NothingClosedSilently'
  BY DEF NothingClosedSilently, TerminalStatuses
<1>9. AdjustmentsKeepTheirTranche'
  BY <1>1, <1>2 DEF AdjustmentsKeepTheirTranche, Paid
<1> QED
  BY <1>3, <1>5, <1>6, <1>7, <1>8, <1>9

(* The added tranche is a new unpaid row; a completed file reopens.        *)
LEMMA AddIInv ==
  ASSUME IInv, TypeOK', NEW n \in Nums, NEW amount \in Amounts,
         NEW role \in UserRole, AddTranche(n, amount, role)
  PROVE  IInv'
<1> USE DEF IInv, TypeOK
<1>1. \A m \in Nums : tranches'[m] =
        IF m = n THEN NewRow(amount, n = 1) ELSE tranches[m]
  BY DEF AddTranche
<1>2. tranches[n].status = "none"
  BY DEF AddTranche, NextNumber, Rows, Nums
<1>3. /\ Paid(tranches') = Paid(tranches)
      /\ Rows(tranches) \subseteq Rows(tranches')
  BY <1>1, <1>2 DEF Paid, Rows, NewRow
<1>4. /\ \/ status' = "pending_payment" /\ status = "payment_processed"
         \/ status' = status /\ locked' = locked /\ status # "payment_processed"
      /\ status \notin TerminalStatuses
      /\ adjs' = adjs
  BY DEF AddTranche
<1>5. NoPaidWhereNotPayable' /\ ProcessedIsLocked' /\ AlwaysATranche'
  BY <1>3, <1>4 DEF NoPaidWhereNotPayable, ProcessedIsLocked, AlwaysATranche
<1>6. \A m \in Paid(tranches) : tranches'[m] = tranches[m]
  BY <1>1, <1>2 DEF Paid
<1>7. PaidWasReady' /\ CancelledHasReason'
  BY <1>1, <1>3, <1>6 DEF PaidWasReady, CancelledHasReason, NewRow
<1>8. CompletedHasNothingOpen' /\ NothingClosedSilently'
  BY <1>4 DEF CompletedHasNothingOpen, NothingClosedSilently, TerminalStatuses
<1>9. AdjustmentsKeepTheirTranche'
  BY <1>1, <1>2, <1>4 DEF AdjustmentsKeepTheirTranche
<1> QED
  BY <1>5, <1>7, <1>8, <1>9

(* The deleted row was open, no adjustment names it and another row stays. *)
LEMMA DeleteIInv ==
  ASSUME IInv, TypeOK', NEW n \in Nums, NEW role \in UserRole,
         DeleteTranche(n, role)
  PROVE  IInv'
<1> USE DEF IInv, TypeOK
<1>1. /\ \A m \in Nums : tranches'[m] = IF m = n THEN NoRow ELSE tranches[m]
      /\ tranches' = [tranches EXCEPT ![n] = NoRow]
      /\ tranches[n].status \in {"unpaid", "cancelled"}
      /\ Rows(tranches') # {} /\ adjs[n] = {} /\ adjs' = adjs
      /\ status \notin TerminalStatuses
  BY DEF DeleteTranche
<1>2. /\ Paid(tranches') = Paid(tranches)
      /\ Unpaid(tranches') \subseteq Unpaid(tranches)
      /\ \A m \in Paid(tranches) : tranches'[m] = tranches[m]
  BY <1>1 DEF Paid, Unpaid, NoRow
<1>3. PaidWasReady' /\ CancelledHasReason' /\ AlwaysATranche'
  BY <1>1, <1>2 DEF PaidWasReady, CancelledHasReason, AlwaysATranche, NoRow
<1>4. AdjustmentsKeepTheirTranche'
  BY <1>1 DEF AdjustmentsKeepTheirTranche
<1>5. CASE Live(tranches') = Paid(tranches') /\ Complete
  <2>1. Unpaid(tranches') = {}
    BY <1>5 DEF Live, Paid, Unpaid
  <2> QED
    BY <1>3, <1>4, <1>5, <2>1
    DEF Complete, NoPaidWhereNotPayable, ProcessedIsLocked,
        CompletedHasNothingOpen, NothingClosedSilently
<1>6. CASE status' = status /\ locked' = locked
  BY <1>1, <1>2, <1>3, <1>4, <1>6
  DEF NoPaidWhereNotPayable, ProcessedIsLocked, CompletedHasNothingOpen,
      NothingClosedSilently, TerminalStatuses
<1> QED
  BY <1>1, <1>5, <1>6 DEF DeleteTranche

(* The paid row was unpaid or cancelled; when it was the only unpaid one   *)
(* or a cancelled one next to it, the file completes.                      *)
LEMMA MarkPaidIInv ==
  ASSUME IInv, TypeOK', NEW n \in Nums, NEW row \in TrancheRow, NEW role,
         row.status = tranches[n].status, row.dropped = tranches[n].dropped,
         MarkPaid(n, row, role)
  PROVE  IInv'
<1> USE DEF IInv, TypeOK
<1> DEFINE new == [row EXCEPT !.status = "paid"]
<1>1. /\ \A m \in Nums : tranches'[m] = IF m = n THEN new ELSE tranches[m]
      /\ tranches[n].status \in {"unpaid", "cancelled"}
      /\ status = "pending_payment" /\ adjs' = adjs
      /\ new.released \/ n = 1
      /\ new.details = "complete" /\ new.status = "paid"
      /\ new.dropped = tranches[n].dropped
  BY DEF MarkPaid, Ready, TrancheRow, TrancheStatus
<1> HIDE DEF new
<1>2. /\ Paid(tranches') = Paid(tranches) \cup {n}
      /\ Unpaid(tranches') = Unpaid(tranches) \ {n}
      /\ Rows(tranches') = Rows(tranches)
  BY <1>1 DEF Paid, Unpaid, Rows
<1>3. PaidWasReady' /\ CancelledHasReason' /\ AlwaysATranche'
  BY <1>1, <1>2 DEF PaidWasReady, CancelledHasReason, AlwaysATranche, Paid
<1>4. AdjustmentsKeepTheirTranche'
  BY <1>1 DEF AdjustmentsKeepTheirTranche
<1>5. \/ status' = "payment_processed" /\ locked' = TRUE
      \/ status' = status /\ locked' = locked
  BY DEF MarkPaid, Ready, Complete
<1>6. CASE status' = "payment_processed" /\ locked' = TRUE
  <2>1. PICK m \in Nums : Unpaid(tranches) = {m}
    BY <1>1, <1>6 DEF MarkPaid, Ready
  <2>2. Unpaid(tranches') = {} \/ tranches'[n].dropped
    <3>1. CASE tranches[n].status = "unpaid"
      BY <1>2, <2>1, <3>1 DEF Unpaid
    <3>2. CASE tranches[n].status = "cancelled"
      BY <1>1, <3>2 DEF CancelledHasReason
    <3> QED
      BY <1>1, <3>1, <3>2
  <2> QED
    BY <1>2, <1>3, <1>4, <1>6, <2>2
    DEF NoPaidWhereNotPayable, ProcessedIsLocked, CompletedHasNothingOpen,
        NothingClosedSilently
<1>7. CASE status' = status /\ locked' = locked
  BY <1>1, <1>3, <1>4, <1>7
  DEF NoPaidWhereNotPayable, ProcessedIsLocked, CompletedHasNothingOpen,
      NothingClosedSilently
<1> QED
  BY <1>5, <1>6, <1>7

(* No endpoint transitions a request to payment_processed.                 *)
LEMMA TransitionIInv ==
  ASSUME IInv, TypeOK', NEW target \in RequestStatus, NEW role \in UserRole,
         target # "payment_processed", Transition(target, role)
  PROVE  IInv'
<1> USE DEF IInv, TypeOK
<1>1. /\ tranches' = tranches /\ locked' = locked /\ adjs' = adjs
      /\ status' = target /\ <<status, target>> \in TriggerPairs
      /\ target \in {"hold_by_accounts", "rejected_by_accounts"} =>
           Paid(tranches) = {}
      /\ target = "cancelled_by_merchandiser" =>
           ~ /\ \E n \in Nums : tranches[n].status = "rejected"
             /\ Unpaid(tranches) # {}
  BY TableWithinTrigger
  DEF Transition, TransitionAllowed, TriggerPairs, AuthorMoves, AccountsMoves,
      HomMoves
<1>2. NoPaidWhereNotPayable'
  BY <1>1 DEF NoPaidWhereNotPayable, TriggerPairs
<1> QED
  BY <1>1, <1>2
  DEF ProcessedIsLocked, PaidWasReady, CancelledHasReason,
      CompletedHasNothingOpen, NothingClosedSilently, AlwaysATranche,
      AdjustmentsKeepTheirTranche

\* The tranche handlers keep the invariant.
LEMMA TrancheStepIInv ==
  ASSUME IInv, TypeOK', NEW n \in Nums, NEW role \in UserRole,
         TrancheStep(n, role)
  PROVE  IInv'
<1>1. tranches[n] \in TrancheRow /\ tranches \in [Nums -> TrancheRow]
  BY DEF IInv, TypeOK
<1>2. ASSUME NEW a \in Amounts, UpdateTranche(n, a, role) PROVE IInv'
  <2> DEFINE row == [tranches[n] EXCEPT !.amount = a]
  <2>1. tranches' = [tranches EXCEPT ![n] = row]
    BY <1>2 DEF UpdateTranche
  <2>2. row.status = tranches[n].status /\ row.dropped = tranches[n].dropped
    BY <1>1 DEF TrancheRow
  <2> HIDE DEF row
  <2> QED
    BY <1>2, <2>1, <2>2, RowChange
    DEF UpdateTranche, IInv, CancelledHasReason
<1>3. ASSUME NEW a \in Amounts, AddTranche(n, a, role) PROVE IInv'
  BY <1>3, AddIInv
<1>4. CASE ReleaseTranche(n, role)
  <2> DEFINE row == [tranches[n] EXCEPT !.released = TRUE]
  <2>1. tranches' = [tranches EXCEPT ![n] = row]
    BY <1>4 DEF ReleaseTranche
  <2>2. row.status = tranches[n].status /\ row.dropped = tranches[n].dropped
    BY <1>1 DEF TrancheRow
  <2> HIDE DEF row
  <2> QED
    BY <1>4, <2>1, <2>2, RowChange
    DEF ReleaseTranche, IInv, CancelledHasReason
<1>5. CASE DeleteTranche(n, role)
  BY <1>5, DeleteIInv
<1>6. CASE CancelTranche(n, role)
  <2> DEFINE row == DroppedRow(tranches[n], "cancelled")
  <2>1. tranches' = [tranches EXCEPT ![n] = row]
    BY <1>1, <1>6 DEF CancelTranche
  <2>2. row.status = "cancelled" /\ row.dropped
    BY <1>1 DEF TrancheRow
  <2> HIDE DEF row
  <2> QED
    BY <1>6, <2>1, <2>2, RowChange DEF CancelTranche
<1>7. ASSUME NEW b \in BOOLEAN, status \notin TerminalStatuses,
             tranches[n].status # "none",
             tranches' = [tranches EXCEPT ![n].tt = b],
             status' = status, locked' = locked, adjs' = adjs
      PROVE  IInv'
  <2> DEFINE row == [tranches[n] EXCEPT !.tt = b]
  <2>1. tranches' = [tranches EXCEPT ![n] = row]
    BY <1>7
  <2>2. row.status = tranches[n].status /\ row.dropped = tranches[n].dropped
    BY <1>1 DEF TrancheRow
  <2>3. row \in {[tranches[n] EXCEPT !.tt = c] : c \in BOOLEAN}
    OBVIOUS
  <2> HIDE DEF row
  <2> QED
    BY <1>7, <2>1, <2>2, <2>3, RowChange DEF IInv, CancelledHasReason
<1>8. CASE AttachTtCopy(n, role)
  BY <1>7, <1>8 DEF AttachTtCopy, AccountsMayTouch
<1>9. CASE RemoveTtCopy(n, role)
  BY <1>7, <1>9 DEF RemoveTtCopy, AccountsMayTouch
<1>10. ASSUME NEW l \in Levels, UpdatePaymentDetails(n, l, role) PROVE IInv'
  <2> DEFINE row == [tranches[n] EXCEPT !.details = l]
  <2>1. tranches' = [tranches EXCEPT ![n] = row]
    BY <1>10 DEF UpdatePaymentDetails
  <2>2. row.status = tranches[n].status /\ row.dropped = tranches[n].dropped
    BY <1>1 DEF TrancheRow
  <2> HIDE DEF row
  <2> QED
    BY <1>10, <2>1, <2>2, RowChange
    DEF UpdatePaymentDetails, AccountsMayTouch, IInv, CancelledHasReason
<1>11. CASE PayTranche(n, role)
  BY <1>1, <1>11, MarkPaidIInv DEF PayTranche
<1>12. CASE RejectTranche(n, role)
  <2> DEFINE row == DroppedRow(tranches[n], "rejected")
  <2>1. tranches' = [tranches EXCEPT ![n] = row]
    BY <1>1, <1>12 DEF RejectTranche
  <2>2. row.status = "rejected" /\ row.dropped
    BY <1>1 DEF TrancheRow
  <2> HIDE DEF row
  <2> QED
    BY <1>12, <2>1, <2>2, RowChange DEF RejectTranche, AccountsMayTouch
<1> QED
  BY <1>2, <1>3, <1>4, <1>5, <1>6, <1>8, <1>9, <1>10, <1>11, <1>12
  DEF TrancheStep

(* What a step needs to leave alone to keep the invariant.                 *)
LEMMA StutterIInv ==
  ASSUME IInv, TypeOK', UNCHANGED <<status, locked, tranches, adjs>>
  PROVE  IInv'
BY DEF IInv, NoPaidWhereNotPayable, ProcessedIsLocked, PaidWasReady,
       CancelledHasReason, CompletedHasNothingOpen, NothingClosedSilently,
       AlwaysATranche, AdjustmentsKeepTheirTranche

\* The request handlers keep the invariant.
LEMMA RequestStepIInv ==
  ASSUME IInv, TypeOK', NEW role \in UserRole, RequestStep(role)
  PROVE  IInv'
<1>1. CASE BulkPay(role)
  <2>1. PICK n \in Nums :
          MarkPaid(n, [tranches[n] EXCEPT !.tt = TRUE, !.details = "complete"], role)
    BY <1>1 DEF BulkPay, Unpaid
  <2> DEFINE row == [tranches[n] EXCEPT !.tt = TRUE, !.details = "complete"]
  <2>2. /\ row \in TrancheRow
        /\ row.status = tranches[n].status /\ row.dropped = tranches[n].dropped
    BY DEF IInv, TypeOK, TrancheRow, Level
  <2> QED
    BY <2>1, <2>2, MarkPaidIInv
<1>2. ASSUME NEW edit \in PaymentEdits, SavePaymentDetails(edit, role) PROVE IInv'
  BY <1>2, StutterIInv DEF SavePaymentDetails
<1>3. CASE ProcessPayment(role)
  BY <1>3
  DEF ProcessPayment, IInv, NoPaidWhereNotPayable, ProcessedIsLocked,
      PaidWasReady, CancelledHasReason, CompletedHasNothingOpen,
      NothingClosedSilently, AlwaysATranche, AdjustmentsKeepTheirTranche
<1>4. CASE AttachRequestTtCopy(role)
  BY <1>4, StutterIInv DEF AttachRequestTtCopy
<1>5. CASE SetShipDate(role)
  BY <1>5, StutterIInv DEF SetShipDate
<1>6. ASSUME NEW target \in RequestStatus, target # "payment_processed",
             Transition(target, role)
      PROVE  IInv'
  BY <1>6, TransitionIInv
<1>7. ASSUME NEW d, NEW t, UpdateRequest(d, t, role) PROVE IInv'
  BY <1>7, StutterIInv DEF UpdateRequest
<1>8. CASE SoftDelete(role)
  BY <1>8, StutterIInv DEF SoftDelete
<1> QED
  BY <1>1, <1>2, <1>3, <1>4, <1>5, <1>6, <1>7, <1>8
  DEF RequestStep, HoldRequest, ResumeRequest, CancelRequest, RejectRequest,
      ReopenRequest, HomApprove, HomReject, RequestStatus

\* The adjustment handlers keep the invariant.
LEMMA AdjustmentStepIInv ==
  ASSUME IInv, TypeOK', NEW n \in Nums, NEW side \in Side, NEW role \in UserRole,
         AdjustmentStep(n, side, role)
  PROVE  IInv'
<1> USE DEF IInv, TypeOK
<1>1. UNCHANGED <<status, locked, tranches>>
  BY DEF AdjustmentStep, RaiseAdjustment, DecideAdjustment
<1>2. AdjustmentsKeepTheirTranche'
  <2>1. CASE RaiseAdjustment(n, side, role)
    BY <2>1
    DEF RaiseAdjustment, AdjustmentSide, AdjustmentsKeepTheirTranche, Side
  <2>2. ASSUME NEW d, DecideAdjustment(n, side, d, role)
        PROVE  AdjustmentsKeepTheirTranche'
    <3>1. PICK rest \in SUBSET adjs[n] : adjs' = [adjs EXCEPT ![n] = rest \cup {<<side, d>>}]
      BY <2>2 DEF DecideAdjustment
    <3>2. <<side, "pending_approval">> \in adjs[n]
      BY <2>2 DEF DecideAdjustment
    <3> QED
      BY <1>1, <3>1, <3>2 DEF AdjustmentsKeepTheirTranche
  <2> QED
    BY <2>1, <2>2 DEF AdjustmentStep
<1> QED
  BY <1>1, <1>2
  DEF NoPaidWhereNotPayable, ProcessedIsLocked, PaidWasReady,
      CancelledHasReason, CompletedHasNothingOpen, NothingClosedSilently,
      AlwaysATranche

\* Every step keeps the invariant.
LEMMA NextIInv == IInv /\ [Next]_vars => IInv'
<1> SUFFICES ASSUME IInv, [Next]_vars PROVE IInv'
  OBVIOUS
<1>1. TypeOK'
  BY NextTypeOK DEF IInv
<1>2. CASE UNCHANGED vars
  BY <1>1, <1>2, StutterIInv DEF vars
<1>3. AdjustableNums \subseteq Nums
  BY ConstantsOK
<1> QED
  BY <1>1, <1>2, <1>3, TrancheStepIInv, RequestStepIInv, AdjustmentStepIInv DEF Next

\* The invariant holds throughout.
THEOREM InductiveInvariant == Spec => []IInv
BY InitIInv, NextIInv, PTL DEF Spec

(* Files that are not payable hold no money.                               *)
THEOREM NoPaidWhereNotPayableCorrect == Spec => []NoPaidWhereNotPayable
BY InductiveInvariant, PTL DEF IInv

(* Every completed file is locked.                                         *)
THEOREM ProcessedIsLockedCorrect == Spec => []ProcessedIsLocked
BY InductiveInvariant, PTL DEF IInv

(* No tranche was paid without its release, payment date and bank.         *)
THEOREM PaidWasReadyCorrect == Spec => []PaidWasReady
BY InductiveInvariant, PTL DEF IInv

(* Completion with something open always goes back to a paid tranche that  *)
(* had been cancelled.                                                     *)
THEOREM CompletedHasNothingOpenCorrect == Spec => []CompletedHasNothingOpen
BY InductiveInvariant, PTL DEF IInv

(* The merchandiser never closes a rejected and an open tranche together.  *)
THEOREM NothingClosedSilentlyCorrect == Spec => []NothingClosedSilently
BY InductiveInvariant, PTL DEF IInv

(* The last tranche row is never deleted.                                  *)
THEOREM AlwaysATrancheCorrect == Spec => []AlwaysATranche
BY InductiveInvariant, PTL DEF IInv

(* Adjustments keep both their sides, and their source stays paid.         *)
THEOREM AdjustmentsKeepTheirTrancheCorrect == Spec => []AdjustmentsKeepTheirTranche
BY InductiveInvariant, PTL DEF IInv

--------------------------------------------------------------------------------
(* The action properties.                                                  *)

\* A row left alone is a row whose TT copy alone may have changed.
LEMMA UnchangedRow ==
  ASSUME TypeOK, NEW n \in Nums
  PROVE  tranches[n] \in {[tranches[n] EXCEPT !.tt = b] : b \in BOOLEAN}
<1>1. tranches[n] = [tranches[n] EXCEPT !.tt = tranches[n].tt]
  BY DEF TypeOK, TrancheRow
<1>2. tranches[n].tt \in BOOLEAN
  BY DEF TypeOK, TrancheRow
<1> QED
  BY <1>1, <1>2

(* A step on a row that is not paid leaves the paid rows as they are.      *)
LEMMA OtherRows ==
  ASSUME TypeOK, NEW n \in Nums, NEW row, tranches[n].status # "paid",
         tranches' = [tranches EXCEPT ![n] = row]
  PROVE  PaidRowsKept
<1>1. \A m \in Paid(tranches) : tranches'[m] = tranches[m]
  BY DEF TypeOK, Paid
<1> QED
  BY <1>1, UnchangedRow DEF PaidRowsKept, Paid

\* No step takes a paid tranche back.
LEMMA StepKeepsPaidRows ==
  ASSUME TypeOK, [Next]_vars
  PROVE  PaidRowsKept
<1>1. ASSUME tranches' = tranches PROVE PaidRowsKept
  BY <1>1, UnchangedRow DEF PaidRowsKept, Paid
<1>2. ASSUME NEW n \in Nums, NEW role, NEW row, MarkPaid(n, row, role),
             row.status = tranches[n].status
      PROVE  PaidRowsKept
  BY <1>2, OtherRows DEF MarkPaid, Ready
<1>3. ASSUME NEW role \in UserRole, NEW n \in Nums, TrancheStep(n, role)
      PROVE  PaidRowsKept
  <2>1. ASSUME NEW a \in Amounts, UpdateTranche(n, a, role) PROVE PaidRowsKept
    BY <2>1, OtherRows DEF UpdateTranche
  <2>2. ASSUME NEW a \in Amounts, AddTranche(n, a, role) PROVE PaidRowsKept
    <3>1. tranches[n].status = "none"
      BY <2>2 DEF AddTranche, NextNumber, Rows, Nums
    <3> QED
      BY <2>2, <3>1, OtherRows DEF AddTranche
  <2>3. CASE ReleaseTranche(n, role)
    BY <2>3, OtherRows DEF ReleaseTranche
  <2>4. CASE DeleteTranche(n, role)
    BY <2>4, OtherRows DEF DeleteTranche
  <2>5. CASE CancelTranche(n, role)
    <3>1. tranches' = [tranches EXCEPT ![n] =
                        DroppedRow(tranches[n], "cancelled")]
      BY <2>5 DEF CancelTranche, TypeOK, TrancheRow
    <3> QED
      BY <2>5, <3>1, OtherRows DEF CancelTranche
  <2>6. ASSUME NEW b \in BOOLEAN, tranches' = [tranches EXCEPT ![n].tt = b]
        PROVE  PaidRowsKept
    <3>1. \A m \in Paid(tranches) \ {n} : tranches'[m] = tranches[m]
      BY <2>6 DEF TypeOK, Paid
    <3>2. tranches'[n] = [tranches[n] EXCEPT !.tt = b]
      BY <2>6 DEF TypeOK
    <3> QED
      BY <3>1, <3>2, UnchangedRow DEF PaidRowsKept, Paid
  <2>7. CASE AttachTtCopy(n, role) \/ RemoveTtCopy(n, role)
    BY <2>6, <2>7 DEF AttachTtCopy, RemoveTtCopy
  <2>8. ASSUME NEW l \in Levels, UpdatePaymentDetails(n, l, role) PROVE PaidRowsKept
    BY <2>8, OtherRows DEF UpdatePaymentDetails
  <2>9. CASE PayTranche(n, role)
    BY <1>2, <2>9 DEF PayTranche
  <2>10. CASE RejectTranche(n, role)
    <3>1. tranches' = [tranches EXCEPT ![n] =
                        DroppedRow(tranches[n], "rejected")]
      BY <2>10 DEF RejectTranche, TypeOK, TrancheRow
    <3> QED
      BY <2>10, <3>1, OtherRows DEF RejectTranche
  <2> QED
    BY <1>3, <2>1, <2>2, <2>3, <2>4, <2>5, <2>7, <2>8, <2>9, <2>10 DEF TrancheStep
<1>4. ASSUME NEW role \in UserRole, BulkPay(role) PROVE PaidRowsKept
  <2>1. PICK n \in Nums :
          MarkPaid(n, [tranches[n] EXCEPT !.tt = TRUE, !.details = "complete"], role)
    BY <1>4 DEF BulkPay, Unpaid
  <2>2. [tranches[n] EXCEPT !.tt = TRUE, !.details = "complete"].status
          = tranches[n].status
    BY DEF TypeOK, TrancheRow
  <2> QED
    BY <1>2, <2>1, <2>2
<1>5. ASSUME NEW role \in UserRole, RequestStep(role), ~BulkPay(role)
      PROVE  tranches' = tranches
  BY <1>5
  DEF RequestStep, SavePaymentDetails, ProcessPayment, AttachRequestTtCopy,
      SetShipDate, HoldRequest, ResumeRequest, CancelRequest, RejectRequest,
      ReopenRequest, HomApprove, HomReject, Transition, UpdateRequest, SoftDelete
<1>6. ASSUME NEW role, NEW n, NEW side, AdjustmentStep(n, side, role)
      PROVE  tranches' = tranches
  BY <1>6 DEF AdjustmentStep, RaiseAdjustment, DecideAdjustment
<1>7. CASE UNCHANGED vars
  BY <1>1, <1>7 DEF vars
<1> QED
  BY <1>1, <1>3, <1>4, <1>5, <1>6, <1>7 DEF Next

(* No handler rewrites, revives or deletes a paid tranche.                 *)
THEOREM PaidRowsAreFinalCorrect == Spec => PaidRowsAreFinal
<1>1. TypeOK /\ [Next]_vars => [PaidRowsKept]_vars
  BY StepKeepsPaidRows
<1> QED
  BY <1>1, TypeCorrect, PTL DEF Spec, PaidRowsAreFinal

\* No step moves a file out of a terminal status.
LEMMA StepFreezesTerminal ==
  ASSUME TypeOK, [Next]_vars
  PROVE  TerminalStep
<1>1. SUFFICES ASSUME status \in TerminalStatuses
               PROVE  /\ tranches' = tranches
                      /\ \/ status' = status
                         \/ status = "cancelled_by_accounts" /\ status' = "reopened"
  BY DEF TerminalStep
<1>2. ASSUME NEW n \in Nums, NEW role, NEW row PROVE ~MarkPaid(n, row, role)
  BY <1>1 DEF MarkPaid, Ready, TerminalStatuses
<1>3. ASSUME NEW role \in UserRole, NEW n \in Nums PROVE ~TrancheStep(n, role)
  BY <1>1, <1>2
  DEF TrancheStep, UpdateTranche, AddTranche, ReleaseTranche, DeleteTranche,
      CancelTranche, AttachTtCopy, RemoveTtCopy, UpdatePaymentDetails,
      PayTranche, RejectTranche, AccountsMayTouch
<1>4. ASSUME NEW role, NEW target, Transition(target, role)
      PROVE  /\ tranches' = tranches /\ status' = target
             /\ status = "cancelled_by_accounts" /\ target = "reopened"
  BY <1>1, <1>4
  DEF Transition, TransitionAllowed, AuthorMoves, AccountsMoves, HomMoves,
      TerminalStatuses
<1>5. ASSUME NEW role \in UserRole PROVE ~BulkPay(role) /\ ~ProcessPayment(role)
  BY <1>1
  DEF BulkPay, AccountsMayTouch, ProcessPayment, TransitionAllowed, AuthorMoves,
      AccountsMoves, HomMoves, TerminalStatuses
<1>6. ASSUME NEW role \in UserRole, RequestStep(role)
      PROVE  /\ tranches' = tranches
             /\ \/ status' = status
                \/ status = "cancelled_by_accounts" /\ status' = "reopened"
  BY <1>4, <1>5, <1>6
  DEF RequestStep, SavePaymentDetails, AttachRequestTtCopy, SetShipDate,
      HoldRequest, ResumeRequest, CancelRequest, RejectRequest, ReopenRequest,
      HomApprove, HomReject, UpdateRequest, SoftDelete
<1>7. ASSUME NEW role, NEW n, NEW side, AdjustmentStep(n, side, role)
      PROVE  UNCHANGED <<status, tranches>>
  BY <1>7 DEF AdjustmentStep, RaiseAdjustment, DecideAdjustment
<1>8. CASE UNCHANGED vars
  BY <1>8 DEF vars
<1> QED
  BY <1>3, <1>6, <1>7, <1>8 DEF Next

(* A closed file keeps its tranches, and only reopens from an Accounts     *)
(* cancellation.                                                           *)
THEOREM TerminalFreezesTranchesCorrect == Spec => TerminalFreezesTranches
<1>1. TypeOK /\ [Next]_vars => [TerminalStep]_vars
  BY StepFreezesTerminal
<1> QED
  BY <1>1, TypeCorrect, PTL DEF Spec, TerminalFreezesTranches

--------------------------------------------------------------------------------
(* The refinement: every handler is a step of PaymentPromise or leaves     *)
(* status, lock and paid tranches alone.                                   *)

\* The initial state is an initial state of the promise.
LEMMA InitRefines == Init => Promise!PInit
<1> SUFFICES ASSUME Init PROVE Promise!PInit
  OBVIOUS
<1>1. Paid(tranches) = {}
  BY DEF Init, Paid, NewRow, NoRow
<1> QED
  BY <1>1 DEF Init, Promise!PInit

\* Paying a tranche is a payment of the promise.
LEMMA MarkPaidRefines ==
  ASSUME TypeOK, NEW n \in Nums, NEW role, NEW row, MarkPaid(n, row, role),
         row \in TrancheRow, row.status = tranches[n].status
  PROVE  Promise!Pay(n)
<1>1. \A m \in Nums : tranches'[m] =
        IF m = n THEN [row EXCEPT !.status = "paid"] ELSE tranches[m]
  BY DEF MarkPaid, Ready, TypeOK
<1>2. [row EXCEPT !.status = "paid"].status = "paid"
  BY DEF TrancheRow
<1>3. Paid(tranches)' = Paid(tranches) \cup {n}
  BY <1>1, <1>2 DEF Paid
<1>4. n \notin Paid(tranches) /\ status = "pending_payment"
  BY DEF MarkPaid, Ready, Paid
<1>5. Promise!Completed \/ UNCHANGED <<status, locked>>
  BY DEF MarkPaid, Ready, Complete, Promise!Completed
<1> QED
  BY <1>3, <1>4, <1>5 DEF Promise!Pay

\* A transition is a move of the promise.
LEMMA TransitionRefines ==
  ASSUME TypeOK, NEW role, NEW target \in RequestStatus \ {"payment_processed"},
         Transition(target, role)
  PROVE  Promise!PNext
<1>1. /\ <<status, target>> \in TriggerPairs
      /\ target \in {"hold_by_accounts", "rejected_by_accounts"} => Paid(tranches) = {}
      /\ status' = target /\ locked' = locked
      /\ Paid(tranches)' = Paid(tranches)
  BY DEF Transition, TransitionAllowed, TriggerPairs, AuthorMoves, AccountsMoves,
         HomMoves
<1>2. CASE status = "payment_processed"
  <2>1. target = "pending_payment"
    BY <1>1, <1>2 DEF TriggerPairs
  <2>2. Promise!Reopen
    BY <1>1, <1>2, <2>1 DEF Promise!Reopen
  <2> QED
    BY <2>2 DEF Promise!PNext
<1>3. CASE status # "payment_processed"
  <2>1. Promise!Move(target)
    BY <1>1, <1>3 DEF Promise!Move, Promise!TriggerPairs, TriggerPairs
  <2>2. target \in Promise!RequestStatus
    BY DEF Promise!RequestStatus, RequestStatus
  <2> QED
    BY <2>1, <2>2 DEF Promise!PNext
<1> QED
  BY <1>2, <1>3

(* A new row for a tranche that is and stays not paid.                     *)
LEMMA SamePaid ==
  ASSUME TypeOK, NEW n \in Nums, NEW row,
         tranches' = [tranches EXCEPT ![n] = row],
         tranches[n].status # "paid", row.status # "paid"
  PROVE  Paid(tranches)' = Paid(tranches)
BY DEF TypeOK, Paid

\* A tranche handler is a step of the promise or changes nothing it shows.
LEMMA TrancheStepRefines ==
  ASSUME TypeOK, NEW n \in Nums, NEW role \in UserRole, TrancheStep(n, role)
  PROVE  [Promise!PNext]_(Promise!pvars)
<1> USE DEF Promise!pvars
<1>1. tranches[n] \in TrancheRow
  BY DEF TypeOK
<1>2. ASSUME NEW a \in Amounts, UpdateTranche(n, a, role)
      PROVE  UNCHANGED Promise!pvars
  <2>1. [tranches[n] EXCEPT !.amount = a].status # "paid"
    BY <1>1, <1>2 DEF UpdateTranche, TrancheRow
  <2> QED
    BY <1>2, <2>1, SamePaid DEF UpdateTranche
<1>3. ASSUME NEW a \in Amounts, AddTranche(n, a, role)
      PROVE  Promise!Reopen \/ UNCHANGED Promise!pvars
  <2>1. tranches[n].status = "none"
    BY <1>3 DEF AddTranche, NextNumber, Rows, Nums
  <2>2. NewRow(a, n = 1).status # "paid"
    BY DEF NewRow
  <2>3. Paid(tranches)' = Paid(tranches)
    BY <1>3, <2>1, <2>2, SamePaid DEF AddTranche
  <2> QED
    BY <1>3, <2>3 DEF AddTranche, Promise!Reopen
<1>4. CASE ReleaseTranche(n, role)
  <2>1. [tranches[n] EXCEPT !.released = TRUE].status # "paid"
    BY <1>1, <1>4 DEF ReleaseTranche, TrancheRow
  <2>2. UNCHANGED Promise!pvars
    BY <1>4, <2>1, SamePaid DEF ReleaseTranche
  <2> QED
    BY <2>2
<1>5. CASE DeleteTranche(n, role)
  <2>1. NoRow.status # "paid"
    BY DEF NoRow
  <2>2. Paid(tranches)' = Paid(tranches)
    BY <1>5, <2>1, SamePaid DEF DeleteTranche
  <2>3. Promise!Finish \/ UNCHANGED Promise!pvars
    BY <1>5, <2>2 DEF DeleteTranche, Complete, Promise!Finish, Promise!Completed
  <2> QED
    BY <2>3 DEF Promise!PNext
<1>6. CASE CancelTranche(n, role)
  <2> DEFINE row == DroppedRow(tranches[n], "cancelled")
  <2>1. tranches' = [tranches EXCEPT ![n] = row] /\ row.status # "paid"
    BY <1>1, <1>6 DEF CancelTranche, TypeOK, TrancheRow
  <2> HIDE DEF row
  <2>2. UNCHANGED Promise!pvars
    BY <1>6, <2>1, SamePaid DEF CancelTranche
  <2> QED
    BY <2>2
<1>7. CASE AttachTtCopy(n, role) \/ RemoveTtCopy(n, role)
  <2>1. PICK b \in BOOLEAN : tranches' = [tranches EXCEPT ![n].tt = b]
    BY <1>7 DEF AttachTtCopy, RemoveTtCopy
  <2>2. \A m \in Nums : tranches'[m].status = tranches[m].status
    BY <2>1 DEF TypeOK, TrancheRow
  <2>3. Paid(tranches)' = Paid(tranches)
    BY <2>2 DEF Paid
  <2> QED
    BY <1>7, <2>3 DEF AttachTtCopy, RemoveTtCopy
<1>8. ASSUME NEW l \in Levels, UpdatePaymentDetails(n, l, role)
      PROVE  UNCHANGED Promise!pvars
  <2>1. [tranches[n] EXCEPT !.details = l].status # "paid"
    BY <1>1, <1>8 DEF UpdatePaymentDetails, TrancheRow
  <2> QED
    BY <1>8, <2>1, SamePaid DEF UpdatePaymentDetails
<1>9. CASE PayTranche(n, role)
  BY <1>1, <1>9, MarkPaidRefines DEF PayTranche, Promise!PNext
<1>10. CASE RejectTranche(n, role)
  <2> DEFINE row == DroppedRow(tranches[n], "rejected")
  <2>1. tranches' = [tranches EXCEPT ![n] = row] /\ row.status # "paid"
    BY <1>1, <1>10 DEF RejectTranche, TypeOK, TrancheRow
  <2> HIDE DEF row
  <2>2. UNCHANGED Promise!pvars
    BY <1>10, <2>1, SamePaid DEF RejectTranche
  <2> QED
    BY <2>2
<1> QED
  BY <1>2, <1>3, <1>4, <1>5, <1>6, <1>7, <1>8, <1>9, <1>10
  DEF TrancheStep, Promise!PNext

\* A request handler is a step of the promise or changes nothing it shows.
LEMMA RequestStepRefines ==
  ASSUME TypeOK, NEW role \in UserRole, RequestStep(role)
  PROVE  [Promise!PNext]_(Promise!pvars)
<1> USE DEF Promise!pvars
<1>1. CASE BulkPay(role)
  <2>1. PICK n \in Nums :
          MarkPaid(n, [tranches[n] EXCEPT !.tt = TRUE, !.details = "complete"], role)
    BY <1>1 DEF BulkPay, Unpaid
  <2> DEFINE row == [tranches[n] EXCEPT !.tt = TRUE, !.details = "complete"]
  <2>2. row \in TrancheRow /\ row.status = tranches[n].status
    BY DEF TypeOK, TrancheRow, Level
  <2>3. Promise!Pay(n)
    BY <2>1, <2>2, MarkPaidRefines
  <2> QED
    BY <2>3 DEF Promise!PNext
<1>2. CASE ProcessPayment(role)
  <2>1. status = "pending_payment"
    BY <1>2 DEF ProcessPayment, TransitionAllowed, AuthorMoves, AccountsMoves, HomMoves
  <2>2. Paid(tranches)' = Paid(tranches)
    BY <1>2 DEF ProcessPayment, Paid
  <2>3. Promise!Finish
    BY <1>2, <2>1, <2>2 DEF ProcessPayment, Promise!Finish, Promise!Completed
  <2> QED
    BY <2>3 DEF Promise!PNext
<1>3. ASSUME NEW target \in RequestStatus \ {"payment_processed"},
             Transition(target, role)
      PROVE  Promise!PNext
  BY <1>3, TransitionRefines
<1>4. ASSUME UNCHANGED <<status, locked, tranches>>
      PROVE  UNCHANGED Promise!pvars
  BY <1>4 DEF Paid
<1> QED
  BY <1>1, <1>2, <1>3, <1>4
  DEF RequestStep, SavePaymentDetails, AttachRequestTtCopy, SetShipDate,
      HoldRequest, ResumeRequest, CancelRequest, RejectRequest, ReopenRequest,
      HomApprove, HomReject, UpdateRequest, SoftDelete, RequestStatus

\* Every step is a step of the promise or changes nothing it shows.
LEMMA NextRefines ==
  ASSUME TypeOK, [Next]_vars
  PROVE  [Promise!PNext]_(Promise!pvars)
<1>1. ASSUME UNCHANGED <<status, locked, tranches>>
      PROVE  UNCHANGED Promise!pvars
  BY <1>1 DEF Promise!pvars, Paid
<1>2. CASE UNCHANGED vars
  BY <1>1, <1>2 DEF vars
<1>3. ASSUME NEW role, NEW n, NEW side, AdjustmentStep(n, side, role)
      PROVE  UNCHANGED <<status, locked, tranches>>
  BY <1>3 DEF AdjustmentStep, RaiseAdjustment, DecideAdjustment
<1> QED
  BY <1>1, <1>2, <1>3, TrancheStepRefines, RequestStepRefines DEF Next

(* The handlers implement the promise about money: one payment at a time,  *)
(* only from the payment queue, never taken back, and no hold or rejection *)
(* of the whole file after one.                                            *)
THEOREM Refinement == Spec => PromiseKept
<1>1. TypeOK /\ [Next]_vars => [Promise!PNext]_(Promise!pvars)
  BY NextRefines
<1> QED
  BY <1>1, InitRefines, TypeCorrect, PTL DEF Spec, PromiseKept, Promise!PSpec

--------------------------------------------------------------------------------
(* The books: the deposit, and what the screens say of it.                 *)

\* What a row adds to the deposit.
Weight(row) == IF row.status \in {"unpaid", "paid"} THEN row.amount ELSE 0

\* The live sum adds up the weights of the rows.
LEMMA LiveSumIs ==
  ASSUME NEW t \in [Nums -> TrancheRow]
  PROVE  /\ IsFiniteSet(Nums)
         /\ LiveSum(t) = SumOn(LiveAmounts(t), Nums) /\ LiveSum(t) \in Nat
         /\ \A n \in Nums : LiveAmounts(t)[n] = Weight(t[n]) /\ Weight(t[n]) \in Nat
<1>1. IsFiniteSet(Nums)
  BY ConstantsOK, FS_Interval DEF Nums
<1>2. DOMAIN LiveAmounts(t) = Nums
  BY DEF LiveAmounts
<1>3. LiveSum(t) = SumOn(LiveAmounts(t), Nums)
  BY <1>2, FoldIsSum DEF LiveSum
<1>4. \A n \in Nums : LiveAmounts(t)[n] = Weight(t[n]) /\ Weight(t[n]) \in Nat
  BY DEF LiveAmounts, Live, Weight, TrancheRow
<1>5. SumOn(LiveAmounts(t), Nums) \in Nat
  BY <1>1, <1>4, Bounded
<1> QED
  BY <1>1, <1>3, <1>4, <1>5

\* A change of one row moves the live sum by what the row weighs more or less.
LEMMA RowMovesSum ==
  ASSUME NEW t \in [Nums -> TrancheRow], NEW n \in Nums, NEW row \in TrancheRow
  PROVE  /\ LiveSum(t) \in Nat /\ LiveSum([t EXCEPT ![n] = row]) \in Nat
         /\ Weight(row) \in Nat /\ Weight(t[n]) \in Nat
         /\ LiveSum([t EXCEPT ![n] = row]) + Weight(t[n]) = LiveSum(t) + Weight(row)
<1> DEFINE u == [t EXCEPT ![n] = row]
           f == LiveAmounts(t)
           g == LiveAmounts(u)
<1>1. u \in [Nums -> TrancheRow] /\ u[n] = row /\ \A m \in Nums \ {n} : u[m] = t[m]
  OBVIOUS
<1> HIDE DEF u
<1>2. /\ LiveSum(t) = SumOn(f, Nums) /\ LiveSum(t) \in Nat
      /\ LiveSum(u) = SumOn(g, Nums) /\ LiveSum(u) \in Nat /\ IsFiniteSet(Nums)
      /\ \A m \in Nums : f[m] = Weight(t[m]) /\ Weight(t[m]) \in Nat
      /\ \A m \in Nums : g[m] = Weight(u[m]) /\ Weight(u[m]) \in Nat
  BY <1>1, LiveSumIs
<1> HIDE DEF f, g
<1>3. /\ f[n] = Weight(t[n]) /\ f[n] \in Nat /\ g[n] = Weight(row) /\ g[n] \in Nat
      /\ \A m \in Nums \ {n} : f[m] \in Nat /\ g[m] = f[m]
  BY <1>1, <1>2
<1>4. SumOn(g, Nums) + f[n] = SumOn(f, Nums) + g[n]
  BY <1>2, <1>3, OneChange
<1> QED
  BY <1>2, <1>3, <1>4 DEF u

\* What is known of the tranches whatever the books say: the first one was released
\* when it was raised.
FirstReleased == tranches[1].status # "none" => tranches[1].released
Known == TypeOK /\ total \in Totals /\ FirstReleased

\* A row that keeps its books keeps those of the request.
LEMMA RowLedger ==
  ASSUME Known, Ledger, NEW n \in Nums, NEW row \in TrancheRow,
         tranches' = [tranches EXCEPT ![n] = row], total' = total,
         \/ deposit' = LiveSum(tranches')
         \/ deposit' = deposit /\ Weight(row) = Weight(tranches[n]),
         LiveSum(tranches) + Weight(row) <= total + Weight(tranches[n])
  PROVE  Ledger'
<1>1. total \in Nat
  BY ConstantsOK DEF Known
<1>2. /\ LiveSum(tranches) \in Nat /\ LiveSum(tranches') \in Nat
      /\ Weight(row) \in Nat /\ Weight(tranches[n]) \in Nat
      /\ LiveSum(tranches') + Weight(tranches[n]) = LiveSum(tranches) + Weight(row)
  BY RowMovesSum DEF Known, TypeOK
<1>3. LiveSum(tranches') <= total
  BY <1>1, <1>2
<1>4. deposit' = LiveSum(tranches')
  <2>1. ASSUME Weight(row) = Weight(tranches[n]) PROVE LiveSum(tranches') = LiveSum(tranches)
    BY <1>2, <2>1
  <2> QED
    BY <2>1 DEF Ledger
<1> QED
  BY <1>3, <1>4 DEF Ledger

\* A row that weighs no more than before is within the total if the books balance.
LEMMA LighterLedger ==
  ASSUME Known, Ledger, NEW n \in Nums, NEW row \in TrancheRow,
         tranches' = [tranches EXCEPT ![n] = row], total' = total,
         \/ deposit' = LiveSum(tranches') /\ Weight(row) = 0
         \/ deposit' = deposit /\ Weight(row) = Weight(tranches[n])
  PROVE  Ledger'
<1>1. total \in Nat /\ LiveSum(tranches) \in Nat /\ LiveSum(tranches) <= total
  BY ConstantsOK, RowMovesSum DEF Known, TypeOK, Ledger
<1>2. Weight(row) \in Nat /\ Weight(tranches[n]) \in Nat
  BY RowMovesSum DEF Known, TypeOK
<1>3. LiveSum(tranches) + Weight(row) <= total + Weight(tranches[n])
  BY <1>1, <1>2
<1> QED
  BY <1>3, RowLedger

\* A payment moves no money unless it revives a cancelled tranche.
LEMMA MarkPaidLedger ==
  ASSUME Known, Ledger, ~RevivesCancelled, NEW n \in Nums, NEW row \in TrancheRow, NEW role,
         row.status = tranches[n].status, row.amount = tranches[n].amount,
         MarkPaid(n, row, role)
  PROVE  Ledger'
<1> DEFINE new == [row EXCEPT !.status = "paid"]
<1>1. /\ new \in TrancheRow /\ new.status = "paid" /\ new.amount = row.amount
      /\ tranches' = [tranches EXCEPT ![n] = new] /\ tranches'[n] = new
  BY DEF MarkPaid, TrancheRow, TrancheStatus, Known, TypeOK
<1> HIDE DEF new
<1>2. tranches[n].status = "unpaid"
  <2>1. tranches[n].status \in {"unpaid", "cancelled"}
    BY DEF MarkPaid, TrancheRow, TrancheStatus
  <2>2. n \in Paid(tranches)'
    BY <1>1 DEF Paid
  <2> QED
    BY <2>1, <2>2 DEF RevivesCancelled
<1>3. Weight(new) = Weight(tranches[n])
  BY <1>1, <1>2 DEF Weight
<1>4. deposit' = deposit /\ total' = total
  BY DEF MarkPaid
<1> QED
  BY <1>1, <1>3, <1>4, LighterLedger

\* The tranche handlers keep the ledger.
LEMMA TrancheStepLedger ==
  ASSUME Known, Ledger, ~RevivesCancelled, NEW n \in Nums, NEW role \in UserRole,
         TrancheStep(n, role)
  PROVE  Ledger'
<1>1. /\ tranches \in [Nums -> TrancheRow] /\ tranches[n] \in TrancheRow
      /\ tranches[n] \in [status : TrancheStatus, amount : Nat, released : BOOLEAN,
                          tt : BOOLEAN, details : Level, dropped : BOOLEAN]
  BY DEF Known, TypeOK, TrancheRow
<1>2. ASSUME NEW a \in Amounts, UpdateTranche(n, a, role) PROVE Ledger'
  <2> DEFINE row == [tranches[n] EXCEPT !.amount = a]
  <2>1. /\ tranches' = [tranches EXCEPT ![n] = row] /\ total' = total
        /\ deposit' = LiveSum(tranches')
    BY <1>2 DEF UpdateTranche, SyncTotals
  <2>2. a \in Nat
    BY ConstantsOK
  <2>3. row \in TrancheRow /\ row.status = tranches[n].status /\ row.amount = a
    BY <1>1, <2>2 DEF TrancheRow
  <2> HIDE DEF row
  <2>4. CASE tranches[n].status = "unpaid"
    <3>1. Weight(row) = a /\ Weight(tranches[n]) = tranches[n].amount
      BY <2>3, <2>4 DEF Weight
    <3>2. LiveSum(tranches) + a <= total + tranches[n].amount
      BY <1>2 DEF UpdateTranche
    <3>3. LiveSum(tranches) + Weight(row) <= total + Weight(tranches[n])
      BY <3>1, <3>2, Zenon
    <3> QED
      BY <2>1, <2>3, <3>3, RowLedger
  <2>5. CASE tranches[n].status = "cancelled"
    <3>1. Weight(row) = 0
      BY <2>3, <2>5 DEF Weight
    <3> QED
      BY <2>1, <2>3, <3>1, LighterLedger
  <2> QED
    BY <1>2, <2>4, <2>5 DEF UpdateTranche
<1>3. ASSUME NEW a \in Amounts, AddTranche(n, a, role) PROVE Ledger'
  <2> DEFINE row == NewRow(a, n = 1)
  <2>1. /\ tranches' = [tranches EXCEPT ![n] = row] /\ total' = total
        /\ deposit' = LiveSum(tranches') /\ LiveSum(tranches) + a <= total
    BY <1>3 DEF AddTranche, SyncTotals
  <2>2. tranches[n].status = "none"
    BY <1>3 DEF AddTranche, NextNumber, Rows, Nums
  <2>3. a \in Nat /\ total \in Nat /\ LiveSum(tranches) \in Nat
    BY <1>1, ConstantsOK, LiveSumIs DEF Known
  <2>4. row \in TrancheRow /\ Weight(row) = a
    BY <2>3 DEF NewRow, TrancheRow, TrancheStatus, Level, Weight
  <2>5. Weight(tranches[n]) = 0
    BY <2>2 DEF Weight
  <2> HIDE DEF row
  <2>6. LiveSum(tranches) + Weight(row) <= total + Weight(tranches[n])
    BY <2>1, <2>3, <2>4, <2>5
  <2> QED
    BY <2>1, <2>4, <2>6, RowLedger
<1>4. ASSUME NEW row \in TrancheRow, tranches' = [tranches EXCEPT ![n] = row],
             row.status = tranches[n].status, row.amount = tranches[n].amount,
             UNCHANGED <<deposit, total>>
      PROVE  Ledger'
  <2>1. Weight(row) = Weight(tranches[n])
    BY <1>4 DEF Weight
  <2> QED
    BY <1>4, <2>1, LighterLedger
<1>5. CASE ReleaseTranche(n, role)
  <2> DEFINE row == [tranches[n] EXCEPT !.released = TRUE]
  <2>1. tranches' = [tranches EXCEPT ![n] = row] /\ UNCHANGED <<deposit, total>>
    BY <1>5 DEF ReleaseTranche
  <2>2. row \in TrancheRow /\ row.status = tranches[n].status /\ row.amount = tranches[n].amount
    BY <1>1 DEF TrancheRow
  <2> HIDE DEF row
  <2> QED
    BY <1>4, <2>1, <2>2
<1>6. ASSUME NEW row \in TrancheRow, row.status \in {"none", "rejected", "cancelled"},
             tranches' = [tranches EXCEPT ![n] = row], deposit' = LiveSum(tranches'),
             total' = total
      PROVE  Ledger'
  <2>1. Weight(row) = 0
    BY <1>6 DEF Weight
  <2> QED
    BY <1>6, <2>1, LighterLedger
<1>7. CASE DeleteTranche(n, role)
  <2>1. NoRow \in TrancheRow /\ NoRow.status = "none"
    BY DEF NoRow, TrancheRow, TrancheStatus, Level
  <2> QED
    BY <1>6, <1>7, <2>1 DEF DeleteTranche, SyncTotals
<1>8. ASSUME NEW st \in {"rejected", "cancelled"},
             tranches' = [tranches EXCEPT ![n] = DroppedRow(@, st)],
             deposit' = LiveSum(tranches'), total' = total
      PROVE  Ledger'
  <2> DEFINE row == DroppedRow(tranches[n], st)
  <2>1. tranches' = [tranches EXCEPT ![n] = row]
    BY <1>1, <1>8
  <2>2. row \in TrancheRow /\ row.status = st
    BY <1>1 DEF TrancheRow, TrancheStatus
  <2> HIDE DEF row
  <2> QED
    BY <1>6, <1>8, <2>1, <2>2
<1>9. CASE CancelTranche(n, role)
  BY <1>8, <1>9 DEF CancelTranche, SyncTotals
<1>10. CASE RejectTranche(n, role)
  BY <1>8, <1>10 DEF RejectTranche, SyncTotals
<1>11. CASE AttachTtCopy(n, role) \/ RemoveTtCopy(n, role)
  <2>1. PICK b \in BOOLEAN : tranches' = [tranches EXCEPT ![n].tt = b]
    BY <1>11 DEF AttachTtCopy, RemoveTtCopy
  <2> DEFINE row == [tranches[n] EXCEPT !.tt = b]
  <2>2. row \in TrancheRow /\ row.status = tranches[n].status /\ row.amount = tranches[n].amount
    BY <1>1 DEF TrancheRow
  <2>3. tranches' = [tranches EXCEPT ![n] = row] /\ UNCHANGED <<deposit, total>>
    BY <1>11, <2>1 DEF AttachTtCopy, RemoveTtCopy
  <2> HIDE DEF row
  <2> QED
    BY <1>4, <2>2, <2>3
<1>12. ASSUME NEW l \in Levels, UpdatePaymentDetails(n, l, role) PROVE Ledger'
  <2> DEFINE row == [tranches[n] EXCEPT !.details = l]
  <2>1. l \in Level
    BY ConstantsOK
  <2>2. row \in TrancheRow /\ row.status = tranches[n].status /\ row.amount = tranches[n].amount
    BY <1>1, <2>1 DEF TrancheRow
  <2>3. tranches' = [tranches EXCEPT ![n] = row] /\ UNCHANGED <<deposit, total>>
    BY <1>12 DEF UpdatePaymentDetails
  <2> HIDE DEF row
  <2> QED
    BY <1>4, <2>2, <2>3
<1>13. CASE PayTranche(n, role)
  BY <1>1, <1>13, MarkPaidLedger DEF PayTranche
<1> QED
  BY <1>2, <1>3, <1>5, <1>7, <1>9, <1>10, <1>11, <1>12, <1>13 DEF TrancheStep

\* Every step keeps the ledger, but for the two known ways around it.
LEMMA NextLedger ==
  ASSUME Known, Ledger, [Next]_vars, ~RevivesCancelled, ~FormWritten
  PROVE  Ledger'
<1>1. ASSUME UNCHANGED <<deposit, total, tranches>> PROVE Ledger'
  BY <1>1 DEF Ledger
<1>2. ASSUME NEW role \in UserRole, BulkPay(role) PROVE Ledger'
  <2>1. PICK n \in Nums :
          MarkPaid(n, [tranches[n] EXCEPT !.tt = TRUE, !.details = "complete"], role)
    BY <1>2 DEF BulkPay, Unpaid
  <2> DEFINE row == [tranches[n] EXCEPT !.tt = TRUE, !.details = "complete"]
  <2>2. row \in TrancheRow /\ row.status = tranches[n].status /\ row.amount = tranches[n].amount
    BY DEF Known, TypeOK, TrancheRow, Level
  <2> QED
    BY <2>1, <2>2, MarkPaidLedger
<1>3. ASSUME NEW role \in UserRole, RequestStep(role), ~BulkPay(role)
      PROVE  UNCHANGED <<deposit, total, tranches>>
  <2>1. ASSUME NEW d, NEW t, UpdateRequest(d, t, role)
        PROVE  UNCHANGED <<deposit, total, tranches>>
    <3>1. tranches' = tranches
      BY <2>1 DEF UpdateRequest
    <3>2. <<deposit, total>>' = <<deposit, total>>
      BY <3>1 DEF FormWritten
    <3> QED
      BY <3>1, <3>2
  <2> QED
    BY <1>3, <2>1
    DEF RequestStep, SavePaymentDetails, ProcessPayment, AttachRequestTtCopy, SetShipDate,
        HoldRequest, ResumeRequest, CancelRequest, RejectRequest, ReopenRequest, HomApprove,
        HomReject, Transition, SoftDelete
<1>4. ASSUME NEW role, NEW n, NEW side, AdjustmentStep(n, side, role)
      PROVE  UNCHANGED <<deposit, total, tranches>>
  BY <1>4 DEF AdjustmentStep, RaiseAdjustment, DecideAdjustment
<1>5. CASE UNCHANGED vars
  BY <1>1, <1>5 DEF vars
<1> QED
  BY <1>1, <1>2, <1>3, <1>4, <1>5, TrancheStepLedger DEF Next

\* The tranche handlers leave the first tranche released.
LEMMA TrancheStepReleased ==
  ASSUME Known, NEW n \in Nums, NEW role \in UserRole, TrancheStep(n, role)
  PROVE  FirstReleased'
<1>1. tranches \in [Nums -> TrancheRow] /\ 1 \in Nums
  BY ConstantsOK DEF Known, TypeOK, Nums
<1>2. ASSUME NEW row, tranches' = [tranches EXCEPT ![n] = row],
             \/ n = 1 => row.status = "none" \/ row.released
             \/ tranches[n].status # "none" /\ row.released = tranches[n].released
      PROVE  FirstReleased'
  BY <1>1, <1>2 DEF Known, FirstReleased
<1>3. tranches[n] \in [status : TrancheStatus, amount : Nat, released : BOOLEAN,
                       tt : BOOLEAN, details : Level, dropped : BOOLEAN]
  BY <1>1 DEF TrancheRow
<1>4. ASSUME NEW a, UpdateTranche(n, a, role) PROVE FirstReleased'
  <2>1. [tranches[n] EXCEPT !.amount = a].released = tranches[n].released
    BY <1>3
  <2> QED
    BY <1>2, <1>4, <2>1 DEF UpdateTranche
<1>5. ASSUME NEW a, AddTranche(n, a, role) PROVE FirstReleased'
  <2>1. n = 1 => NewRow(a, n = 1).released
    BY DEF NewRow
  <2> QED
    BY <1>2, <1>5, <2>1 DEF AddTranche
<1>6. CASE ReleaseTranche(n, role)
  <2>1. [tranches[n] EXCEPT !.released = TRUE].released
    BY <1>3
  <2> QED
    BY <1>2, <1>6, <2>1 DEF ReleaseTranche
<1>7. CASE DeleteTranche(n, role)
  <2>1. NoRow.status = "none"
    BY DEF NoRow
  <2> QED
    BY <1>2, <1>7, <2>1 DEF DeleteTranche
<1>8. ASSUME NEW st, DroppedRow(tranches[n], st).released = tranches[n].released,
             tranches' = [tranches EXCEPT ![n] = DroppedRow(@, st)],
             tranches[n].status \in {"unpaid", "cancelled"}
      PROVE  FirstReleased'
  BY <1>1, <1>2, <1>8
<1>9. \A st : DroppedRow(tranches[n], st).released = tranches[n].released
  BY <1>3
<1>10. CASE CancelTranche(n, role) \/ RejectTranche(n, role)
  BY <1>8, <1>9, <1>10 DEF CancelTranche, RejectTranche
<1>11. CASE AttachTtCopy(n, role) \/ RemoveTtCopy(n, role)
  <2>1. PICK b \in BOOLEAN : tranches' = [tranches EXCEPT ![n].tt = b]
    BY <1>11 DEF AttachTtCopy, RemoveTtCopy
  <2> DEFINE row == [tranches[n] EXCEPT !.tt = b]
  <2>2. tranches' = [tranches EXCEPT ![n] = row] /\ row.released = tranches[n].released
    BY <1>3, <2>1
  <2>3. tranches[n].status # "none"
    BY <1>11 DEF AttachTtCopy, RemoveTtCopy
  <2> HIDE DEF row
  <2> QED
    BY <1>2, <2>2, <2>3
<1>12. ASSUME NEW l, UpdatePaymentDetails(n, l, role) PROVE FirstReleased'
  <2>1. [tranches[n] EXCEPT !.details = l].released = tranches[n].released
    BY <1>3
  <2> QED
    BY <1>2, <1>12, <2>1 DEF UpdatePaymentDetails
<1>13. CASE PayTranche(n, role)
  <2>1. [tranches[n] EXCEPT !.status = "paid"].released = tranches[n].released
    BY <1>3
  <2> QED
    BY <1>2, <1>13, <2>1 DEF PayTranche, MarkPaid
<1> QED
  BY <1>4, <1>5, <1>6, <1>7, <1>10, <1>11, <1>12, <1>13 DEF TrancheStep

\* What is known of the tranches holds initially and through every step.
LEMMA InitKnown == Init => Known
<1> SUFFICES ASSUME Init PROVE Known
  OBVIOUS
<1>1. 1 \in Nums
  BY ConstantsOK DEF Nums
<1>2. PICK k \in Nums, a \in [Nums -> Amounts] :
        tranches = [n \in Nums |-> IF n <= k THEN NewRow(a[n], n = 1) ELSE NoRow]
  BY DEF Init
<1>3. tranches[1] = NewRow(a[1], TRUE)
  <2>1. 1 <= k
    BY <1>1 DEF Nums
  <2> QED
    BY <1>1, <1>2, <2>1 DEF NewRow
<1>4. tranches[1].released
  BY <1>3 DEF NewRow
<1> QED
  BY <1>4, InitTypeOK DEF Known, FirstReleased, Init

LEMMA NextKnown == Known /\ [Next]_vars => Known'
<1> SUFFICES ASSUME Known, [Next]_vars PROVE Known'
  OBVIOUS
<1>1. TypeOK'
  BY NextTypeOK DEF Known
<1>2. 1 \in Nums /\ tranches \in [Nums -> TrancheRow]
  BY ConstantsOK DEF Known, TypeOK, Nums
<1>3. ASSUME total' = total, tranches' = tranches PROVE total' \in Totals /\ FirstReleased'
  BY <1>3 DEF Known, FirstReleased
<1>4. ASSUME NEW role \in UserRole, NEW n \in Nums, TrancheStep(n, role)
      PROVE  total' \in Totals /\ FirstReleased'
  <2>1. total' = total
    BY <1>4 DEF TrancheStep, UpdateTranche, AddTranche, ReleaseTranche, DeleteTranche,
        CancelTranche, AttachTtCopy, RemoveTtCopy, UpdatePaymentDetails, PayTranche,
        MarkPaid, RejectTranche
  <2> QED
    BY <1>4, <2>1, TrancheStepReleased DEF Known
<1>5. ASSUME NEW role \in UserRole, BulkPay(role) PROVE total' \in Totals /\ FirstReleased'
  <2>1. PICK n \in Nums :
          MarkPaid(n, [tranches[n] EXCEPT !.tt = TRUE, !.details = "complete"], role)
    BY <1>5 DEF BulkPay, Unpaid
  <2> DEFINE row == [tranches[n] EXCEPT !.tt = TRUE, !.details = "complete"]
             new == [row EXCEPT !.status = "paid"]
  <2>2. /\ row.status = tranches[n].status /\ new.released = tranches[n].released
        /\ row.status # "none"
    BY <1>2, <2>1 DEF TrancheRow, MarkPaid
  <2>3. tranches' = [tranches EXCEPT ![n] = new] /\ total' = total
    BY <2>1 DEF MarkPaid
  <2> HIDE DEF new, row
  <2> QED
    BY <1>2, <2>2, <2>3 DEF Known, FirstReleased
<1>6. ASSUME NEW role \in UserRole, RequestStep(role), ~BulkPay(role)
      PROVE  total' \in Totals /\ FirstReleased'
  <2>1. total' \in Totals /\ tranches' = tranches
    BY <1>6
    DEF RequestStep, SavePaymentDetails, ProcessPayment, AttachRequestTtCopy, SetShipDate,
        HoldRequest, ResumeRequest, CancelRequest, RejectRequest, ReopenRequest, HomApprove,
        HomReject, Transition, SoftDelete, UpdateRequest, Known
  <2> QED
    BY <2>1 DEF Known, FirstReleased
<1>7. ASSUME NEW role, NEW n, NEW side, AdjustmentStep(n, side, role)
      PROVE  total' \in Totals /\ FirstReleased'
  BY <1>3, <1>7 DEF AdjustmentStep, RaiseAdjustment, DecideAdjustment
<1>8. ASSUME UNCHANGED vars PROVE total' \in Totals /\ FirstReleased'
  <2>1. total' = total /\ tranches' = tranches
    BY <1>8 DEF vars
  <2> QED
    BY <1>3, <2>1
<1> QED
  BY <1>1, <1>4, <1>5, <1>6, <1>7, <1>8 DEF Next, Known

\* The deposit of a balanced request is what is unpaid of it and what was paid.
LEMMA LiveIsOpenAndPaid ==
  ASSUME Known
  PROVE  LiveSum(tranches) = AmountOf(Unpaid(tranches)) + AmountOf(Paid(tranches))
<1> DEFINE amount == [n \in Nums |-> tranches[n].amount]
           Part(nums) == [n \in Nums |-> IF n \in nums THEN amount[n] ELSE 0]
           live == LiveAmounts(tranches)
           unpaid == Part(Unpaid(tranches))
           paid == Part(Paid(tranches))
<1>1. tranches \in [Nums -> TrancheRow]
  BY DEF Known, TypeOK
<1>2. IsFiniteSet(Nums) /\ LiveSum(tranches) = SumOn(live, Nums)
  BY <1>1, LiveSumIs
<1>3. \A n \in Nums : amount[n] \in Nat
  BY <1>1 DEF TrancheRow
<1>4. \A n \in Nums : unpaid[n] \in Nat /\ paid[n] \in Nat /\ live[n] = unpaid[n] + paid[n]
  BY <1>1, <1>3 DEF LiveAmounts, Live, Unpaid, Paid
<1>5. Unpaid(tranches) \in SUBSET Nums /\ Paid(tranches) \in SUBSET Nums
  BY DEF Unpaid, Paid
<1>6. /\ AmountOf(Unpaid(tranches)) = SumOn(amount, Unpaid(tranches))
      /\ AmountOf(Paid(tranches)) = SumOn(amount, Paid(tranches))
  BY DEF AmountOf, SumOn
<1> HIDE DEF amount
<1>7. ASSUME NEW nums \in SUBSET Nums PROVE SumOn(amount, nums) = SumOn(Part(nums), Nums)
  BY <1>2, <1>3, SumOnPart
<1>8. /\ SumOn(amount, Unpaid(tranches)) = SumOn(unpaid, Nums)
      /\ SumOn(amount, Paid(tranches)) = SumOn(paid, Nums)
  BY <1>5, <1>7
<1> HIDE DEF live, unpaid, paid
<1>9. SumOn(live, Nums) = SumOn(unpaid, Nums) + SumOn(paid, Nums)
  BY <1>2, <1>4, SumsAdd
<1> QED
  BY <1>2, <1>6, <1>8, <1>9

\* Screens over a request whose ledger is right agree with each other.
LEMMA LedgerAddsUp == Known /\ Ledger => ScreensAddUp
<1> SUFFICES ASSUME Known, Ledger PROVE ScreensAddUp
  OBVIOUS
<1>1. /\ tranches \in [Nums -> TrancheRow] /\ deposit \in Nat
      /\ deposit = AmountOf(Unpaid(tranches)) + AmountOf(Paid(tranches))
  BY LiveSumIs, LiveIsOpenAndPaid DEF Known, TypeOK, Ledger
<1>2. ASSUME ~deleted, status \notin DashboardExcludes
      PROVE  Raised = AgeingSheet + AmountOf(Paid(tranches))
  <2>1. AgeingPaymentRows = Unpaid(tranches) /\ Raised = deposit
    BY <1>2 DEF AgeingPaymentRows, Raised
  <2> QED
    BY <1>1, <2>1 DEF AgeingSheet
<1>3. /\ ProjectionDashboard(Raised + 1).actual = Raised
      /\ Trend(Raised + 1).variance = 1 /\ Trend(Raised + 1).suggested = Raised
  <2>1. Raised \in Nat
    BY <1>1 DEF Raised
  <2>2. Actuals = Raised
    BY DEF Actuals, Raised, ProjectionExcludes, DashboardExcludes, TrackerExcludes
  <2> HIDE DEF Raised, Actuals
  <2> QED
    BY <2>1, <2>2 DEF ProjectionDashboard, Trend
<1>4. TrackerRows = WeeklyRows
  BY DEF TrackerRows, WeeklyRows
<1>5. ASSUME status # "rejected_by_accounts" PROVE TrackerRows = AgeingPaymentRows
  BY <1>5 DEF TrackerRows, AgeingPaymentRows, DashboardExcludes
<1>6. ASSUME InPendingQueue
      PROVE  /\ AmountPayable = AmountOf(TrackerRows)
             /\ \A n \in TrackerRows : tranches[n].released \/ n \in PendingRelease
  <2>1. TrackerRows = Unpaid(tranches)
    BY <1>6 DEF InPendingQueue, TrackerRows, TrackerExcludes
  <2>2. AmountPayable = AmountOf(TrackerRows)
    BY <1>6, <2>1 DEF AmountPayable
  <2>3. ASSUME NEW n \in Unpaid(tranches), ~tranches[n].released PROVE n > 1
    <3>1. n \in Nums /\ tranches[n].status = "unpaid"
      BY DEF Unpaid
    <3>2. n # 1
      BY <2>3, <3>1 DEF Known, FirstReleased
    <3> QED
      BY <3>1, <3>2, ConstantsOK DEF Nums
  <2> QED
    BY <1>6, <2>1, <2>2, <2>3 DEF PendingRelease
<1>7. ASSUME status # "reopened"
      PROVE  CountFor({}) = CountFor(UNION {QueueKpis[c] : c \in Cards})
  <2>1. ASSUME ~deleted PROVE status \in UNION {QueueKpis[c] : c \in Cards}
    <3>1. PICK card \in DOMAIN QueueKpis : status \in QueueKpis[card]
      BY <1>7 DEF Known, TypeOK, RequestStatus, QueueKpis
    <3>2. card \in Cards
      BY <2>1, <3>1 DEF Cards
    <3> QED
      BY <3>1, <3>2
  <2> QED
    BY <2>1 DEF CountFor, Filtered
<1>8. ASSUME InPendingQueue \/ InHomQueue
      PROVE  Raised \in BankLedger /\ <<Raised, status>> \in SupplierReport
  <2>1. ~deleted /\ status \in {"pending_payment", "pending_hom_approval"}
    BY <1>8 DEF InPendingQueue, InHomQueue, Listed, Filtered
  <2>2. Raised = deposit
    BY <2>1 DEF Raised, DashboardExcludes, TrackerExcludes
  <2> QED
    BY <2>1, <2>2 DEF BankLedger, SupplierReport
<1> QED
  BY <1>2, <1>3, <1>4, <1>5, <1>6, <1>7, <1>8 DEF ScreensAddUp

\* Books that balance, the deposit within the invoice total and every screen in
\* agreement, still balance after any handler, but for the payment of a cancelled
\* tranche and the form that writes the amounts.
THEOREM BooksStayCorrect == Spec => BooksStay
<1>1. Spec => []Known
  BY InitKnown, NextKnown, PTL DEF Spec
<1>2. Known /\ Known' /\ [Next]_vars
        => [Books /\ ~RevivesCancelled /\ ~FormWritten => Books']_vars
  <2> SUFFICES ASSUME Known, Known', [Next]_vars, Books, ~RevivesCancelled, ~FormWritten
               PROVE  Books'
    OBVIOUS
  <2>1. Ledger'
    BY NextLedger DEF Books
  <2>2. ScreensAddUp'
    BY <2>1, LedgerAddsUp, PTL
  <2> QED
    BY <2>1, <2>2 DEF Books
<1> QED
  BY <1>1, <1>2, PTL DEF Spec, BooksStay

================================================================================
