----------------------------- MODULE PaymentPromise -----------------------------
(***************************************************************************)
(* What the tracker promises about a request and its money, whatever the   *)
(* handlers do: the status follows the trigger's graph, tranches are paid  *)
(* one at a time and only in the payment queue, money once paid stays      *)
(* paid, the whole file is held or rejected by Accounts only before any    *)
(* payment, and completion is what sets the lock.                          *)
(***************************************************************************)
EXTENDS StatusTransitions

CONSTANT Nums       \* the tranche numbers a request may use

VARIABLES
  status,     \* the request's status
  locked,     \* the record lock of a completed file
  paid        \* numbers of the tranches that are paid

pvars == <<status, locked, paid>>

PInit ==
  /\ status \in {"pending_payment", "pending_hom_approval"}
  /\ locked = FALSE
  /\ paid = {}

Completed == status' = "payment_processed" /\ locked' = TRUE

(* A payment, which may be the one that completes the file.                *)
Pay(n) ==
  /\ status = "pending_payment"
  /\ n \notin paid
  /\ paid' = paid \cup {n}
  /\ Completed \/ UNCHANGED <<status, locked>>

(* Completion without a payment of its own.                                *)
Finish == status = "pending_payment" /\ Completed /\ UNCHANGED paid

(* A completed file goes back into the queue; its lock may be lifted, then *)
(* or later.                                                               *)
Reopen ==
  /\ status = "payment_processed"
  /\ status' = "pending_payment"
  /\ locked' \in {FALSE, locked}
  /\ UNCHANGED paid

Unlock ==
  /\ status = "pending_payment"
  /\ locked' = FALSE
  /\ UNCHANGED <<status, paid>>

(* A handler that goes back into the queue may lift the lock of a file it  *)
(* still takes for a completed one.                                        *)
Move(target) ==
  /\ <<status, target>> \in TriggerPairs
  /\ "payment_processed" \notin {status, target}
  /\ target \in {"hold_by_accounts", "rejected_by_accounts"} => paid = {}
  /\ status' = target
  /\ locked' \in IF target = "pending_payment" THEN {FALSE, locked} ELSE {locked}
  /\ UNCHANGED paid

PNext ==
  \/ \E n \in Nums : Pay(n)
  \/ Finish
  \/ Reopen \/ Unlock
  \/ \E target \in RequestStatus : Move(target)

PSpec == PInit /\ [][PNext]_pvars

================================================================================
