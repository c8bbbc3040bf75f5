--------------------------- MODULE StatusTransitions ---------------------------
(***************************************************************************)
(* The status machine of a deposit request: the role-aware table the       *)
(* services consult, the role-blind table the database trigger enforces,   *)
(* and the record-lock rule.  Pure definitions; the modules that act on    *)
(* requests extend this one.                                               *)
(***************************************************************************)

UserRole == {"super_admin", "finance_admin", "accounts_team", "merchandiser",
             "head_of_merchandiser"}

RequestStatus ==
  {"pending_payment", "hold_by_merchandiser", "hold_by_accounts",
   "payment_processed", "cancelled_by_merchandiser", "cancelled_by_accounts",
   "reopened", "pending_hom_approval", "rejected_by_hom",
   "rejected_by_accounts"}

(* Moves of the request's authors, of Accounts and of the head of          *)
(* merchandisers; the super admin may make every one of them.              *)
AuthorMoves ==
  {<<"pending_payment", "hold_by_merchandiser">>,
   <<"pending_payment", "cancelled_by_merchandiser">>,
   <<"hold_by_merchandiser", "pending_payment">>,
   <<"hold_by_merchandiser", "cancelled_by_merchandiser">>,
   <<"payment_processed", "pending_payment">>,
   <<"pending_hom_approval", "cancelled_by_merchandiser">>}

AccountsMoves ==
  {<<"pending_payment", "hold_by_accounts">>,
   <<"pending_payment", "payment_processed">>,
   <<"pending_payment", "rejected_by_accounts">>,
   <<"hold_by_accounts", "rejected_by_accounts">>,
   <<"hold_by_accounts", "pending_payment">>,
   <<"hold_by_accounts", "cancelled_by_accounts">>,
   <<"cancelled_by_accounts", "reopened">>,
   <<"reopened", "pending_payment">>}

HomMoves ==
  {<<"pending_hom_approval", "pending_payment">>,
   <<"pending_hom_approval", "rejected_by_hom">>}

(* assert_transition_allowed(current, target, role) does not raise.        *)
TransitionAllowed(current, target, role) ==
  \/ /\ <<current, target>> \in AuthorMoves
     /\ role \in {"merchandiser", "head_of_merchandiser", "super_admin"}
  \/ /\ <<current, target>> \in AccountsMoves
     /\ role \in {"accounts_team", "super_admin"}
  \/ /\ <<current, target>> \in HomMoves
     /\ role \in {"head_of_merchandiser", "super_admin"}

(* The pairs of the trigger's IN (...) list.                               *)
TriggerPairs ==
  {<<"pending_payment", "hold_by_merchandiser">>,
   <<"pending_payment", "cancelled_by_merchandiser">>,
   <<"pending_payment", "hold_by_accounts">>,
   <<"pending_payment", "payment_processed">>,
   <<"pending_payment", "rejected_by_accounts">>,
   <<"hold_by_merchandiser", "pending_payment">>,
   <<"hold_by_merchandiser", "cancelled_by_merchandiser">>,
   <<"hold_by_accounts", "pending_payment">>,
   <<"hold_by_accounts", "cancelled_by_accounts">>,
   <<"hold_by_accounts", "rejected_by_accounts">>,
   <<"cancelled_by_accounts", "reopened">>,
   <<"reopened", "pending_payment">>,
   <<"payment_processed", "pending_payment">>,
   <<"pending_hom_approval", "pending_payment">>,
   <<"pending_hom_approval", "rejected_by_hom">>,
   <<"pending_hom_approval", "cancelled_by_merchandiser">>}

(* The row trigger lets an UPDATE of a row in status old write status new. *)
TriggerAllows(old, new) == old = new \/ <<old, new>> \in TriggerPairs

(* assert_record_not_locked(is_locked, role) does not raise.               *)
NotLocked(is_locked, role) == ~is_locked \/ role = "super_admin"

(* Statuses in which the tranche handlers refuse to act.                   *)
TerminalStatuses ==
  {"cancelled_by_merchandiser", "cancelled_by_accounts", "rejected_by_hom",
   "rejected_by_accounts"}

AccountsRoles == {"accounts_team", "super_admin"}
AuthorRoles == {"merchandiser", "head_of_merchandiser", "super_admin"}
AuthorGatedRoles == {"merchandiser", "head_of_merchandiser"}

(* Where the gated authors may still change tranches.                      *)
EditableStatuses == {"pending_payment", "pending_hom_approval"}

================================================================================
