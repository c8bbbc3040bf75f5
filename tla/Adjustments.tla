------------------------------ MODULE Adjustments ------------------------------
(***************************************************************************)
(* Invoice adjustments: value of a paid tranche reallocated to an unpaid   *)
(* tranche of another request.  Create, approve and reject run as          *)
(* concurrent transactions, one action per group of SQL statements with    *)
(* the same visibility.  The source tranche is locked FOR UPDATE, the      *)
(* destination is only read; inserting an adjustment shares the key of     *)
(* both tranches (foreign keys), which FOR UPDATE waits for.  The other    *)
(* handlers of tranches, modelled in full by TrancheLifecycle, appear as   *)
(* the moves that an adjustment can notice.                                *)
(***************************************************************************)
EXTENDS Naturals, FiniteSetsExt

CONSTANTS
  Tranches,       \* tranche ids
  Requests,       \* deposit requests
  RequestOf,      \* the request of each tranche
  SupplierOf,     \* the supplier of each request
  AmountOf,       \* the amount of each tranche
  Adjs,           \* bound: adjustment ids
  Amounts,        \* bound: amounts asked for
  Transactions,   \* database sessions
  NoTransaction,  \* the owner of a free row
  NoTranche,      \* the tranche of an adjustment that does not exist yet
  NoAdj           \* the adjustment of an idle session

ASSUME AdjConstantsOK ==
  /\ RequestOf \in [Tranches -> Requests]
  /\ AmountOf \in [Tranches -> Nat \ {0}]
  /\ Amounts \subseteq Nat \ {0}
  /\ NoTransaction \notin Transactions /\ NoTranche \notin Tranches /\ NoAdj \notin Adjs
  /\ IsFiniteSet(Adjs)

Cents == Amounts \cup {0}

\* SQL's SUM: of the function over the set.
SumOver(f, S) == FoldFunctionOnSet(+, 0, f, S)

VARIABLES
  tranche,   \* status of each payment_tranches row, "none" once deleted
  requests,  \* whether each request is open, has shipped or is deleted
  adj,       \* the committed invoice_adjustments rows
  call,      \* what each session is doing
  owner      \* holder of the FOR UPDATE lock of each tranche row

adjVars == <<tranche, requests, adj, call, owner>>

--------------------------------------------------------------------------------
(* Rows and sessions.                                                      *)

TrancheStatus == {"unpaid", "paid", "rejected", "cancelled"}
AdjustmentStatus == {"pending_approval", "completed", "rejected"}
Adjustment == [status : AdjustmentStatus \cup {"none"},
               src : Tranches \cup {NoTranche}, dst : Tranches \cup {NoTranche},
               amount : Cents]
NoAdjustment == [status |-> "none", src |-> NoTranche, dst |-> NoTranche, amount |-> 0]

IdleCall == [pc |-> "idle", op |-> "none", a |-> NoAdj, row |-> NoAdjustment]

Amount == [a \in Adjs |-> adj[a].amount]
Completed(t) == {a \in Adjs : adj[a].status = "completed" /\ adj[a].src = t}

AdjustedOut(t) == SumOver(Amount, Completed(t))
Available(t) == AmountOf[t] - AdjustedOut(t)

\* Sessions that have inserted an adjustment to t and not committed it yet.
KeySharers(t) ==
  {s \in Transactions : call[s].pc = "commit" /\ call[s].op = "create" /\ call[s].row.dst = t}
Free(t) == owner[t] = NoTransaction /\ KeySharers(t) = {}

InFlight(a) == \E s \in Transactions : call[s].pc # "idle" /\ call[s].op = "create" /\ call[s].a = a

AdjTypeOK ==
  /\ tranche \in [Tranches -> TrancheStatus \cup {"none"}]
  /\ requests \in [Requests -> {"open", "shipped", "deleted"}]
  /\ adj \in [Adjs -> Adjustment]
  /\ call \in [Transactions -> [pc : {"idle", "lock", "check", "write", "commit"},
                                op : {"none", "create", "approve", "reject"},
                                a : Adjs \cup {NoAdj}, row : Adjustment]]
  /\ owner \in [Tranches -> Transactions \cup {NoTransaction}]

AdjInit ==
  /\ tranche \in [Tranches -> {"unpaid", "paid"}]
  /\ requests = [r \in Requests |-> "open"]
  /\ adj = [a \in Adjs |-> NoAdjustment]
  /\ call = [s \in Transactions |-> IdleCall]
  /\ owner = [t \in Tranches |-> NoTransaction]

--------------------------------------------------------------------------------
(* The calls.                                                              *)

DeciderRoles == {"accounts_team", "super_admin"}
RequesterRoles == DeciderRoles \cup {"merchandiser"}
CreatedStatus(role) == IF role = "merchandiser" THEN "pending_approval" ELSE "completed"

CreateAdjustment(s, a, src, dst, amount, role) ==
  /\ call[s].pc = "idle" /\ adj[a].status = "none" /\ ~InFlight(a)
  /\ role \in RequesterRoles /\ src # dst
  /\ call' = [call EXCEPT ![s] =
       [pc |-> "lock", op |-> "create", a |-> a,
        row |-> [status |-> CreatedStatus(role), src |-> src, dst |-> dst, amount |-> amount]]]
  /\ UNCHANGED <<tranche, requests, adj, owner>>

\* approve and reject look at the status here, before they wait for the lock.
DecideAdjustment(s, a, decision, role) ==
  /\ call[s].pc = "idle" /\ role \in DeciderRoles
  /\ adj[a].status = "pending_approval"
  /\ call' = [call EXCEPT ![s] =
       [pc |-> "lock", op |-> decision, a |-> a,
        row |-> [adj[a] EXCEPT !.status =
                   IF decision = "approve" THEN "completed" ELSE "rejected"]]]
  /\ UNCHANGED <<tranche, requests, adj, owner>>

(* Mutant: the source is read without FOR UPDATE.                          *)
ReadSource(s) ==
  /\ call[s].pc = "lock" /\ tranche[call[s].row.src] # "none"
  /\ call' = [call EXCEPT ![s].pc = "check"]
  /\ UNCHANGED <<tranche, requests, adj, owner>>
LockSource(s) ==
  LET t == call[s].row.src IN
  /\ call[s].pc = "lock" /\ tranche[t] # "none" /\ Free(t)
  /\ owner' = [owner EXCEPT ![t] = s]
  /\ call' = [call EXCEPT ![s].pc = "check"]
  /\ UNCHANGED <<tranche, requests, adj>>

Adjustable(r) == requests[r] = "open"
(* Mutant: the source need not be paid.                                    *)
AnySource(row) ==
  /\ Adjustable(RequestOf[row.src]) /\ Adjustable(RequestOf[row.dst])
  /\ tranche[row.dst] = "unpaid"
  /\ RequestOf[row.src] # RequestOf[row.dst]
  /\ SupplierOf[RequestOf[row.src]] = SupplierOf[RequestOf[row.dst]]
ValidPair(row) ==
  /\ Adjustable(RequestOf[row.src]) /\ Adjustable(RequestOf[row.dst])
  /\ tranche[row.src] = "paid" /\ tranche[row.dst] = "unpaid"
  /\ RequestOf[row.src] # RequestOf[row.dst]
  /\ SupplierOf[RequestOf[row.src]] = SupplierOf[RequestOf[row.dst]]

(* Mutant: approval trusts the checks made when the adjustment was raised. *)
PassesOnCreate(s) ==
  LET row == call[s].row IN
  /\ tranche[row.dst] # "none"
  /\ call[s].op = "create" => ValidPair(row) /\ row.amount <= Available(row.src)
Passes(s) ==
  LET row == call[s].row IN
  /\ tranche[row.dst] # "none"
  /\ call[s].op # "reject" => ValidPair(row) /\ row.amount <= Available(row.src)

Check(s) ==
  /\ call[s].pc = "check" /\ Passes(s)
  /\ call' = [call EXCEPT ![s].pc = "write"]
  /\ UNCHANGED <<tranche, requests, adj, owner>>

\* An INSERT checks that the destination row exists and waits for its holder;
\* the UPDATE of a decision does not touch the foreign keys.
Write(s) ==
  LET t == call[s].row.dst IN
  /\ call[s].pc = "write"
  /\ call[s].op = "create" => tranche[t] # "none" /\ owner[t] = NoTransaction
  /\ call' = [call EXCEPT ![s].pc = "commit"]
  /\ UNCHANGED <<tranche, requests, adj, owner>>

Released(s) == [t \in Tranches |-> IF owner[t] = s THEN NoTransaction ELSE owner[t]]

CommitCall(s) ==
  /\ call[s].pc = "commit"
  /\ adj' = [adj EXCEPT ![call[s].a] = call[s].row]
  /\ call' = [call EXCEPT ![s] = IdleCall]
  /\ owner' = Released(s)
  /\ UNCHANGED <<tranche, requests>>

(* Mutant: a rolled back session keeps its row locks.                      *)
EndLocked(s) ==
  /\ call' = [call EXCEPT ![s] = IdleCall]
  /\ UNCHANGED <<tranche, requests, adj, owner>>
End(s) ==
  /\ call' = [call EXCEPT ![s] = IdleCall]
  /\ owner' = Released(s)
  /\ UNCHANGED <<tranche, requests, adj>>

\* The handler raises: a tranche is gone or a check fails.
Refuse(s) ==
  /\ \/ call[s].pc = "lock" /\ tranche[call[s].row.src] = "none"
     \/ call[s].pc = "check" /\ ~Passes(s)
     \/ call[s].pc = "write" /\ tranche[call[s].row.dst] = "none"
  /\ End(s)
\* A statement times out, the connection or the worker is lost.
CallFails(s) == call[s].pc # "idle" /\ End(s)

--------------------------------------------------------------------------------
(* Other handlers: payment (also of a cancelled tranche), rejection and     *)
(* cancellation, deletion of a tranche that no adjustment names and that is  *)
(* not the last of its request, ship date and soft delete.  Payment and     *)
(* cancellation update the row, which a shared key does not hinder.         *)

Pay(t) ==
  /\ owner[t] = NoTransaction /\ tranche[t] \in {"unpaid", "cancelled"}
  /\ tranche' = [tranche EXCEPT ![t] = "paid"]
  /\ UNCHANGED <<requests, adj, call, owner>>

Drop(t) ==
  /\ owner[t] = NoTransaction /\ tranche[t] = "unpaid"
  /\ \E dropped \in {"rejected", "cancelled"} : tranche' = [tranche EXCEPT ![t] = dropped]
  /\ UNCHANGED <<requests, adj, call, owner>>

(* Mutant: the FK safety check of delete_tranche is missing.               *)
DeleteNamed(t) ==
  /\ Free(t) /\ tranche[t] \in {"unpaid", "cancelled"}
  /\ tranche' = [tranche EXCEPT ![t] = "none"]
  /\ UNCHANGED <<requests, adj, call, owner>>
Delete(t) ==
  /\ Free(t) /\ tranche[t] \in {"unpaid", "cancelled"}
  /\ \A a \in Adjs : t \notin {adj[a].src, adj[a].dst}
  /\ tranche' = [tranche EXCEPT ![t] = "none"]
  /\ UNCHANGED <<requests, adj, call, owner>>

Ship(r) ==
  /\ requests[r] = "open"
  /\ requests' = [requests EXCEPT ![r] = "shipped"]
  /\ UNCHANGED <<tranche, adj, call, owner>>

SoftDelete(r) ==
  /\ requests[r] # "deleted"
  /\ requests' = [requests EXCEPT ![r] = "deleted"]
  /\ UNCHANGED <<tranche, adj, call, owner>>

--------------------------------------------------------------------------------
Call(s) ==
  \/ \E a \in Adjs, src, dst \in Tranches, amount \in Amounts, role \in RequesterRoles :
       CreateAdjustment(s, a, src, dst, amount, role)
  \/ \E a \in Adjs, decision \in {"approve", "reject"}, role \in DeciderRoles :
       DecideAdjustment(s, a, decision, role)

Statement(s) == LockSource(s) \/ Check(s) \/ Write(s) \/ CommitCall(s) \/ Refuse(s)

Elsewhere ==
  \/ \E t \in Tranches : Pay(t) \/ Drop(t) \/ Delete(t)
  \/ \E r \in Requests : Ship(r) \/ SoftDelete(r)

AdjNext ==
  \/ \E s \in Transactions : Call(s) \/ Statement(s) \/ CallFails(s)
  \/ Elsewhere

AdjSpec == AdjInit /\ [][AdjNext]_adjVars
\* An event loop resumes the handlers whose query returned and PostgreSQL serves
\* those who wait for a row in order.
AdjFairSpec == AdjSpec /\ \A s \in Transactions : SF_adjVars(Statement(s))

--------------------------------------------------------------------------------
(* Properties.                                                             *)

\* "Reallocations can never exceed the source tranche's remaining paid balance":
\* whatever is raised and approved at once, and decided twice.
NotOverdrawn == \A t \in Tranches : AdjustedOut(t) <= AmountOf[t]

\* Value only comes from a tranche that is paid and goes to another request, however old
\* the checks of create and approve are at commit.  Nothing is said of the destination,
\* which is not locked: it may be paid between approve's look at it and the commit.
CompletedIsBacked ==
  \A a \in Adjs : adj[a].status = "completed" =>
    /\ tranche[adj[a].src] = "paid"
    /\ RequestOf[adj[a].src] # RequestOf[adj[a].dst]

\* An adjustment never loses a tranche it names (delete_tranche looks for
\* adjustments, the insert looks for tranches, and neither sees the other's
\* uncommitted row).
NamesExistingTranches ==
  \A a \in Adjs : adj[a].status # "none" =>
    tranche[adj[a].src] # "none" /\ tranche[adj[a].dst] # "none"

\* Every call ends: the source lock and the shared key never wait in a circle.
CallsEnd == \A s \in Transactions : call[s].pc # "idle" ~> call[s].pc = "idle"

\* The accounts of PaidBalance are what the tranches have left.
Balance == INSTANCE PaidBalance WITH balance <- [t \in Tranches |-> Available(t)]
AccountKept == Balance!BSpec

================================================================================
