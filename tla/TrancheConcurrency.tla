--------------------------- MODULE TrancheConcurrency ---------------------------
(***************************************************************************)
(* The handlers of one deposit request run as concurrent transactions at   *)
(* READ COMMITTED.  Each step is one SQL statement of a handler; a         *)
(* session's writes become visible when it commits, and the row locks it   *)
(* took are held until then.  SELECT ... FOR UPDATE locks the request in   *)
(* pay_tranche only; the other handlers read it without a lock and meet    *)
(* its row lock when they UPDATE it.                                       *)
(*                                                                         *)
(* Authors act as merchandisers and Accounts as the Accounts team; rows    *)
(* and amounts are those of TrancheLifecycle, whose payment_details row    *)
(* is here the processed marker alone.                                     *)
(***************************************************************************)
EXTENDS StatusTransitions, Naturals, Functions

CONSTANTS
  Sessions,       \* the database sessions, one per API call in progress
  NoSession,      \* the owner of a free lock
  Ops,            \* bound: the calls this instance makes
  Targets,        \* bound: the targets of its status transitions
  MaxTranches,    \* bound: tranche numbers are 1..MaxTranches
  Amounts,        \* amounts of a tranche, positive
  Total           \* proforma invoice total

Nums == 1..MaxTranches

ASSUME ConstantsOK ==
  /\ NoSession \notin Sessions
  /\ Ops \subseteq {"pay", "bulk", "edit", "add", "delete", "reject", "cancel",
                    "details", "transition"}
  /\ Targets \subseteq RequestStatus \ {"payment_processed"}
  /\ MaxTranches \in Nat \ {0} /\ Total \in Nat
  /\ Amounts \subseteq Nat \ {0}

VARIABLES
  req,        \* the committed deposit_requests row (and the processed marker)
  tr,         \* the committed payment_tranches rows by number
  pays,       \* how often a payment of the tranche was committed (audit log)
  sess,       \* what each session is doing
  reqOwner,   \* holder of the request row lock (FOR UPDATE or UPDATE)
  rowOwner    \* holder of each tranche row, or of the key being inserted

vars == <<req, tr, pays, sess, reqOwner, rowOwner>>

--------------------------------------------------------------------------------
(* Rows: "ready" is released, TT copy, payment date and bank recorded.     *)

Row == [status : {"none", "unpaid", "paid", "rejected", "cancelled"},
        amount : Nat, ready : BOOLEAN]
NoRow == [status |-> "none", amount |-> 0, ready |-> FALSE]

NewRow(amount) == [status |-> "unpaid", amount |-> amount, ready |-> FALSE]

Rows(t) == {n \in Nums : t[n].status # "none"}
Live(t) == {n \in Nums : t[n].status \in {"unpaid", "paid"}}
Unpaid(t) == {n \in Nums : t[n].status = "unpaid"}
Paid(t) == {n \in Nums : t[n].status = "paid"}
LiveSum(t) ==
  FoldFunction(+, 0, [n \in Nums |-> IF n \in Live(t) THEN t[n].amount ELSE 0])

RequestRow == [status : RequestStatus, locked : BOOLEAN, deposit : Nat,
               marked : BOOLEAN]

(* The row of a completed request; the mutant leaves the lock out.         *)
CompletedUnlocked(r) == [r EXCEPT !.status = "payment_processed", !.marked = TRUE]
Completed(r) == [r EXCEPT !.status = "payment_processed", !.locked = TRUE,
                          !.marked = TRUE]

(* A session: where it is (pc), its call and arguments, the request as it  *)
(* read it, the sum it computed, and the request row it is about to        *)
(* commit, which counts once it owns the request lock.                     *)
NoRequest == [status |-> "pending_payment", locked |-> FALSE, deposit |-> 0,
              marked |-> FALSE]
Idle == [pc |-> "idle", op |-> "none", n |-> 1, amount |-> 0,
         target |-> "pending_payment", seen |-> NoRequest, sum |-> 0,
         out |-> NoRequest]

(* After these points the session has written its tranche row.             *)
Written(s) == sess[s].op # "transition" /\
              sess[s].pc \in {"reopen", "sum", "update", "siblings", "finish", "commit"}

WrittenRow(s) ==
  LET me == sess[s] old == tr[me.n] IN
  CASE me.op = "pay"     -> [old EXCEPT !.status = "paid"]
    [] me.op = "bulk"    -> [old EXCEPT !.status = "paid", !.ready = TRUE]
    [] me.op = "edit"    -> [old EXCEPT !.amount = me.amount]
    [] me.op = "add"     -> NewRow(me.amount)
    [] me.op = "delete"  -> NoRow
    [] me.op = "reject"  -> [old EXCEPT !.status = "rejected"]
    [] me.op = "cancel"  -> [old EXCEPT !.status = "cancelled"]
    [] me.op = "details" -> [old EXCEPT !.ready = TRUE]

(* The rows a statement of s sees: committed ones and its own write.       *)
View(s) == IF Written(s) THEN [tr EXCEPT ![sess[s].n] = WrittenRow(s)] ELSE tr

--------------------------------------------------------------------------------
Init ==
  /\ \E k \in Nums, a \in [Nums -> Amounts], ready \in [Nums -> BOOLEAN] :
       tr = [n \in Nums |-> IF n <= k THEN [NewRow(a[n]) EXCEPT !.ready = ready[n]]
                                      ELSE NoRow]
  /\ LiveSum(tr) <= Total
  /\ req = [NoRequest EXCEPT !.deposit = LiveSum(tr)]
  /\ pays = [n \in Nums |-> 0]
  /\ sess = [s \in Sessions |-> Idle]
  /\ reqOwner = NoSession
  /\ rowOwner = [n \in Nums |-> NoSession]

Release(s) ==
  /\ sess' = [sess EXCEPT ![s] = Idle]
  /\ reqOwner' = IF reqOwner = s THEN NoSession ELSE reqOwner
  /\ rowOwner' = [n \in Nums |-> IF rowOwner[n] = s THEN NoSession ELSE rowOwner[n]]

(* An exception anywhere rolls the whole transaction back and the session  *)
(* is closed; the mutant leaves it open with its locks.                    *)
RollbackLeaks(s) == sess' = [sess EXCEPT ![s] = Idle] /\
                    UNCHANGED <<req, tr, pays, reqOwner, rowOwner>>
Rollback(s) == Release(s) /\ UNCHANGED <<req, tr, pays>>

(* The session goes on as "me", or is refused when a check fails.          *)
Continue(s, ok, me) ==
  IF ok THEN sess' = [sess EXCEPT ![s] = me]
             /\ UNCHANGED <<req, tr, pays, reqOwner, rowOwner>>
        ELSE Rollback(s)

(* It goes on with the request row locked and "out" to be written.         *)
WithRequest(s, ok, me) ==
  IF ok THEN /\ reqOwner' = s
             /\ sess' = [sess EXCEPT ![s] = me]
             /\ UNCHANGED <<req, tr, pays, rowOwner>>
        ELSE Rollback(s)

(* An UPDATE of the request waits for its row lock.                        *)
FreeToUpdate(s) == reqOwner \in {NoSession, s}

(* The request row as the session's next UPDATE finds it.                  *)
Current(s) == IF reqOwner = s THEN sess[s].out ELSE req

--------------------------------------------------------------------------------
(* A call comes in.                                                        *)
Calls ==
  [op : Ops \cap {"pay", "delete", "reject", "cancel", "details"}, n : Nums,
   amount : {0}, target : {"pending_payment"}] \cup
  [op : Ops \cap {"edit"}, n : Nums, amount : Amounts, target : {"pending_payment"}] \cup
  [op : Ops \cap {"add"}, n : {1}, amount : Amounts, target : {"pending_payment"}] \cup
  [op : Ops \cap {"bulk"}, n : {1}, amount : {0}, target : {"pending_payment"}] \cup
  [op : Ops \cap {"transition"}, n : {1}, amount : {0}, target : Targets]

Begin(s) ==
  /\ sess[s].pc = "idle"
  /\ \E c \in Calls :
       sess' = [sess EXCEPT ![s] =
         [Idle EXCEPT !.op = c.op, !.n = c.n, !.amount = c.amount, !.target = c.target,
                      !.pc = IF c.op = "pay" THEN "lockRequest" ELSE "read"]]
  /\ UNCHANGED <<req, tr, pays, reqOwner, rowOwner>>

(* The unlocked read of the request, with the checks made on it.           *)
MayStart(me, r) ==
  CASE me.op \in {"edit", "delete"} ->
         r.status \in EditableStatuses /\ ~r.locked
    [] me.op = "add" -> \/ r.status = "payment_processed"
                        \/ r.status \in EditableStatuses /\ ~r.locked
    [] me.op \in {"reject", "details"} ->
         /\ r.status \notin TerminalStatuses \cup {"hold_by_merchandiser"}
         /\ me.op = "reject" => ~r.locked
    [] me.op = "cancel" -> r.status \notin TerminalStatuses
    [] me.op = "transition" ->
         /\ \E role \in {"merchandiser", "accounts_team"} :
              TransitionAllowed(r.status, me.target, role)
         /\ ~r.locked
    [] me.op = "bulk" -> TRUE

ReadRequest(s) ==
  LET me == sess[s]
      next == CASE me.op \in {"edit", "delete"} -> "touched"
                [] me.op = "add" ->
                     IF req.status = "payment_processed" THEN "ceiling" ELSE "touched"
                [] me.op \in {"reject", "cancel", "details"} -> "lockRow"
                [] me.op = "transition" -> "guard"
                [] me.op = "bulk" -> "pick"
  IN /\ me.pc = "read"
     /\ Continue(s, MayStart(me, req), [me EXCEPT !.pc = next, !.seen = req])

(* accounts_touched_reason: the processed marker; an add is excused by a   *)
(* rejected tranche.                                                       *)
CheckTouched(s) ==
  LET me == sess[s] IN
  /\ me.pc = "touched"
  /\ Continue(s,
       \/ ~req.marked
       \/ me.op = "add" /\ \E n \in Nums : tr[n].status = "rejected",
       [me EXCEPT !.pc = IF me.op = "add" THEN "ceiling" ELSE "lockRow"])

(* Inserting a tranche shares the key of the request row until commit.     *)
KeySharers == {s \in Sessions : sess[s].op = "add" /\ Written(s)}

(* SELECT ... FOR UPDATE conflicts with both; the mutant is a plain SELECT. *)
PlainSelect == TRUE
FreeToLock == reqOwner = NoSession /\ KeySharers = {}

(* SELECT ... FOR UPDATE of the request in pay_tranche.  A single payment  *)
(* reads the row; in a bulk payment the session still holds the object it  *)
(* loaded first, which the locked select does not refresh.                 *)
LockRequest(s) ==
  LET me == sess[s] IN
  /\ me.pc = "lockRequest"
  /\ FreeToLock
  /\ IF me.op = "pay"
       THEN WithRequest(s, TRUE,
              [me EXCEPT !.pc = "lockRow", !.seen = req, !.out = req])
       ELSE WithRequest(s, me.seen.status = "pending_payment",
              [me EXCEPT !.pc = "count", !.out = req])

(* SELECT ... FOR UPDATE of the tranche, and the checks made on it; those  *)
(* of a bulk payment look at the object loaded before.  One mutant forgets *)
(* the paid rows, the other whether the request is in the queue.           *)
RowAllowsPaid(me, row) ==
  /\ row.status # "none"
  /\ me.op = "pay" => me.seen.status = "pending_payment" /\ row.ready
RowAllowsUnqueued(me, row) ==
  /\ row.status \in {"unpaid", "cancelled"}
  /\ me.op = "pay" => row.ready
RowAllows(me, row) ==
  /\ row.status # "none"
  /\ me.op \in {"pay", "edit", "delete", "reject", "details"} =>
       row.status \in {"unpaid", "cancelled"}
  /\ me.op = "cancel" => row.status = "unpaid"
  /\ me.op = "pay" => me.seen.status = "pending_payment" /\ row.ready
  /\ me.op \in {"edit", "delete"} => ~row.ready

(* The row lock; the mutant reads without it.                              *)
RowUnlocked(n) == TRUE
RowFree(n) == rowOwner[n] = NoSession

LockRow(s) ==
  LET me == sess[s]
      next == CASE me.op = "pay" -> "count"
                [] me.op = "bulk" -> "lockRequest"
                [] me.op = "edit" -> "ceiling"
                [] me.op = "delete" -> "rows"
                [] me.op \in {"reject", "cancel"} -> "sum"
                [] me.op = "details" -> "commit"
  IN /\ me.pc = "lockRow"
     /\ RowFree(me.n)
     /\ IF RowAllows(me, tr[me.n])
          THEN /\ rowOwner' = [rowOwner EXCEPT ![me.n] = s]
               /\ sess' = [sess EXCEPT ![s].pc = next]
               /\ UNCHANGED <<req, tr, pays, reqOwner>>
          ELSE Rollback(s)

--------------------------------------------------------------------------------
(* The invoice ceiling of an edit or an add.                               *)
CheckCeiling(s) ==
  LET me == sess[s]
      before == IF me.op = "edit" THEN tr[me.n].amount ELSE 0
  IN /\ me.pc = "ceiling"
     /\ Continue(s, LiveSum(tr) + me.amount <= Total + before,
          [me EXCEPT !.pc = IF me.op = "edit" THEN "sum" ELSE "number"])

(* The next free number; beyond the bound the call is refused.             *)
NextNumber(s) ==
  LET me == sess[s] IN
  /\ me.pc = "number"
  /\ \E n \in 1..(MaxTranches + 1) :
       /\ Rows(tr) \subseteq 1..(n - 1)
       /\ n = 1 \/ n - 1 \in Rows(tr)
       /\ Continue(s, n <= MaxTranches, [me EXCEPT !.pc = "insert", !.n = n])

(* A number inserted meanwhile violates the unique constraint; one that is *)
(* being inserted or deleted is waited for, as is a payment's row lock.    *)
Insert(s) ==
  LET me == sess[s] IN
  /\ me.pc = "insert"
  /\ reqOwner # NoSession => sess[reqOwner].op \notin {"pay", "bulk"}
  /\ rowOwner[me.n] = NoSession
  /\ IF tr[me.n].status = "none"
       THEN /\ rowOwner' = [rowOwner EXCEPT ![me.n] = s]
            /\ sess' = [sess EXCEPT ![s].pc =
                 IF me.seen.status = "payment_processed" THEN "reopen" ELSE "sum"]
            /\ UNCHANGED <<req, tr, pays, reqOwner>>
       ELSE Rollback(s)

(* Adding to a file read as completed reopens it.                          *)
Reopen(s) ==
  LET me == sess[s] IN
  /\ me.pc = "reopen"
  /\ FreeToUpdate(s)
  /\ WithRequest(s, TriggerAllows(req.status, "pending_payment"),
       [me EXCEPT !.pc = "sum",
          !.out = [req EXCEPT !.status = "pending_payment", !.locked = FALSE,
                              !.marked = FALSE]])

(* A delete counts the rows before its own is gone.                        *)
CountRows(s) ==
  LET me == sess[s] IN
  /\ me.pc = "rows"
  /\ Continue(s, Rows(tr) # {me.n}, [me EXCEPT !.pc = "sum"])

(* _sync_request_totals: the sum, compared with the deposit as read, ...   *)
SumTranches(s) ==
  LET me == sess[s]
      sum == LiveSum(View(s))
      next == IF me.op = "delete" THEN "siblings" ELSE "commit"
  IN /\ me.pc = "sum"
     /\ Continue(s, TRUE,
          [me EXCEPT !.sum = sum,
                     !.pc = IF sum = me.seen.deposit THEN next ELSE "update"])

(* ... and the UPDATE of the request when they differ.                     *)
UpdateTotals(s) ==
  LET me == sess[s] IN
  /\ me.pc = "update"
  /\ FreeToUpdate(s)
  /\ WithRequest(s, TRUE,
       [me EXCEPT !.pc = IF me.op = "delete" THEN "siblings" ELSE "commit",
                  !.out = [Current(s) EXCEPT !.deposit = me.sum]])

(* After a delete: every live sibling paid completes the request.          *)
CheckSiblings(s) ==
  LET me == sess[s]
      live == Live(View(s))
      completes == /\ me.seen.status = "pending_payment"
                   /\ live # {} /\ live = Paid(View(s))
  IN /\ me.pc = "siblings"
     /\ Continue(s, TRUE, [me EXCEPT !.pc = IF completes THEN "finish" ELSE "commit"])

Finish(s) ==
  LET me == sess[s] IN
  /\ me.pc = "finish"
  /\ FreeToUpdate(s)
  /\ WithRequest(s, TriggerAllows(Current(s).status, "payment_processed"),
       [me EXCEPT !.pc = "commit", !.out = Completed(Current(s))])

(* pay_tranche counts the unpaid rows, its own included: one left is the   *)
(* final payment.                                                          *)
CountUnpaid(s) ==
  LET me == sess[s]
      final == \E n \in Nums : Unpaid(tr) = {n}
  IN /\ me.pc = "count"
     /\ Continue(s, final => TriggerAllows(me.out.status, "payment_processed"),
          [me EXCEPT !.pc = "commit",
                     !.out = IF final THEN Completed(me.out) ELSE me.out])

(* A bulk payment picks the lowest unpaid tranche it sees, released ones   *)
(* here all of them.                                                       *)
PickTranche(s) ==
  LET me == sess[s]
      closed == me.seen.status \in TerminalStatuses \cup {"hold_by_merchandiser"}
      first == CHOOSE n \in Unpaid(tr) : \A m \in Unpaid(tr) : n <= m
      found == Unpaid(tr) # {}
  IN /\ me.pc = "pick"
     /\ Continue(s, found /\ ~closed,
          [me EXCEPT !.pc = "lockRow", !.n = IF found THEN first ELSE 1])

(* transition_status: the tranche-derived guards, then the UPDATE.         *)
CheckTranches(s) ==
  LET me == sess[s] IN
  /\ me.pc = "guard"
  /\ Continue(s,
       /\ me.target \in {"hold_by_accounts", "rejected_by_accounts"} => Paid(tr) = {}
       /\ me.target = "cancelled_by_merchandiser" =>
            ~ ((\E n \in Nums : tr[n].status = "rejected") /\ Unpaid(tr) # {}),
       [me EXCEPT !.pc = "setStatus"])

SetStatus(s) ==
  LET me == sess[s] IN
  /\ me.pc = "setStatus"
  /\ FreeToUpdate(s)
  /\ WithRequest(s, TriggerAllows(req.status, me.target),
       [me EXCEPT !.pc = "commit", !.out = [req EXCEPT !.status = me.target]])

Commit(s) ==
  LET me == sess[s] IN
  /\ me.pc = "commit"
  /\ req' = Current(s)
  /\ tr' = View(s)
  /\ pays' = CASE me.op \in {"pay", "bulk"} ->
                    [pays EXCEPT ![me.n] = IF @ = 2 THEN 2 ELSE @ + 1]
               [] me.op = "delete" -> [pays EXCEPT ![me.n] = 0]
               [] OTHER -> pays
  /\ Release(s)

(* A statement timeout, a lost connection or a dying worker.               *)
Fails(s) == sess[s].pc # "idle" /\ Rollback(s)

(* Who a waiting session waits for; PostgreSQL rolls back one of two       *)
(* sessions that wait for each other.                                      *)
WaitsFor(s) ==
  LET me == sess[s]
      req0 == {reqOwner} \ {s, NoSession}
      row0 == {rowOwner[me.n]} \ {NoSession}
  IN CASE me.pc = "lockRequest" -> req0 \cup KeySharers
       [] me.pc = "lockRow" -> row0
       [] me.pc = "insert" -> {u \in req0 : sess[u].op \in {"pay", "bulk"}} \cup row0
       [] me.pc \in {"reopen", "update", "finish", "setStatus"} -> req0
       [] OTHER -> {}

DeadlockVictim(s) ==
  /\ \E u \in WaitsFor(s) : s \in WaitsFor(u)
  /\ Rollback(s)

Statement(s) ==
  \/ ReadRequest(s) \/ CheckTouched(s) \/ LockRequest(s) \/ LockRow(s)
  \/ CheckCeiling(s) \/ NextNumber(s) \/ Insert(s) \/ Reopen(s) \/ CountRows(s)
  \/ SumTranches(s) \/ UpdateTotals(s) \/ CheckSiblings(s) \/ Finish(s)
  \/ CountUnpaid(s) \/ PickTranche(s) \/ CheckTranches(s) \/ SetStatus(s)
  \/ Commit(s)

Next == \E s \in Sessions :
          Begin(s) \/ Statement(s) \/ Fails(s) \/ DeadlockVictim(s)

Spec == Init /\ [][Next]_vars

(* A handler that can go on does, the lock queue of a row is first come    *)
(* first served, and the deadlock detector runs.  Calls need not come.     *)
FairSpec ==
  /\ Spec
  /\ \A s \in Sessions : SF_vars(Statement(s)) /\ WF_vars(DeadlockVictim(s))

--------------------------------------------------------------------------------
(* The type of every variable, the sums left aside.                        *)
TypeOK ==
  /\ req.status \in RequestStatus
  /\ req.locked \in BOOLEAN /\ req.marked \in BOOLEAN
  /\ tr \in [Nums -> Row]
  /\ pays \in [Nums -> 0..2]
  /\ \A s \in Sessions : sess[s].n \in Nums
  /\ reqOwner \in Sessions \cup {NoSession}
  /\ rowOwner \in [Nums -> Sessions \cup {NoSession}]

(* No tranche is paid twice, however many sessions try (the row-level lock *)
(* of pay_tranche and the fresh read under it).                            *)
NoDoublePayment == \A n \in Nums : pays[n] <= 1

(* Nothing a concurrent edit, reject, cancel or delete read before the     *)
(* payment takes the payment back: a paid row stays paid with its amount.  *)
PaidRowKept == \A n \in Paid(tr) : n \in Paid(tr)' /\ tr'[n].amount = tr[n].amount
PaidIsFinal == [][PaidRowKept]_vars

(* Payments of different tranches, and deletes next to them, cannot each   *)
(* count the other's row as unpaid: when nothing runs any more, a file in  *)
(* the queue that still has tranches has one that is not paid (comment at  *)
(* the request lock of pay_tranche).                                       *)
Quiet == \A s \in Sessions : sess[s].pc = "idle"
CompletionNotMissed ==
  Quiet /\ req.status = "pending_payment" /\ Rows(tr) # {} => Rows(tr) # Paid(tr)

(* A completed file is locked whichever sessions completed or reopened it. *)
ProcessedIsLocked == req.status = "payment_processed" => req.locked

(* Every call ends: waiting for row locks in opposite orders is resolved   *)
(* by the deadlock detector.                                               *)
CallsEnd == \A s \in Sessions : sess[s].pc # "idle" ~> sess[s].pc = "idle"

(* The interleaved handlers keep the promise about money.                  *)
Promise == INSTANCE PaymentPromise
             WITH status <- req.status, locked <- req.locked, paid <- Paid(tr)
PromiseKept == Promise!PSpec

================================================================================
