-------------------------------- MODULE Notices --------------------------------
(***************************************************************************)
(* Who is told what about a request.  A call leaves its notices to         *)
(* background tasks that run after the response, one after the other, in   *)
(* sessions of their own.  A task reads the request and the ledger, works  *)
(* out whom to tell, stores the bell rows and commits, and only then       *)
(* pushes and e-mails.  Its failures are swallowed and a restart loses     *)
(* what had not run.  Two jobs of the scheduler make up for that: the      *)
(* fallback for processed requests nobody was told about, every half hour, *)
(* and the reminders of tranches that are due and not released, every day. *)
(*                                                                         *)
(* The rows of the table are the only ledger: a request counts as told     *)
(* when it has a row of type payment_processed, whoever it is for.  The    *)
(* type of a row is that of its column, but for reminders, which share     *)
(* theirs with the edits of tranches; the e-mails to all about a paid      *)
(* tranche or an upload are left out.                                      *)
(*                                                                         *)
(* The calls are those of TrancheLifecycle cut down to what a notice can   *)
(* depend on: the status, the request's TT copy and two tranches.  Beside  *)
(* them stand the items that a merchandiser raises and Accounts decide:    *)
(* adjustments of paid tranches and remarks on files.                      *)
(***************************************************************************)
EXTENDS StatusTransitions, Naturals, SequencesExt

CONSTANTS Requests,
          Items,             \* adjustments and file remarks
          Users, RoleOf,     \* the active users
          Raiser,            \* the merchandiser of the requests
          Workers,           \* sessions of background tasks
          MaxQueue,          \* bound: no call while so many tasks wait
          DueDay,            \* tentative payment date of a second tranche
          Window,            \* 5 days in the code
          LastDay,           \* bound: the clock stops here
          MaxEvents,         \* bound: calls of the users after the creation
          MaxLosses          \* bound: tasks that fail or are lost

(* The jobs of the scheduler, each with a session of its own.              *)
Jobs == {"fallback", "reminders"}

ASSUME NoticesAssumption ==
  /\ RoleOf \in [Users -> UserRole]
  /\ Raiser \in Users /\ IsFiniteSet(Requests)
  /\ Jobs \cap Workers = {}
  /\ {DueDay, Window, LastDay, MaxEvents, MaxLosses, MaxQueue} \subseteq Nat

VARIABLES
  origin,      \* raised by a user, or on the old public form by somebody
               \* whose address is that of a user ("form") or not ("stranger")
  status,      \* "none" before the request exists
  tt,          \* the payment row has a TT copy
  tranche,     \* tranche[r][n]
  aged,        \* requests processed for the last time over an hour ago
  queued,      \* history: requests that have been in the payment queue
  item,        \* an adjustment or file remark: its raiser, its state, who decided it
  today,
  bell,        \* rows of notifications
  mailed,      \* requests whose executives got the payment-processed e-mail
  jobs,        \* the tasks of a session, in the order they were added
  plan,        \* what the task at the head, once it has read, has to deliver
  stored,      \* the rows of the plan's first batch are committed
  events, losses

session == <<jobs, plan, stored>>
vars == <<origin, status, tt, tranche, aged, queued, item, today, bell, mailed,
          jobs, plan, stored, events, losses>>

Num == 1 .. 2
Open == {"unreleased", "unpaid"}

WithRole(roles) == {u \in Users : RoleOf[u] \in roles}
Accounts == WithRole({"accounts_team"})
Heads == WithRole({"head_of_merchandiser"})

Deciders == {"accounts_team", "super_admin"}

(* Approved and rejected by the head of merchandisers are one type here,    *)
(* and reminders have one of their own.                                    *)
NoticeType ==
  {"payment_processed", "tt_copy_attached", "tranche_paid", "tranche_updated",
   "tranche_rejected", "hom_decision", "adjustment_requested", "adjustment_recorded",
   "adjustment_decided", "request_created", "request_pending_hom", "status_changed",
   "file_remark_raised", "file_remark_resolved", "file_remark_amount_updated",
   "request_rejected", "release_reminder"}

Row == [user : Users, type : NoticeType, on : Requests \cup Items]

(* What kind of thing an item is; of the remarks only those that change    *)
(* the value of an invoice take a second step after the decision.          *)
Kinds == {"adjustment", "remark", "value_change"}
Item == [kind : Kinds, by : Users, resolver : SUBSET Users,
         state : {"none", "pending", "approved", "rejected", "applied"}]
Unraised == [kind |-> "remark", by |-> Raiser, resolver |-> {}, state |-> "none"]

Task(kind, r, n, by) == [kind |-> kind, on |-> r, n |-> n, by |-> by]

Session == Workers \cup Jobs

(* What came through the old form is in the queue from the start and was    *)
(* never announced.                                                        *)
Init ==
  /\ origin \in [Requests -> {"user", "form", "stranger"}]
  /\ status = [r \in Requests |-> IF origin[r] = "user" THEN "none"
                                                      ELSE "pending_payment"]
  /\ tt = [r \in Requests |-> FALSE]
  /\ tranche = [r \in Requests |-> [n \in Num |-> "none"]]
  /\ aged = {} /\ queued = {r \in Requests : origin[r] # "user"}
  /\ item = [i \in Items |-> Unraised]
  /\ today = 0
  /\ bell = {} /\ mailed = {}
  /\ jobs = [s \in Session |-> << >>]
  /\ plan = [s \in Session |-> << >>]
  /\ stored = [s \in Session |-> FALSE]
  /\ events = 0 /\ losses = 0

--------------------------------------------------------------------------------
(* Whom to tell.  A batch is what one commit stores: one row per user, then *)
(* the pushes, which only prune subscriptions, then an e-mail if any.       *)

Batch(r, to, type, mail) == [on |-> r, to |-> to, type |-> type, mail |-> mail]

(* _find_target_user *)
Target(r) == IF origin[r] = "stranger" THEN {} ELSE {Raiser}

(* exists_for_request: any user's row counts.                              *)
Told(r) == \E row \in bell : row.on = r /\ row.type = "payment_processed"

(* The executives hear of the primary notice only, with or without target. *)
Deliver(r, type) == <<Batch(r, Target(r), type, type = "payment_processed")>>

(* An empty list of recipients commits nothing.                            *)
DeliverToUsers(r, users, type) ==
  IF users = {} THEN << >> ELSE <<Batch(r, users, type, FALSE)>>

(* The mutant takes every upload after the processing for a follow-up.     *)
FollowUpAlways(processed, already) ==
  IF processed THEN "tt_copy_attached" ELSE "nothing"
DecideOnTtUpload(processed, already) ==
  IF ~processed THEN "nothing"
  ELSE IF already THEN "tt_copy_attached" ELSE "payment_processed"

DecideOnProcess(has_tt, already) ==
  IF has_tt /\ ~already THEN "payment_processed" ELSE "nothing"

DeliverDecided(r, type) == IF type = "nothing" THEN << >> ELSE Deliver(r, type)

NotifyTtCopyUploaded(r) ==
  DeliverDecided(r, DecideOnTtUpload(status[r] = "payment_processed", Told(r)))

NotifyPaymentProcessed(r) == DeliverDecided(r, DecideOnProcess(tt[r], Told(r)))

(* A new request goes to whoever has to act on it in the status it is      *)
(* found in; in any other status nobody is told.  The mutant tells         *)
(* Accounts of every new request.                                          *)
TellAccounts(r) == DeliverToUsers(r, Accounts, "request_created")
NotifyRequestCreated(r) ==
  CASE status[r] = "pending_hom_approval" ->
         DeliverToUsers(r, Heads, "request_pending_hom")
    [] status[r] = "pending_payment" ->
         DeliverToUsers(r, Accounts, "request_created")
    [] OTHER -> << >>

NotifyHomDecision(r) == DeliverToUsers(r, Target(r), "hom_decision")

NotifyStatusChange(r, by) ==
  DeliverToUsers(r, IF RoleOf[by] = "merchandiser" THEN Accounts ELSE Target(r),
                 "status_changed")

(* Rejections go to the raiser and then, in a commit of their own, to the  *)
(* other heads of merchandisers.                                           *)
ToTargetAndHeads(r, type) ==
  DeliverToUsers(r, Target(r), type) \o DeliverToUsers(r, Heads \ Target(r), type)

NotifyRequestRejected(r) == ToTargetAndHeads(r, "request_rejected")

(* The notices that load their tranche say nothing when it is gone.        *)
IfThere(r, n, batches) == IF tranche[r][n] = "none" THEN << >> ELSE batches

NotifyTrancheRejected(r, n) == IfThere(r, n, ToTargetAndHeads(r, "tranche_rejected"))

NotifyTranchePaid(r, n) == IfThere(r, n, <<Batch(r, Target(r), "tranche_paid", FALSE)>>)

NotifyTrancheAdded(r, n) ==
  IfThere(r, n, DeliverToUsers(r, WithRole(AccountsRoles), "tranche_updated"))

NotifyTrancheReleased(r, n) ==
  IfThere(r, n, DeliverToUsers(r, WithRole(AccountsRoles), "tranche_updated"))

NotifyTrancheUpdated(r, n) ==
  IfThere(r, n, DeliverToUsers(r, Accounts, "tranche_updated"))

(* The label travels with the task: the tranche may be gone.               *)
NotifyTrancheRemoved(r) == DeliverToUsers(r, Accounts, "tranche_updated")

(* The created notice says what it finds: an adjustment that Accounts       *)
(* decided in the meantime is announced as recorded.  The mutant leaves    *)
(* out an adjustment that no longer waits.                                 *)
NotifyIfPending(i) ==
  IF item[i].state # "pending" THEN << >>
  ELSE DeliverToUsers(i, Accounts \ {item[i].by}, "adjustment_requested")
NotifyAdjustmentCreated(i) ==
  IF item[i].state = "none" THEN << >>
  ELSE DeliverToUsers(i, Accounts \ {item[i].by},
         IF item[i].state = "pending" THEN "adjustment_requested" ELSE "adjustment_recorded")

NotifyAdjustmentDecided(i) == DeliverToUsers(i, {item[i].by}, "adjustment_decided")

NotifyFileRemarkRaised(i) == DeliverToUsers(i, Accounts \ {item[i].by}, "file_remark_raised")

(* A change of value concerns both sides; whoever decided is not told,     *)
(* unless it is the raiser.                                                *)
NotifyFileRemarkDecided(i) ==
  DeliverToUsers(i, {item[i].by} \cup IF item[i].kind = "value_change"
                                      THEN Accounts \ item[i].resolver ELSE {},
                 "file_remark_resolved")

NotifyFileRemarkAmountUpdated(i, actor) ==
  DeliverToUsers(i, (Accounts \cup {item[i].by}) \ {actor}, "file_remark_amount_updated")

Notify(t) ==
  CASE t.kind = "tt_copy_uploaded" -> NotifyTtCopyUploaded(t.on)
    [] t.kind = "payment_processed" -> NotifyPaymentProcessed(t.on)
    [] t.kind = "request_created" -> NotifyRequestCreated(t.on)
    [] t.kind = "hom_decision" -> NotifyHomDecision(t.on)
    [] t.kind = "status_change" -> NotifyStatusChange(t.on, t.by)
    [] t.kind = "request_rejected" -> NotifyRequestRejected(t.on)
    [] t.kind = "tranche_rejected" -> NotifyTrancheRejected(t.on, t.n)
    [] t.kind = "tranche_paid" -> NotifyTranchePaid(t.on, t.n)
    [] t.kind = "tranche_added" -> NotifyTrancheAdded(t.on, t.n)
    [] t.kind = "tranche_released" -> NotifyTrancheReleased(t.on, t.n)
    [] t.kind = "tranche_updated" -> NotifyTrancheUpdated(t.on, t.n)
    [] t.kind = "tranche_removed" -> NotifyTrancheRemoved(t.on)
    [] t.kind = "adjustment_created" -> NotifyAdjustmentCreated(t.on)
    [] t.kind = "adjustment_decided" -> NotifyAdjustmentDecided(t.on)
    [] t.kind = "file_remark_raised" -> NotifyFileRemarkRaised(t.on)
    [] t.kind = "file_remark_decided" -> NotifyFileRemarkDecided(t.on)
    [] t.kind = "amount_updated" -> NotifyFileRemarkAmountUpdated(t.on, t.by)

(* The jobs read everything that is due and then deliver request by        *)
(* request, in no particular order.                                        *)
(* The mutant looks at what was processed within the hour.                 *)
UnawareYet ==
  {r \in Requests \ aged : status[r] = "payment_processed" /\ ~tt[r] /\ ~Told(r)}
Unaware == {r \in aged : status[r] = "payment_processed" /\ ~tt[r] /\ ~Told(r)}

(* From five days before the date on; the mutant reminds on one day only.  *)
OnTheDay == DueDay = today + Window
InWindow == DueDay <= today + Window

Unreleased ==
  {r \in Requests :
     /\ origin[r] = "user" /\ status[r] = "pending_payment"
     /\ tranche[r][2] = "unreleased" /\ InWindow}

Fallback(r) == Batch(r, Target(r), "payment_processed", TRUE)
Reminder(r) == Batch(r, Target(r), "release_reminder", FALSE)

JobPlans(kind) ==
  IF kind = "fallback"
  THEN {[i \in DOMAIN q |-> Fallback(q[i])] : q \in SetToSeqs(Unaware)}
  ELSE {[i \in DOMAIN q |-> Reminder(q[i])] : q \in SetToSeqs(Unreleased)}

--------------------------------------------------------------------------------
(* The calls.  Each commits and leaves its tasks to a session, behind the  *)
(* tasks of earlier calls that have not run; other tasks than notices are  *)
(* left out.                                                               *)

Leave(tasks) ==
  \E w \in Workers :
    /\ Len(jobs[w]) < MaxQueue
    /\ jobs' = [jobs EXCEPT ![w] = @ \o tasks]
    /\ UNCHANGED <<plan, stored>>

Notice(kind, r) == Leave(<<Task(kind, r, 0, Raiser)>>)

Call ==
  /\ events < MaxEvents /\ events' = events + 1
  /\ UNCHANGED <<origin, today, bell, mailed, losses>>

SetStatus(r, new) ==
  /\ status' = [status EXCEPT ![r] = new]
  /\ queued' = IF new = "pending_payment" THEN queued \cup {r} ELSE queued
  /\ aged' = aged \ {r}

(* The supplier's flags decide the initial status; an author raises one    *)
(* tranche or more, and only the first is released.                        *)
CreateRequest(r) ==
  /\ status[r] = "none"
  /\ \E initial \in {"pending_payment", "pending_hom_approval"} : SetStatus(r, initial)
  /\ \E second \in {"none", "unreleased"} :
       tranche' = [tranche EXCEPT ![r] = <<"unpaid", second>>]
  /\ Notice("request_created", r)
  /\ UNCHANGED <<origin, tt, item, today, bell, mailed, events, losses>>

(* transition_status, the tranche guards included.                         *)
Transition(r, target, by) ==
  LET rows == {tranche[r][n] : n \in Num} IN
  /\ TransitionAllowed(status[r], target, RoleOf[by])
  /\ status[r] = "payment_processed" => RoleOf[by] = "super_admin"   \* locked
  /\ target \in {"hold_by_accounts", "rejected_by_accounts"} => "paid" \notin rows
  /\ target = "cancelled_by_merchandiser" => ~("dead" \in rows /\ rows \cap Open # {})
  /\ SetStatus(r, target)
  /\ UNCHANGED <<tt, tranche, item>>
  /\ Call

StatusChange(r, target, by) ==
  /\ Transition(r, target, by)
  /\ Leave(<<Task("status_change", r, 0, by)>>)

HoldRequest(r, by) ==
  StatusChange(r, IF RoleOf[by] = "merchandiser" THEN "hold_by_merchandiser"
                                                 ELSE "hold_by_accounts", by)
ResumeRequest(r, by) == StatusChange(r, "pending_payment", by)
CancelRequest(r, by) ==
  StatusChange(r, IF RoleOf[by] = "merchandiser" THEN "cancelled_by_merchandiser"
                                                 ELSE "cancelled_by_accounts", by)
ReopenRequest(r, by) == StatusChange(r, "reopened", by)

RejectRequest(r, by) ==
  /\ RoleOf[by] \in AccountsRoles
  /\ Transition(r, "rejected_by_accounts", by)
  /\ Notice("request_rejected", r)

HomApprove(r, by) ==
  /\ RoleOf[by] \in {"head_of_merchandiser", "super_admin"}
  /\ Transition(r, "pending_payment", by)
  /\ Leave(<<Task("hom_decision", r, 0, by), Task("request_created", r, 0, by)>>)

HomReject(r, by) ==
  /\ RoleOf[by] \in {"head_of_merchandiser", "super_admin"}
  /\ Transition(r, "rejected_by_hom", by)
  /\ Notice("hom_decision", r)

ProcessPayment(r) ==
  /\ status[r] = "pending_payment"
  /\ \A n \in Num : tranche[r][n] \notin Open
  /\ SetStatus(r, "payment_processed")
  /\ UNCHANGED <<tt, tranche, item>>
  /\ Call /\ Notice("payment_processed", r)

(* Whatever the status: the record lock is not looked at.                  *)
UploadTtCopy(r) ==
  /\ status[r] # "none"
  /\ tt' = [tt EXCEPT ![r] = TRUE]
  /\ UNCHANGED <<status, tranche, queued, aged, item>>
  /\ Call /\ Notice("tt_copy_uploaded", r)

(* The tranche handlers, as the super admin may call them: nobody may do    *)
(* more.  A rejected or cancelled tranche is dead here.                    *)
TrancheCall(r, n, new, kind) ==
  /\ status[r] \notin TerminalStatuses \cup {"none"}
  /\ tranche' = [tranche EXCEPT ![r][n] = new]
  /\ Call /\ Leave(<<Task(kind, r, n, Raiser)>>)
  /\ UNCHANGED <<tt, item>>

KeepStatus == UNCHANGED <<status, queued, aged>>

(* Adding to a processed file reopens it.                                  *)
AddTranche(r) ==
  /\ tranche[r][1] # "none" /\ tranche[r][2] = "none"
  /\ TrancheCall(r, 2, "unreleased", "tranche_added")
  /\ IF status[r] = "payment_processed" THEN SetStatus(r, "pending_payment")
                                        ELSE KeepStatus

ReleaseTranche(r) ==
  /\ tranche[r][2] = "unreleased"
  /\ TrancheCall(r, 2, "unpaid", "tranche_released")
  /\ KeepStatus

UpdateTranche(r) ==
  /\ tranche[r][2] \in Open
  /\ TrancheCall(r, 2, tranche[r][2], "tranche_updated")
  /\ KeepStatus

(* A delete that leaves only a paid tranche completes the file; a cancel   *)
(* never does.                                                             *)
DeleteTranche(r) ==
  /\ tranche[r][2] \in Open
  /\ TrancheCall(r, 2, "none", "tranche_removed")
  /\ IF status[r] = "pending_payment" /\ tranche[r][1] = "paid"
     THEN SetStatus(r, "payment_processed") ELSE KeepStatus

CancelTranche(r) ==
  /\ tranche[r][2] \in Open
  /\ TrancheCall(r, 2, "dead", "tranche_removed")
  /\ KeepStatus

RejectTranche(r) ==
  /\ status[r] # "hold_by_merchandiser" /\ tranche[r][2] \in Open
  /\ TrancheCall(r, 2, "dead", "tranche_rejected")
  /\ KeepStatus

PayTranche(r, n) ==
  /\ status[r] = "pending_payment" /\ tranche[r][n] = "unpaid"
  /\ TrancheCall(r, n, "paid", "tranche_paid")
  /\ IF \A m \in Num \ {n} : tranche[r][m] \notin Open
     THEN SetStatus(r, "payment_processed") ELSE KeepStatus

(* Adjustments and remarks.  A merchandiser's adjustment waits, as every    *)
(* remark does; one that Accounts raise is complete.                       *)
ItemCall(i, new, task) ==
  /\ item' = [item EXCEPT ![i] = new]
  /\ UNCHANGED <<status, tt, tranche, queued, aged>>
  /\ Call /\ Leave(<<task>>)

IsRemark(i) == item[i].kind # "adjustment"

RaiseItem(i, kind, by) ==
  /\ item[i].state = "none" /\ RoleOf[by] \in Deciders \cup {"merchandiser"}
  /\ ItemCall(i, [Unraised EXCEPT !.kind = kind, !.by = by,
                    !.state = IF kind = "adjustment" /\ RoleOf[by] \in Deciders
                              THEN "approved" ELSE "pending"],
              Task(IF kind = "adjustment" THEN "adjustment_created" ELSE "file_remark_raised",
                   i, 0, by))

DecideItem(i, decision, by) ==
  /\ item[i].state = "pending" /\ RoleOf[by] \in Deciders
  /\ ItemCall(i, [item[i] EXCEPT !.state = decision, !.resolver = {by}],
              Task(IF IsRemark(i) THEN "file_remark_decided" ELSE "adjustment_decided", i, 0, by))

ApplyRevisedAmount(i, by) ==
  /\ item[i].kind = "value_change" /\ item[i].state = "approved"
  /\ RoleOf[by] \in Deciders
  /\ ItemCall(i, [item[i] EXCEPT !.state = "applied"], Task("amount_updated", i, 0, by))

ItemHandler(i) ==
  \E by \in Users :
    \/ \E kind \in Kinds : RaiseItem(i, kind, by)
    \/ \E decision \in {"approved", "rejected"} : DecideItem(i, decision, by)
    \/ ApplyRevisedAmount(i, by)

RequestCall(r) ==
  \/ CreateRequest(r)
  \/ \E by \in Users :
       \/ HoldRequest(r, by) \/ ResumeRequest(r, by) \/ CancelRequest(r, by)
       \/ ReopenRequest(r, by) \/ RejectRequest(r, by)
       \/ HomApprove(r, by) \/ HomReject(r, by)
  \/ ProcessPayment(r) \/ UploadTtCopy(r)

TrancheHandler(r) ==
  \/ AddTranche(r) \/ ReleaseTranche(r) \/ UpdateTranche(r) \/ DeleteTranche(r)
  \/ CancelTranche(r) \/ RejectTranche(r)
  \/ \E n \in Num : PayTranche(r, n)

--------------------------------------------------------------------------------
(* The sessions of the tasks and of the jobs.                              *)

calls == <<origin, status, tt, tranche, queued, aged, item, events>>

(* The task at the head ends and the next one of the response begins.      *)
NextTask(s) ==
  /\ jobs' = [jobs EXCEPT ![s] = IF @ = << >> THEN @ ELSE Tail(@)]
  /\ plan' = [plan EXCEPT ![s] = << >>]
  /\ stored' = [stored EXCEPT ![s] = FALSE]

Read(s) ==
  /\ jobs[s] # << >> /\ plan[s] = << >>
  /\ LET p == Notify(Head(jobs[s])) IN
       IF p = << >> THEN NextTask(s)
       ELSE plan' = [plan EXCEPT ![s] = p] /\ UNCHANGED <<jobs, stored>>
  /\ UNCHANGED <<calls, today, bell, mailed, losses>>

(* A job runs some time or other, never twice at once; a run with nothing  *)
(* to deliver leaves no trace.                                             *)
StartJob(j) ==
  /\ plan[j] = << >>
  /\ \E p \in JobPlans(j) \ {<< >>} : plan' = [plan EXCEPT ![j] = p]
  /\ UNCHANGED <<calls, today, bell, mailed, jobs, stored, losses>>

Running(s) == plan[s] # << >>

Store(s) ==
  LET b == Head(plan[s]) IN
  /\ Running(s) /\ ~stored[s]
  /\ bell' = bell \cup {[user |-> u, type |-> b.type, on |-> b.on] : u \in b.to}
  /\ stored' = [stored EXCEPT ![s] = TRUE]
  /\ UNCHANGED <<calls, today, mailed, jobs, plan, losses>>

(* Pushes and the e-mail; their errors are caught where they are sent.     *)
Send(s) ==
  LET b == Head(plan[s]) IN
  /\ Running(s) /\ stored[s]
  /\ mailed' = IF b.mail THEN mailed \cup {b.on} ELSE mailed
  /\ IF Len(plan[s]) = 1 THEN NextTask(s)
     ELSE /\ plan' = [plan EXCEPT ![s] = Tail(@)]
          /\ stored' = [stored EXCEPT ![s] = FALSE]
          /\ UNCHANGED jobs
  /\ UNCHANGED <<calls, today, bell, losses>>

(* A task or job fails at any point: what it committed stays.  In the      *)
(* fallback the rollback expires the requests still to be visited, so the  *)
(* whole run is over.                                                      *)
Fail(s) ==
  /\ losses < MaxLosses /\ losses' = losses + 1
  /\ jobs[s] # << >> \/ Running(s)
  /\ NextTask(s)
  /\ UNCHANGED <<calls, today, bell, mailed>>

(* The server restarts: nothing of the tasks is kept.                      *)
Restart ==
  /\ losses < MaxLosses /\ losses' = losses + 1
  /\ \E s \in Session : jobs[s] # << >> \/ Running(s)
  /\ jobs' = [s \in Session |-> << >>]
  /\ plan' = [s \in Session |-> << >>]
  /\ stored' = [s \in Session |-> FALSE]
  /\ UNCHANGED <<calls, today, bell, mailed>>

(* The clock.  The days after the last one are alike.                      *)
HourPasses(r) ==
  /\ status[r] = "payment_processed" /\ r \notin aged
  /\ aged' = aged \cup {r}
  /\ UNCHANGED <<origin, status, tt, tranche, queued, item, today, bell, mailed,
                 session, events, losses>>

NewDay ==
  /\ today < LastDay /\ today' = today + 1
  /\ UNCHANGED <<calls, bell, mailed, session, losses>>

SessionStep(s) == Read(s) \/ Store(s) \/ Send(s)

Next ==
  \/ \E r \in Requests : RequestCall(r) \/ TrancheHandler(r) \/ HourPasses(r)
  \/ \E i \in Items : ItemHandler(i)
  \/ \E s \in Session : SessionStep(s) \/ Fail(s)
  \/ \E j \in Jobs : StartJob(j)
  \/ Restart \/ NewDay

(* The event loop runs every task, the clock of the scheduler goes on and  *)
(* so does time.                                                           *)
Fairness ==
  /\ \A s \in Session : WF_vars(SessionStep(s))
  /\ \A j \in Jobs : WF_vars(StartJob(j))
  /\ \A r \in Requests : WF_vars(HourPasses(r))
  /\ WF_vars(NewDay)

Spec == Init /\ [][Next]_vars /\ Fairness

--------------------------------------------------------------------------------
TypeOK ==
  /\ status \in [Requests -> RequestStatus \cup {"none"}]
  /\ tt \in [Requests -> BOOLEAN]
  /\ tranche \in [Requests -> [Num -> Open \cup {"none", "paid", "dead"}]]
  /\ aged \subseteq Requests /\ queued \subseteq Requests /\ mailed \subseteq Requests
  /\ today \in 0 .. LastDay
  /\ item \in [Items -> Item]
  /\ bell \subseteq Row
  /\ stored \in [Session -> BOOLEAN]

(* The follow-up that carries the TT copy reaches only somebody who has    *)
(* the payment-processed notice, however tasks and jobs interleave.        *)
FollowUpAfterPrimary ==
  \A row \in bell : row.type = "tt_copy_attached" =>
    [row EXCEPT !.type = "payment_processed"] \in bell

(* Accounts are asked to process a request only if it has been in their    *)
(* queue: the notice of a creation that waits for the head of              *)
(* merchandisers goes to these, whenever its task runs.                    *)
AccountsNotAskedEarly ==
  \A row \in bell : row.type = "request_created" => row.on \in queued

(* Losing tasks and runs of the job, at any point, leaves nobody unaware:  *)
(* a request that stays processed without a TT copy gets its notice.       *)
LostIsCaughtUp ==
  \A r \in Requests :
    status[r] = "payment_processed" /\ ~tt[r] /\ Target(r) # {}
      ~> Told(r) \/ tt[r] \/ status[r] # "payment_processed"

(* A tranche that is still unreleased on its date, in a request that stays *)
(* payable, is reminded of, even when runs of the job are lost.            *)
Forgotten(r) ==
  /\ origin[r] = "user" /\ status[r] = "pending_payment"
  /\ tranche[r][2] = "unreleased" /\ DueDay <= today

DueIsReminded ==
  \A r \in Requests :
    Forgotten(r)
      ~> \/ ~Forgotten(r)
         \/ [user |-> Raiser, type |-> "release_reminder", on |-> r] \in bell

(* Who has a row of one of the types.                                      *)
Heard(users, types, i) ==
  \A u \in users : \E row \in bell : row.user = u /\ row.on = i /\ row.type \in types

InHand(i) == \E s \in Session, k \in 1 .. 2 * MaxQueue :
               k \in DOMAIN jobs[s] /\ jobs[s][k].on = i

(* If no task is lost, then once the tasks of an item are done everybody    *)
(* has heard of it who should, however the decision overtakes the notice    *)
(* that asks for it: Accounts that it was raised, and that it waits while   *)
(* it does; the raiser what was decided; and both sides of a change of      *)
(* value what became of it (the notify_ functions of items).             *)
ItemsAreHeard ==
  \A i \in Items : item[i].state # "none" /\ losses = 0 /\ ~InHand(i) =>
    /\ Heard(Accounts \ {item[i].by},
             IF IsRemark(i) THEN {"file_remark_raised"}
             ELSE {"adjustment_requested"}
                  \cup IF item[i].state = "pending" THEN {} ELSE {"adjustment_recorded"}, i)
    /\ item[i].resolver # {} =>
         Heard({item[i].by}, {"adjustment_decided", "file_remark_resolved"}, i)
    /\ item[i].resolver # {} /\ item[i].kind = "value_change" =>
         Heard(Accounts \ item[i].resolver,
               {"file_remark_resolved", "file_remark_amount_updated"}, i)
    /\ item[i].state = "applied" /\ RoleOf[item[i].by] = "merchandiser" =>
         Heard({item[i].by}, {"file_remark_amount_updated"}, i)

================================================================================
