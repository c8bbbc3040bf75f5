----------------------------- MODULE NoticesProofs -----------------------------
(***************************************************************************)
(* Theorems about Notices, for any requests, items, users and workers.     *)
(* The argument follows a notice on its way: what a task that waits will   *)
(* say, what the batches of a task that has read still have to deliver,    *)
(* and what is in the table.                                               *)
(***************************************************************************)
EXTENDS Notices, SequenceTheorems, FiniteSetTheorems, TLAPS

RaisedKinds == {"adjustment_created", "file_remark_raised"}
DecidedKinds == {"adjustment_decided", "file_remark_decided"}
AppliedKinds == {"amount_updated"}
ItemKinds == RaisedKinds \cup DecidedKinds \cup AppliedKinds
RequestKinds ==
  {"tt_copy_uploaded", "payment_processed", "request_created", "hom_decision",
   "status_change", "request_rejected", "tranche_rejected", "tranche_paid",
   "tranche_added", "tranche_released", "tranche_updated", "tranche_removed"}

TaskType == [kind : RequestKinds \cup ItemKinds, on : Requests \cup Items,
             n : 0 .. 2, by : Users]

\* The ledger is about three types of notices.
LedgerTypes == {"request_created", "payment_processed", "tt_copy_attached"}
OtherTypes == NoticeType \ LedgerTypes
BatchType == [on : Requests \cup Items, to : SUBSET Users,
              type : NoticeType, mail : BOOLEAN]

\* A task is about what its kind says, and comes after what it announces.
IsTask(t, it) ==
  /\ t \in TaskType
  /\ t.kind \in RequestKinds => t.on \in Requests
  /\ t.kind \in ItemKinds => t.on \in Items /\ it[t.on].state # "none"
  /\ t.kind \in {"adjustment_created", "adjustment_decided"} =>
       it[t.on].kind = "adjustment"
  /\ t.kind \in {"file_remark_raised", "file_remark_decided"} =>
       it[t.on].kind # "adjustment"
  /\ t.kind \in DecidedKinds => it[t.on].state # "pending"
  /\ t.kind = "amount_updated" => RoleOf[t.by] \in Deciders

TasksOK ==
  /\ jobs \in [Session -> Seq(TaskType)]
  /\ \A s \in Session : /\ Len(jobs[s]) <= 2 * MaxQueue
                        /\ \A k \in 1 .. Len(jobs[s]) : IsTask(jobs[s][k], item)
  /\ \A j \in Jobs : jobs[j] = << >>

\* What may be on its way: Accounts are asked about requests that have been in
\* their queue, and the follow-up goes to whom the primary notice went to.
BatchOK(b) ==
  /\ b.type = "request_created" => b.on \in queued
  /\ b.type \in {"payment_processed", "tt_copy_attached"} => b.to = Target(b.on)
  /\ b.type = "tt_copy_attached" => Told(b.on)
  /\ b.mail => b.on \in Requests

PlansOK ==
  /\ plan \in [Session -> Seq(BatchType)]
  /\ \A s \in Session : /\ \A k \in 1 .. Len(plan[s]) : BatchOK(plan[s][k])
                        /\ plan[s] = << >> => ~stored[s]

BellOK ==
  \A row \in bell :
    /\ row.type = "request_created" => row.on \in queued
    /\ row.type = "payment_processed" => row.user \in Target(row.on)
    /\ row.type = "tt_copy_attached" => row.user \in Target(row.on) /\ Told(row.on)

InQueueBefore == \A r \in Requests : status[r] = "pending_payment" => r \in queued

TableInv == TypeOK /\ TasksOK /\ PlansOK /\ BellOK /\ InQueueBefore

--------------------------------------------------------------------------------
\* What has to be heard of an item, by the kind of the task that sees to it.
RaisedTypes(i) ==
  IF IsRemark(i) THEN {"file_remark_raised"}
  ELSE {"adjustment_requested"}
       \cup IF item[i].state = "pending" THEN {} ELSE {"adjustment_recorded"}
DecidedTypes == {"adjustment_decided", "file_remark_resolved"}
BothSidesTypes == {"file_remark_resolved", "file_remark_amount_updated"}

RaisedHeard(i) == Heard(Accounts \ {item[i].by}, RaisedTypes(i), i)
DecidedHeard(i) ==
  /\ Heard({item[i].by}, DecidedTypes, i)
  /\ item[i].kind = "value_change" => Heard(Accounts \ item[i].resolver, BothSidesTypes, i)
AmountHeard(i) ==
  RoleOf[item[i].by] = "merchandiser" =>
    Heard({item[i].by}, {"file_remark_amount_updated"}, i)

Waits(i, kinds) ==
  \E s \in Session : \E k \in 1 .. Len(jobs[s]) :
    jobs[s][k].on = i /\ jobs[s][k].kind \in kinds

\* The batch of a task that has read says all the task was left for.
Serves(t, b) ==
  /\ b.on = t.on
  /\ t.kind \in RaisedKinds =>
       Accounts \ {item[t.on].by} \subseteq b.to /\ b.type \in RaisedTypes(t.on)
  /\ t.kind \in DecidedKinds =>
       /\ item[t.on].by \in b.to /\ b.type \in DecidedTypes
       /\ item[t.on].kind = "value_change" =>
            Accounts \ item[t.on].resolver \subseteq b.to /\ b.type \in BothSidesTypes
  /\ t.kind = "amount_updated" =>
       /\ RoleOf[item[t.on].by] = "merchandiser" => item[t.on].by \in b.to
       /\ b.type = "file_remark_amount_updated"

Delivered(b) == \A u \in b.to : [user |-> u, type |-> b.type, on |-> b.on] \in bell

Served ==
  \A s \in Session :
    plan[s] # << >> /\ jobs[s] # << >> /\ jobs[s][1].kind \in ItemKinds =>
      /\ Len(plan[s]) = 1 /\ Serves(jobs[s][1], plan[s][1])
      /\ stored[s] => Delivered(plan[s][1])

\* A session of tasks delivers what its first task read; only the jobs have no task.
Occupied == \A s \in Session \ Jobs : plan[s] # << >> => jobs[s] # << >>

\* Unless a task was lost, what an item has gone through waits to be told or was.
Obliged ==
  losses = 0 =>
    \A i \in Items :
      /\ item[i].state # "none" => Waits(i, RaisedKinds) \/ RaisedHeard(i)
      /\ item[i].resolver # {} => Waits(i, DecidedKinds) \/ DecidedHeard(i)
      /\ item[i].state = "applied" => Waits(i, AppliedKinds) \/ AmountHeard(i)

\* An item has somebody who decided it as soon as it no longer waits.
ItemsOK ==
  \A i \in Items :
    /\ item[i].resolver # {} => item[i].state \notin {"none", "pending"}
    /\ item[i].state = "none" => item[i].resolver = {}

ItemInv == Served /\ Occupied /\ Obliged /\ ItemsOK /\ losses \in Nat

--------------------------------------------------------------------------------
\* The calls about requests leave tasks about requests and write no bell row.
RequestTasks(tasks) ==
  /\ tasks \in Seq(TaskType) /\ Len(tasks) <= 2
  /\ \A k \in 1 .. Len(tasks) : tasks[k].kind \in RequestKinds /\ tasks[k].on \in Requests

\* What a handler leaves behind is a task with the fields it was given.
LEMMA TaskIsTyped ==
  ASSUME NEW kind \in RequestKinds \cup ItemKinds, NEW on \in Requests \cup Items,
         NEW n \in 0 .. 2, NEW by \in Users
  PROVE  Task(kind, on, n, by) \in TaskType /\ Task(kind, on, n, by).kind = kind
         /\ Task(kind, on, n, by).on = on /\ Task(kind, on, n, by).by = by
BY DEF Task, TaskType

\* A single task about a request is a list of tasks about requests.
LEMMA OneRequestTask ==
  ASSUME NEW kind \in RequestKinds, NEW r \in Requests, NEW n \in 0 .. 2, NEW by \in Users
  PROVE  RequestTasks(<<Task(kind, r, n, by)>>)
<1> DEFINE t == Task(kind, r, n, by)
<1>1. t \in TaskType /\ t.kind = kind /\ t.on = r
  BY TaskIsTyped
<1> HIDE DEF t
<1>2. <<t>> \in Seq(TaskType) /\ Len(<<t>>) = 1 /\ <<t>>[1] = t
  BY <1>1
<1> QED
  BY <1>1, <1>2 DEF RequestTasks, t

\* What a call about requests does to the rest.
Quietly == UNCHANGED <<origin, item, today, bell, mailed, losses>>
LeavesRequestTasks ==
  \E tasks \in Seq(TaskType) : RequestTasks(tasks) /\ Leave(tasks)

StatusKept ==
  /\ status' \in [Requests -> RequestStatus \cup {"none"}]
  /\ queued \subseteq queued' /\ queued' \subseteq Requests /\ aged' \subseteq aged
  /\ \A r \in Requests : status'[r] = "pending_payment" =>
       status[r] = "pending_payment" \/ r \in queued'

\* Writing the status leaves the requests with a status and an origin.
LEMMA SetStatusKept ==
  ASSUME TypeOK, NEW r \in Requests, NEW new \in RequestStatus, SetStatus(r, new)
  PROVE  StatusKept
BY DEF TypeOK, SetStatus, StatusKept

TrancheType == [Num -> Open \cup {"none", "paid", "dead"}]

\* A transition writes the status and leaves a task about the request, nothing more.
LEMMA TransitionKept ==
  ASSUME TypeOK, NEW r \in Requests, NEW target, NEW by \in Users, Transition(r, target, by)
  PROVE  StatusKept /\ Quietly /\ UNCHANGED <<tt, tranche>>
<1>1. target \in RequestStatus
  BY DEF Transition, TransitionAllowed, AuthorMoves, AccountsMoves, HomMoves, RequestStatus
<1> QED
  BY <1>1, SetStatusKept DEF Transition, Call, Quietly

\* A call about a request leaves tasks about requests only, and touches no bell row.
LEMMA RequestCallKept ==
  ASSUME TypeOK, NEW r \in Requests, RequestCall(r)
  PROVE  /\ StatusKept /\ Quietly /\ LeavesRequestTasks
         /\ tt' \in [Requests -> BOOLEAN] /\ tranche' \in [Requests -> TrancheType]
<1> USE NoticesAssumption
<1>0. tt \in [Requests -> BOOLEAN] /\ tranche \in [Requests -> TrancheType]
      /\ Raiser \in Users
  BY DEF TypeOK, TrancheType
<1>1. ASSUME NEW kind \in RequestKinds, NEW by \in Users, Leave(<<Task(kind, r, 0, by)>>)
      PROVE  LeavesRequestTasks
  <2>1. 0 \in 0 .. 2
    OBVIOUS
  <2>2. RequestTasks(<<Task(kind, r, 0, by)>>)
    BY <2>1, OneRequestTask
  <2> QED
    BY <1>1, <2>2 DEF LeavesRequestTasks, RequestTasks
<1>2. CASE CreateRequest(r)
  <2>1. StatusKept
    BY <1>2, SetStatusKept DEF CreateRequest, RequestStatus
  <2>2. tranche' \in [Requests -> TrancheType]
    <3>1. PICK second \in {"none", "unreleased"} :
            tranche' = [tranche EXCEPT ![r] = <<"unpaid", second>>]
      BY <1>2 DEF CreateRequest
    <3>2. <<"unpaid", second>> \in TrancheType
      BY DEF TrancheType, Num, Open
    <3> QED
      BY <1>0, <3>1, <3>2
  <2> QED
    BY <1>0, <1>1, <1>2, <2>1, <2>2 DEF CreateRequest, Quietly, Notice, RequestKinds
<1>3. ASSUME NEW by \in Users,
             \/ HoldRequest(r, by) \/ ResumeRequest(r, by) \/ CancelRequest(r, by)
             \/ ReopenRequest(r, by) \/ RejectRequest(r, by) \/ HomReject(r, by)
      PROVE  /\ StatusKept /\ Quietly /\ LeavesRequestTasks
             /\ UNCHANGED <<tt, tranche>>
  <2>1. \E target : Transition(r, target, by)
    BY <1>3 DEF HoldRequest, ResumeRequest, CancelRequest, ReopenRequest, RejectRequest,
                HomReject, StatusChange
  <2>2. \E kind \in {"status_change", "request_rejected", "hom_decision"}, u \in {by, Raiser} :
          Leave(<<Task(kind, r, 0, u)>>)
    BY <1>3 DEF HoldRequest, ResumeRequest, CancelRequest, ReopenRequest, RejectRequest,
                HomReject, StatusChange, Notice
  <2>3. LeavesRequestTasks
    BY <1>0, <1>1, <2>2 DEF RequestKinds
  <2> QED
    BY <2>1, <2>3, TransitionKept
<1>4. ASSUME NEW by \in Users, HomApprove(r, by)
      PROVE  /\ StatusKept /\ Quietly /\ LeavesRequestTasks
             /\ UNCHANGED <<tt, tranche>>
  <2> DEFINE t == Task("hom_decision", r, 0, by)
             q == Task("request_created", r, 0, by)
  <2>1. /\ t \in TaskType /\ t.kind = "hom_decision" /\ t.on = r
        /\ q \in TaskType /\ q.kind = "request_created" /\ q.on = r
    <3>1. "hom_decision" \in RequestKinds \cup ItemKinds
          /\ "request_created" \in RequestKinds \cup ItemKinds /\ 0 \in 0 .. 2
      BY DEF RequestKinds
    <3> QED
      BY <3>1, TaskIsTyped
  <2>2. Leave(<<t, q>>) /\ Transition(r, "pending_payment", by)
    BY <1>4 DEF HomApprove
  <2> HIDE DEF t, q
  <2>3. <<t, q>> \in Seq(TaskType) /\ Len(<<t, q>>) = 2 /\ <<t, q>>[1] = t /\ <<t, q>>[2] = q
    BY <2>1
  <2>4. RequestTasks(<<t, q>>)
    <3>1. \A k \in 1 .. 2 : k = 1 \/ k = 2
      OBVIOUS
    <3> QED
      BY <2>1, <2>3, <3>1 DEF RequestTasks, RequestKinds
  <2>5. LeavesRequestTasks
    BY <2>2, <2>3, <2>4 DEF LeavesRequestTasks
  <2> QED
    BY <2>2, <2>5, TransitionKept
<1>5. CASE ProcessPayment(r)
  BY <1>0, <1>1, <1>5, SetStatusKept
     DEF ProcessPayment, Call, Quietly, Notice, RequestKinds, RequestStatus
<1>6. CASE UploadTtCopy(r)
  BY <1>0, <1>1, <1>6
     DEF UploadTtCopy, Call, Quietly, Notice, RequestKinds, StatusKept, TypeOK
<1> QED
  BY <1>0, <1>2, <1>3, <1>4, <1>5, <1>6 DEF RequestCall

\* A tranche handler leaves tasks about requests only, and touches no bell row.
LEMMA TrancheHandlerKept ==
  ASSUME TypeOK, NEW r \in Requests, TrancheHandler(r)
  PROVE  /\ StatusKept /\ Quietly /\ LeavesRequestTasks
         /\ tt' \in [Requests -> BOOLEAN] /\ tranche' \in [Requests -> TrancheType]
<1> USE NoticesAssumption
<1>0. /\ tt \in [Requests -> BOOLEAN] /\ tranche \in [Requests -> TrancheType]
      /\ tranche[r] \in TrancheType
      /\ 1 \in Num /\ 2 \in Num /\ Num \subseteq 0 .. 2 /\ Raiser \in Users
  BY DEF TypeOK, TrancheType, Num
<1>1. ASSUME NEW n \in Num, NEW new \in Open \cup {"none", "paid", "dead"},
             NEW kind \in RequestKinds, TrancheCall(r, n, new, kind)
      PROVE  /\ Quietly /\ LeavesRequestTasks
             /\ tt' \in [Requests -> BOOLEAN] /\ tranche' \in [Requests -> TrancheType]
  <2>1. LeavesRequestTasks
    BY <1>0, <1>1, OneRequestTask DEF TrancheCall, LeavesRequestTasks, RequestTasks
  <2>2. tranche' \in [Requests -> TrancheType]
    BY <1>0, <1>1 DEF TrancheCall, TrancheType
  <2> QED
    BY <1>0, <1>1, <2>1, <2>2 DEF TrancheCall, Call, Quietly
<1>2. KeepStatus => StatusKept
  BY DEF KeepStatus, StatusKept, TypeOK
<1>3. \A new \in RequestStatus : SetStatus(r, new) => StatusKept
  BY SetStatusKept
<1>4. "pending_payment" \in RequestStatus /\ "payment_processed" \in RequestStatus
  BY DEF RequestStatus
<1> USE DEF RequestKinds
<1>5. CASE AddTranche(r)
  BY <1>0, <1>1, <1>2, <1>3, <1>4, <1>5 DEF AddTranche, Open
<1>6. CASE ReleaseTranche(r)
  BY <1>0, <1>1, <1>2, <1>6 DEF ReleaseTranche, Open
<1>7. CASE UpdateTranche(r)
  BY <1>0, <1>1, <1>2, <1>7 DEF UpdateTranche
<1>8. CASE DeleteTranche(r)
  BY <1>0, <1>1, <1>2, <1>3, <1>4, <1>8 DEF DeleteTranche
<1>9. CASE CancelTranche(r) \/ RejectTranche(r)
  BY <1>0, <1>1, <1>2, <1>9 DEF CancelTranche, RejectTranche
<1>10. ASSUME NEW n \in Num, PayTranche(r, n)
       PROVE  /\ StatusKept /\ Quietly /\ LeavesRequestTasks
              /\ tt' \in [Requests -> BOOLEAN] /\ tranche' \in [Requests -> TrancheType]
  BY <1>0, <1>1, <1>2, <1>3, <1>4, <1>10 DEF PayTranche
<1> QED
  BY <1>5, <1>6, <1>7, <1>8, <1>9, <1>10 DEF TrancheHandler

--------------------------------------------------------------------------------
\* The calls about an item: it is raised, decided or applied, and the task that
\* announces this is left.
Raised(i, t) ==
  /\ item[i].state = "none" /\ item'[i].resolver = {}
  /\ item'[i].state \in {"pending", "approved"} /\ t.kind \in RaisedKinds
Decided(i, t) ==
  /\ item[i].state = "pending" /\ item'[i].state \in {"approved", "rejected"}
  /\ item'[i].kind = item[i].kind /\ item'[i].by = item[i].by
  /\ t.kind \in DecidedKinds
Applied(i, t) ==
  /\ item[i].state = "approved" /\ item'[i].state = "applied"
  /\ item'[i].kind = item[i].kind /\ item'[i].by = item[i].by
  /\ item'[i].resolver = item[i].resolver /\ t.kind = "amount_updated"

\* A handler of a remark or an adjustment changes that item alone and leaves one task, which
\* says what happened to it.
LEMMA ItemHandlerKept ==
  ASSUME TypeOK, NEW i \in Items, ItemHandler(i)
  PROVE  /\ UNCHANGED <<origin, status, tt, tranche, queued, aged, today, bell, mailed,
                        losses>>
         /\ item' \in [Items -> Item] /\ \A o \in Items \ {i} : item'[o] = item[o]
         /\ \E t \in TaskType : /\ Leave(<<t>>) /\ t.on = i /\ IsTask(t, item')
                                /\ Raised(i, t) \/ Decided(i, t) \/ Applied(i, t)
<1>0. item \in [Items -> Item] /\ item[i] \in Item /\ Raiser \in Users
  BY NoticesAssumption DEF TypeOK
<1>1. ASSUME NEW new \in Item, NEW t \in TaskType, ItemCall(i, new, t)
      PROVE  /\ UNCHANGED <<origin, status, tt, tranche, queued, aged, today, bell, mailed,
                            losses>>
             /\ item' = [item EXCEPT ![i] = new] /\ item'[i] = new /\ Leave(<<t>>)
  BY <1>0, <1>1 DEF ItemCall, Call
<1>2. \A kind \in RequestKinds \cup ItemKinds, by \in Users :
        Task(kind, i, 0, by) \in TaskType /\ Task(kind, i, 0, by).kind = kind
        /\ Task(kind, i, 0, by).on = i /\ Task(kind, i, 0, by).by = by
  BY TaskIsTyped
<1> USE DEF IsTask, ItemKinds, RaisedKinds, DecidedKinds, AppliedKinds, RequestKinds
<1>3. ASSUME NEW kind \in Kinds, NEW by \in Users, RaiseItem(i, kind, by)
      PROVE  \E new \in Item : \E t \in TaskType :
               /\ ItemCall(i, new, t) /\ t.on = i /\ (item'[i] = new => IsTask(t, item'))
               /\ item'[i] = new => Raised(i, t)
  <2> DEFINE waits == IF kind = "adjustment" /\ RoleOf[by] \in Deciders
                      THEN "approved" ELSE "pending"
             new == [Unraised EXCEPT !.kind = kind, !.by = by, !.state = waits]
             t == Task(IF kind = "adjustment" THEN "adjustment_created"
                       ELSE "file_remark_raised", i, 0, by)
  <2>1. item[i].state = "none" /\ ItemCall(i, new, t)
    BY <1>3 DEF RaiseItem
  <2>2. new \in Item /\ new.resolver = {} /\ new.state \in {"pending", "approved"}
        /\ new.kind = kind
    BY <1>0 DEF Item, Unraised
  <2>3. /\ t \in TaskType /\ t.on = i
        /\ t.kind = IF kind = "adjustment" THEN "adjustment_created"
                    ELSE "file_remark_raised"
    BY <1>2
  <2> HIDE DEF new, t
  <2> QED
    BY <2>1, <2>2, <2>3 DEF Raised
<1>4. ASSUME NEW decision \in {"approved", "rejected"}, NEW by \in Users,
             DecideItem(i, decision, by)
      PROVE  \E new \in Item : \E t \in TaskType :
               /\ ItemCall(i, new, t) /\ t.on = i /\ (item'[i] = new => IsTask(t, item'))
               /\ item'[i] = new => Decided(i, t)
  <2> DEFINE new == [item[i] EXCEPT !.state = decision, !.resolver = {by}]
             t == Task(IF IsRemark(i) THEN "file_remark_decided"
                       ELSE "adjustment_decided", i, 0, by)
  <2>1. item[i].state = "pending" /\ ItemCall(i, new, t)
    BY <1>4 DEF DecideItem
  <2>2. new \in Item /\ new.state = decision /\ new.kind = item[i].kind
        /\ new.by = item[i].by
    BY <1>0 DEF Item
  <2>3. /\ t \in TaskType /\ t.on = i
        /\ t.kind = IF IsRemark(i) THEN "file_remark_decided" ELSE "adjustment_decided"
    BY <1>2
  <2> HIDE DEF new, t
  <2> QED
    BY <2>1, <2>2, <2>3 DEF Decided, IsRemark
<1>5. ASSUME NEW by \in Users, ApplyRevisedAmount(i, by)
      PROVE  \E new \in Item : \E t \in TaskType :
               /\ ItemCall(i, new, t) /\ t.on = i /\ (item'[i] = new => IsTask(t, item'))
               /\ item'[i] = new => Applied(i, t)
  <2> DEFINE new == [item[i] EXCEPT !.state = "applied"]
             t == Task("amount_updated", i, 0, by)
  <2>1. item[i].state = "approved" /\ RoleOf[by] \in Deciders /\ ItemCall(i, new, t)
    BY <1>5 DEF ApplyRevisedAmount
  <2>2. new \in Item /\ new.state = "applied" /\ new.kind = item[i].kind
        /\ new.by = item[i].by /\ new.resolver = item[i].resolver
    BY <1>0 DEF Item
  <2>3. t \in TaskType /\ t.on = i /\ t.kind = "amount_updated" /\ t.by = by
    BY <1>2
  <2> HIDE DEF new, t
  <2> QED
    BY <2>1, <2>2, <2>3 DEF Applied
<1>6. \E new \in Item : \E t \in TaskType :
        /\ ItemCall(i, new, t) /\ t.on = i /\ (item'[i] = new => IsTask(t, item'))
        /\ item'[i] = new => Raised(i, t) \/ Decided(i, t) \/ Applied(i, t)
  BY <1>3, <1>4, <1>5 DEF ItemHandler
<1>7. PICK new \in Item, t \in TaskType :
        /\ ItemCall(i, new, t) /\ t.on = i /\ (item'[i] = new => IsTask(t, item'))
        /\ item'[i] = new => Raised(i, t) \/ Decided(i, t) \/ Applied(i, t)
  BY <1>6
<1>8. /\ item' = [item EXCEPT ![i] = new] /\ item'[i] = new /\ Leave(<<t>>)
  BY <1>1, <1>7
<1>9. item' \in [Items -> Item] /\ \A o \in Items \ {i} : item'[o] = item[o]
  BY <1>0, <1>8
<1> QED
  BY <1>1, <1>7, <1>8, <1>9

\* Tasks are added at the end: those that waited keep their places.
LEMMA LeaveTasks ==
  ASSUME TasksOK, NEW tasks \in Seq(TaskType), Len(tasks) <= 2, Leave(tasks),
         \A k \in 1 .. Len(tasks) : IsTask(tasks[k], item'),
         \A t \in TaskType : IsTask(t, item) => IsTask(t, item')
  PROVE  /\ TasksOK' /\ UNCHANGED <<plan, stored>>
         /\ \A s \in Session : \A k \in 1 .. Len(jobs[s]) :
              k \in 1 .. Len(jobs'[s]) /\ jobs'[s][k] = jobs[s][k]
         /\ \A k \in 1 .. Len(tasks) :
              \E s \in Session : \E m \in 1 .. Len(jobs'[s]) : jobs'[s][m] = tasks[k]
         /\ \A s \in Session : jobs[s] # << >> => jobs'[s] # << >>
<1>1. PICK w \in Workers : /\ Len(jobs[w]) < MaxQueue
                           /\ jobs' = [jobs EXCEPT ![w] = @ \o tasks]
                           /\ UNCHANGED <<plan, stored>>
  BY DEF Leave
<1> DEFINE new == jobs[w] \o tasks
<1>2. w \in Session /\ w \notin Jobs /\ MaxQueue \in Nat
  BY NoticesAssumption DEF Session
<1>3. jobs[w] \in Seq(TaskType) /\ jobs \in [Session -> Seq(TaskType)]
  BY <1>2 DEF TasksOK
<1>4. /\ new \in Seq(TaskType) /\ Len(new) = Len(jobs[w]) + Len(tasks)
      /\ \A k \in 1 .. Len(new) :
           new[k] = IF k <= Len(jobs[w]) THEN jobs[w][k] ELSE tasks[k - Len(jobs[w])]
  BY <1>3, ConcatProperties
<1> HIDE DEF new
<1>5. jobs' = [jobs EXCEPT ![w] = new]
  BY <1>1 DEF new
<1>6. Len(jobs[w]) \in Nat /\ Len(tasks) \in Nat /\ Len(new) \in Nat
  BY <1>3, <1>4, LenProperties
<1>7. \A k \in 1 .. Len(new) : IsTask(new[k], item')
  <2> TAKE k \in 1 .. Len(new)
  <2>1. CASE k <= Len(jobs[w])
    <3>1. k \in 1 .. Len(jobs[w]) /\ new[k] = jobs[w][k]
      BY <1>4, <1>6, <2>1
    <3>2. IsTask(jobs[w][k], item) /\ jobs[w][k] \in TaskType
      BY <1>2, <3>1 DEF TasksOK, IsTask
    <3> QED
      BY <3>1, <3>2
  <2>2. CASE ~(k <= Len(jobs[w]))
    <3>1. k - Len(jobs[w]) \in 1 .. Len(tasks) /\ new[k] = tasks[k - Len(jobs[w])]
      BY <1>4, <1>6, <2>2
    <3> QED
      BY <3>1
  <2> QED
    BY <2>1, <2>2
<1>8. TasksOK'
  <2>1. \A s \in Session : jobs'[s] = IF s = w THEN new ELSE jobs[s]
    BY <1>2, <1>3, <1>5
  <2>2. jobs' \in [Session -> Seq(TaskType)]
    BY <1>3, <1>4, <1>5
  <2>3. Len(new) <= 2 * MaxQueue
    BY <1>1, <1>2, <1>4, <1>6
  <2>4. \A s \in Session : /\ Len(jobs'[s]) <= 2 * MaxQueue
                           /\ \A k \in 1 .. Len(jobs'[s]) : IsTask(jobs'[s][k], item')
    <3> TAKE s \in Session
    <3>1. CASE s = w
      BY <2>1, <2>3, <1>7, <3>1
    <3>2. CASE s # w
      <4>1. jobs'[s] = jobs[s]
        BY <2>1, <3>2
      <4>2. \A k \in 1 .. Len(jobs[s]) : IsTask(jobs[s][k], item) /\ jobs[s][k] \in TaskType
        BY DEF TasksOK, IsTask
      <4> QED
        BY <4>1, <4>2 DEF TasksOK
    <3> QED
      BY <3>1, <3>2
  <2>5. \A j \in Jobs : jobs'[j] = << >>
    BY <1>2, <2>1 DEF TasksOK, Session
  <2> QED
    BY <2>2, <2>4, <2>5 DEF TasksOK
<1>9. \A s \in Session : \A k \in 1 .. Len(jobs[s]) :
        k \in 1 .. Len(jobs'[s]) /\ jobs'[s][k] = jobs[s][k]
  BY <1>2, <1>3, <1>4, <1>5, <1>6
<1>10. \A k \in 1 .. Len(tasks) :
         \E s \in Session : \E m \in 1 .. Len(jobs'[s]) : jobs'[s][m] = tasks[k]
  <2> TAKE k \in 1 .. Len(tasks)
  <2> DEFINE m == Len(jobs[w]) + k
  <2>1. m \in 1 .. Len(new) /\ ~(m <= Len(jobs[w])) /\ m - Len(jobs[w]) = k
    BY <1>4, <1>6
  <2>2. new[m] = tasks[k]
    BY <1>4, <2>1
  <2>3. jobs'[w] = new
    BY <1>2, <1>3, <1>5
  <2> QED
    BY <1>2, <2>1, <2>2, <2>3
<1>11. \A s \in Session : jobs[s] # << >> => jobs'[s] # << >>
  <2>1. jobs[w] # << >> => new # << >>
    BY <1>3, <1>4, <1>6, LenProperties
  <2> QED
    BY <1>2, <1>3, <1>5, <2>1
<1> QED
  BY <1>1, <1>8, <1>9, <1>10, <1>11

--------------------------------------------------------------------------------
\* What a task that reads works out to say.
GoodPlan(p) == p \in Seq(BatchType) /\ \A k \in 1 .. Len(p) : BatchOK(p[k])

\* To tell nobody is a right plan.
LEMMA EmptyPlan == GoodPlan(<< >>)
BY DEF GoodPlan

\* A right batch alone is a right plan.
LEMMA OneBatch ==
  ASSUME NEW b \in BatchType, BatchOK(b)
  PROVE  GoodPlan(<<b>>) /\ Len(<<b>>) = 1 /\ <<b>>[1] = b
<1>1. <<b>> \in Seq(BatchType) /\ Len(<<b>>) = 1 /\ <<b>>[1] = b
  OBVIOUS
<1>2. \A k \in 1 .. 1 : k = 1
  OBVIOUS
<1> QED
  BY <1>1, <1>2 DEF GoodPlan

\* Two right plans one after the other are a right plan.
LEMMA TwoPlans ==
  ASSUME NEW p, NEW q, GoodPlan(p), GoodPlan(q)
  PROVE  GoodPlan(p \o q)
<1>1. p \in Seq(BatchType) /\ q \in Seq(BatchType)
  BY DEF GoodPlan
<1>2. Len(p) \in Nat /\ Len(q) \in Nat
  BY <1>1, LenProperties
<1>3. /\ p \o q \in Seq(BatchType) /\ Len(p \o q) = Len(p) + Len(q)
      /\ \A k \in 1 .. Len(p) + Len(q) :
           (p \o q)[k] = IF k <= Len(p) THEN p[k] ELSE q[k - Len(p)]
  BY <1>1, ConcatProperties
<1> DEFINE both == p \o q
<1>4. \A k \in 1 .. Len(both) : BatchOK(both[k])
  <2> TAKE k \in 1 .. Len(both)
  <2>1. CASE k <= Len(p)
    <3>1. k \in 1 .. Len(p) /\ both[k] = p[k]
      BY <1>2, <1>3, <2>1
    <3> QED
      BY <3>1 DEF GoodPlan
  <2>2. CASE ~(k <= Len(p))
    <3>1. k - Len(p) \in 1 .. Len(q) /\ both[k] = q[k - Len(p)]
      BY <1>2, <1>3, <2>2
    <3> QED
      BY <3>1 DEF GoodPlan
  <2> QED
    BY <2>1, <2>2
<1> QED
  BY <1>3, <1>4 DEF GoodPlan

\* Telling users directly is a right plan, and one batch when there is anybody to tell.
LEMMA ToUsersGood ==
  ASSUME NEW on \in Requests \cup Items, NEW users \in SUBSET Users,
         NEW type \in OtherTypes
  PROVE  /\ GoodPlan(DeliverToUsers(on, users, type))
         /\ users # {} => /\ DeliverToUsers(on, users, type) # << >>
                          /\ Len(DeliverToUsers(on, users, type)) = 1
                          /\ DeliverToUsers(on, users, type)[1].on = on
                          /\ DeliverToUsers(on, users, type)[1].to = users
                          /\ DeliverToUsers(on, users, type)[1].type = type
<1> DEFINE b == Batch(on, users, type, FALSE)
<1>1. b \in BatchType /\ b.on = on /\ b.to = users /\ b.type = type /\ ~b.mail
  BY DEF Batch, BatchType, OtherTypes
<1>2. BatchOK(b)
  BY <1>1 DEF BatchOK, LedgerTypes, OtherTypes, NoticeType
<1> HIDE DEF b
<1>3. GoodPlan(<<b>>) /\ Len(<<b>>) = 1 /\ <<b>>[1] = b
  BY <1>1, <1>2, OneBatch
<1>4. <<b>> # << >>
  BY <1>3
<1> QED
  BY <1>1, <1>3, <1>4, EmptyPlan DEF DeliverToUsers, b

\* The people picked by role, and the requester, are users.
LEMMA UsersAreUsers ==
  /\ Accounts \in SUBSET Users /\ Heads \in SUBSET Users
  /\ WithRole(AccountsRoles) \in SUBSET Users /\ \A r : Target(r) \in SUBSET Users
BY NoticesAssumption DEF Accounts, Heads, WithRole, Target

\* What a task about a request plans is right: the follow-up only once its primary is queued.
LEMMA NotifyRequestGood ==
  ASSUME TableInv, NEW t \in TaskType, t.kind \in RequestKinds, t.on \in Requests
  PROVE  GoodPlan(Notify(t))
<1> DEFINE r == t.on
<1> USE UsersAreUsers DEF LedgerTypes, OtherTypes, NoticeType
<1>0. r \in Requests /\ r \in Requests \cup Items
  OBVIOUS
<1>1. \A type \in {"payment_processed", "tt_copy_attached"} :
        (type = "tt_copy_attached" => Told(r)) => GoodPlan(Deliver(r, type))
  <2> SUFFICES ASSUME NEW type \in {"payment_processed", "tt_copy_attached"},
                      type = "tt_copy_attached" => Told(r)
               PROVE  GoodPlan(Deliver(r, type))
    OBVIOUS
  <2> DEFINE b == Batch(r, Target(r), type, type = "payment_processed")
  <2>1. b \in BatchType /\ b.on = r /\ b.to = Target(r) /\ b.type = type
    BY <1>0 DEF Batch, BatchType
  <2>2. BatchOK(b)
    BY <2>1 DEF BatchOK
  <2> HIDE DEF b
  <2> QED
    BY <2>1, <2>2, OneBatch DEF Deliver, b
<1>2. CASE t.kind \in {"tt_copy_uploaded", "payment_processed"}
  BY <1>1, <1>2, EmptyPlan
     DEF Notify, NotifyTtCopyUploaded, NotifyPaymentProcessed, DeliverDecided,
         DecideOnTtUpload, DecideOnProcess
<1>3. CASE t.kind = "request_created"
  <2>1. GoodPlan(DeliverToUsers(r, Heads, "request_pending_hom"))
    BY <1>0, ToUsersGood
  <2>2. status[r] = "pending_payment" =>
          GoodPlan(DeliverToUsers(r, Accounts, "request_created"))
    <3> SUFFICES ASSUME status[r] = "pending_payment"
                 PROVE  GoodPlan(DeliverToUsers(r, Accounts, "request_created"))
      OBVIOUS
    <3> DEFINE b == Batch(r, Accounts, "request_created", FALSE)
    <3>1. b \in BatchType /\ b.on = r /\ b.to = Accounts /\ b.type = "request_created"
      BY <1>0 DEF Batch, BatchType
    <3>2. BatchOK(b)
      BY <3>1 DEF BatchOK, TableInv, InQueueBefore
    <3> HIDE DEF b
    <3> QED
      BY <3>1, <3>2, OneBatch, EmptyPlan DEF DeliverToUsers, b
  <2> QED
    BY <1>3, <2>1, <2>2, EmptyPlan DEF Notify, NotifyRequestCreated
<1>4. \A users \in SUBSET Users, type \in OtherTypes :
        GoodPlan(DeliverToUsers(r, users, type))
  BY <1>0, ToUsersGood
<1>5. \A type \in OtherTypes : GoodPlan(ToTargetAndHeads(r, type))
  BY <1>4, TwoPlans DEF ToTargetAndHeads
<1>6. \A p : GoodPlan(p) => GoodPlan(IfThere(r, t.n, p))
  BY EmptyPlan DEF IfThere
<1>7. GoodPlan(<<Batch(r, Target(r), "tranche_paid", FALSE)>>)
  <2> DEFINE b == Batch(r, Target(r), "tranche_paid", FALSE)
  <2>1. b \in BatchType /\ b.type = "tranche_paid" /\ ~b.mail
    BY <1>0 DEF Batch, BatchType
  <2>2. BatchOK(b)
    BY <2>1 DEF BatchOK
  <2> HIDE DEF b
  <2> QED
    BY <2>1, <2>2, OneBatch DEF b
<1>8. CASE t.kind \in {"hom_decision", "status_change"}
  BY <1>4, <1>8 DEF Notify, NotifyHomDecision, NotifyStatusChange
<1>9. CASE t.kind \in {"request_rejected", "tranche_rejected"}
  BY <1>5, <1>6, <1>9 DEF Notify, NotifyRequestRejected, NotifyTrancheRejected
<1>10. CASE t.kind = "tranche_paid"
  BY <1>6, <1>7, <1>10 DEF Notify, NotifyTranchePaid
<1>11. CASE t.kind \in {"tranche_added", "tranche_released"}
  BY <1>4, <1>6, <1>11 DEF Notify, NotifyTrancheAdded, NotifyTrancheReleased
<1>12. CASE t.kind \in {"tranche_updated", "tranche_removed"}
  BY <1>4, <1>6, <1>12 DEF Notify, NotifyTrancheUpdated, NotifyTrancheRemoved
<1> QED
  BY <1>2, <1>3, <1>8, <1>9, <1>10, <1>11, <1>12 DEF RequestKinds

\* A plan of one batch at most, which is empty for want of users only.
Says(p, on, users, type) ==
  /\ GoodPlan(p) /\ (p = << >> => users = {})
  /\ p # << >> => Len(p) = 1 /\ p[1].on = on /\ p[1].to = users /\ p[1].type = type

\* Nothing is left to be heard after a task about an item that has nobody to tell.
Void(t) ==
  /\ t.kind \in RaisedKinds => Accounts \ {item[t.on].by} = {}
  /\ t.kind \notin DecidedKinds
  /\ t.kind = "amount_updated" => RoleOf[item[t.on].by] # "merchandiser"

\* What a task about an item plans is right, and serves that task unless nobody is left to tell.
LEMMA NotifyItemGood ==
  ASSUME TypeOK, NEW t \in TaskType, IsTask(t, item), t.kind \in ItemKinds
  PROVE  /\ GoodPlan(Notify(t))
         /\ Notify(t) = << >> => Void(t)
         /\ Notify(t) # << >> => Len(Notify(t)) = 1 /\ Serves(t, Notify(t)[1])
<1> DEFINE i == t.on
<1> USE UsersAreUsers DEF LedgerTypes, OtherTypes, NoticeType
<1>0. /\ i \in Items /\ item[i] \in Item /\ item[i].by \in Users
      /\ item[i].state # "none" /\ t.by \in Users
  BY DEF IsTask, TypeOK, Item, TaskType
<1>1. \A users \in SUBSET Users, type \in OtherTypes :
        Says(DeliverToUsers(i, users, type), i, users, type)
  <2> TAKE users \in SUBSET Users, type \in OtherTypes
  <2>1. CASE users = {}
    BY <2>1, EmptyPlan DEF DeliverToUsers, Says
  <2>2. CASE users # {}
    <3>1. i \in Requests \cup Items
      BY <1>0
    <3> QED
      BY <2>2, <3>1, ToUsersGood DEF Says
  <2> QED
    BY <2>1, <2>2
<1> USE DEF ItemKinds, RaisedKinds, DecidedKinds, AppliedKinds
<1>2. CASE t.kind = "adjustment_created"
  <2> DEFINE type == IF item[i].state = "pending" THEN "adjustment_requested"
                     ELSE "adjustment_recorded"
             p == DeliverToUsers(i, Accounts \ {item[i].by}, type)
  <2>1. Notify(t) = p
    BY <1>0, <1>2 DEF Notify, NotifyAdjustmentCreated
  <2>2. Says(p, i, Accounts \ {item[i].by}, type)
    BY <1>1
  <2>3. type \in RaisedTypes(i)
    BY <1>2 DEF RaisedTypes, IsRemark, IsTask
  <2> HIDE DEF p, type
  <2> QED
    BY <1>2, <2>1, <2>2, <2>3 DEF Says, Void, Serves
<1>3. CASE t.kind = "file_remark_raised"
  <2> DEFINE p == DeliverToUsers(i, Accounts \ {item[i].by}, "file_remark_raised")
  <2>1. Notify(t) = p
    BY <1>3 DEF Notify, NotifyFileRemarkRaised
  <2>2. Says(p, i, Accounts \ {item[i].by}, "file_remark_raised")
    BY <1>1
  <2>3. "file_remark_raised" \in RaisedTypes(i)
    BY <1>3 DEF RaisedTypes, IsRemark, IsTask
  <2> HIDE DEF p
  <2> QED
    BY <1>3, <2>1, <2>2, <2>3 DEF Says, Void, Serves
<1>4. CASE t.kind = "adjustment_decided"
  <2> DEFINE p == DeliverToUsers(i, {item[i].by}, "adjustment_decided")
  <2>1. Notify(t) = p
    BY <1>4 DEF Notify, NotifyAdjustmentDecided
  <2>2. Says(p, i, {item[i].by}, "adjustment_decided")
    BY <1>0, <1>1
  <2>3. item[i].kind # "value_change"
    BY <1>4 DEF IsTask
  <2> HIDE DEF p
  <2> QED
    BY <1>4, <2>1, <2>2, <2>3 DEF Says, Serves, DecidedTypes
<1>5. CASE t.kind = "file_remark_decided"
  <2> DEFINE users == {item[i].by} \cup IF item[i].kind = "value_change"
                                        THEN Accounts \ item[i].resolver ELSE {}
             p == DeliverToUsers(i, users, "file_remark_resolved")
  <2>1. Notify(t) = p
    BY <1>5 DEF Notify, NotifyFileRemarkDecided
  <2>2. users \in SUBSET Users /\ item[i].by \in users
        /\ (item[i].kind = "value_change" => Accounts \ item[i].resolver \subseteq users)
    BY <1>0
  <2> HIDE DEF users
  <2>3. Says(p, i, users, "file_remark_resolved")
    BY <1>1, <2>2
  <2> HIDE DEF p
  <2> QED
    BY <1>5, <2>1, <2>2, <2>3 DEF Says, Serves, DecidedTypes, BothSidesTypes
<1>6. CASE t.kind = "amount_updated"
  <2> DEFINE users == (Accounts \cup {item[i].by}) \ {t.by}
             p == DeliverToUsers(i, users, "file_remark_amount_updated")
  <2>1. Notify(t) = p
    BY <1>6 DEF Notify, NotifyFileRemarkAmountUpdated
  <2>2. users \in SUBSET Users
        /\ (RoleOf[item[i].by] = "merchandiser" => item[i].by \in users)
    BY <1>0, <1>6 DEF IsTask, Deciders
  <2> HIDE DEF users
  <2>3. Says(p, i, users, "file_remark_amount_updated")
    BY <1>1, <2>2
  <2> HIDE DEF p
  <2> QED
    BY <1>6, <2>1, <2>2, <2>3 DEF Says, Serves, Void
<1> QED
  BY <1>2, <1>3, <1>4, <1>5, <1>6

--------------------------------------------------------------------------------
\* The table: initially, and as it grows.

\* At the start nothing is queued, planned or told.
LEMMA InitTableInv == Init => TableInv /\ ItemInv
<1> SUFFICES ASSUME Init PROVE TableInv /\ ItemInv
  OBVIOUS
<1> USE NoticesAssumption DEF Init
<1>1. status \in [Requests -> RequestStatus \cup {"none"}]
  BY DEF RequestStatus
<1>2. tranche \in [Requests -> TrancheType] /\ Unraised \in Item
  BY DEF TrancheType, Open, Unraised, Item, Kinds
<1>3. TypeOK
  BY <1>1, <1>2 DEF TypeOK, TrancheType
<1>4. << >> \in Seq(TaskType) /\ << >> \in Seq(BatchType) /\ Len(<< >>) = 0
  OBVIOUS
<1>5. TasksOK
  BY <1>4 DEF TasksOK, Session
<1>6. PlansOK
  BY <1>4 DEF PlansOK
<1>7. BellOK /\ InQueueBefore
  BY DEF BellOK, InQueueBefore
<1>8. Served /\ Occupied /\ losses \in Nat
  BY DEF Served, Occupied
<1>9. \A i \in Items : item[i].state = "none" /\ item[i].resolver = {}
  BY DEF Unraised
<1> QED
  BY <1>3, <1>5, <1>6, <1>7, <1>8, <1>9 DEF TableInv, ItemInv, Obliged, ItemsOK

\* A batch stays right while the table and the queue's history only grow.
LEMMA GrowingBell ==
  ASSUME UNCHANGED origin, bell \subseteq bell', queued \subseteq queued', NEW b, BatchOK(b)
  PROVE  BatchOK(b)'
BY DEF BatchOK, Told, Target

\* The plans stay right when one session takes up a plan that is right.
LEMMA PlansChange ==
  ASSUME PlansOK, UNCHANGED origin, bell \subseteq bell', queued \subseteq queued',
         NEW s \in Session, NEW p, GoodPlan(p),
         plan' \in [Session -> Seq(BatchType)], plan'[s] = p, p = << >> => ~stored'[s],
         \A u \in Session \ {s} : plan'[u] = plan[u] /\ stored'[u] = stored[u]
  PROVE  PlansOK'
<1>1. ASSUME NEW u \in Session, NEW k \in 1 .. Len(plan'[u])
      PROVE  BatchOK(plan[u][k])'
  <2>1. PICK b : b = plan'[u][k] /\ BatchOK(b)
    BY DEF PlansOK, GoodPlan
  <2> QED
    BY <2>1 DEF BatchOK, Told, Target
<1>2. \A u \in Session : plan'[u] = << >> => ~stored'[u]
  BY DEF PlansOK
<1> QED
  BY <1>1, <1>2 DEF PlansOK

\* The plans stay right when no session takes up another one.
LEMMA PlansStay ==
  ASSUME PlansOK, UNCHANGED <<origin, plan, stored>>,
         bell \subseteq bell', queued \subseteq queued'
  PROVE  PlansOK'
<1>1. ASSUME NEW u \in Session, NEW k \in 1 .. Len(plan'[u])
      PROVE  BatchOK(plan[u][k])'
  <2>1. PICK b : b = plan'[u][k] /\ BatchOK(b)
    BY DEF PlansOK
  <2> QED
    BY <2>1 DEF BatchOK, Told, Target
<1> QED
  BY <1>1 DEF PlansOK

\* Bell rows that were right stay right while the queue only grows.
LEMMA BellStays ==
  ASSUME BellOK, UNCHANGED <<origin, bell>>, queued \subseteq queued'
  PROVE  BellOK'
BY DEF BellOK, Told, Target

\* The calls about requests and tranches keep the tables right.
LEMMA RequestStepTableInv ==
  ASSUME TableInv, NEW r \in Requests, RequestCall(r) \/ TrancheHandler(r)
  PROVE  TableInv'
<1>1. /\ StatusKept /\ Quietly /\ LeavesRequestTasks
      /\ tt' \in [Requests -> BOOLEAN] /\ tranche' \in [Requests -> TrancheType]
  BY RequestCallKept, TrancheHandlerKept DEF TableInv
<1>2. PICK tasks \in Seq(TaskType) : RequestTasks(tasks) /\ Leave(tasks)
  BY <1>1 DEF LeavesRequestTasks
<1>3. TasksOK' /\ UNCHANGED <<plan, stored>>
  <2>1. \A k \in 1 .. Len(tasks) : tasks[k] \in TaskType
    BY ElementOfSeq
  <2>2. \A k \in 1 .. Len(tasks) : IsTask(tasks[k], item')
    BY <1>2, <2>1 DEF RequestTasks, IsTask, RequestKinds, ItemKinds, RaisedKinds, DecidedKinds, AppliedKinds
  <2>3. \A t \in TaskType : IsTask(t, item) => IsTask(t, item')
    BY <1>1 DEF Quietly
  <2> QED
    BY <1>2, <2>2, <2>3, LeaveTasks DEF TableInv, RequestTasks
<1>4. TypeOK'
  BY <1>1, <1>3 DEF TableInv, TypeOK, StatusKept, Quietly, TrancheType
<1>5. PlansOK' /\ BellOK'
  BY <1>1, <1>3, PlansStay, BellStays DEF TableInv, StatusKept, Quietly
<1>6. InQueueBefore'
  BY <1>1 DEF TableInv, InQueueBefore, StatusKept
<1> QED
  BY <1>3, <1>4, <1>5, <1>6 DEF TableInv

\* What an item goes through leaves the tasks about it right.
LEMMA TasksStayTasks ==
  ASSUME NEW i \in Items, \A o \in Items \ {i} : item'[o] = item[o], NEW t \in TaskType,
         Raised(i, t) \/ Decided(i, t) \/ Applied(i, t)
  PROVE  \A q \in TaskType : IsTask(q, item) => IsTask(q, item')
<1> SUFFICES ASSUME NEW q \in TaskType, IsTask(q, item) PROVE IsTask(q, item')
  OBVIOUS
<1>1. CASE q.on # i
  BY <1>1 DEF IsTask, ItemKinds, RaisedKinds, DecidedKinds, AppliedKinds
<1>2. CASE q.on = i
  BY <1>2 DEF IsTask, Raised, Decided, Applied, ItemKinds, RaisedKinds, DecidedKinds, AppliedKinds
<1> QED
  BY <1>1, <1>2

\* A call about an item keeps the table in order.
LEMMA ItemStepTableInv ==
  ASSUME TableInv, NEW i \in Items, ItemHandler(i)
  PROVE  TableInv' /\ UNCHANGED <<plan, stored, bell, losses>>
<1>1. /\ UNCHANGED <<origin, status, tt, tranche, queued, aged, today, bell, mailed,
                     losses>>
      /\ item' \in [Items -> Item] /\ \A o \in Items \ {i} : item'[o] = item[o]
      /\ \E t \in TaskType : /\ Leave(<<t>>) /\ t.on = i /\ IsTask(t, item')
                             /\ Raised(i, t) \/ Decided(i, t) \/ Applied(i, t)
  BY ItemHandlerKept DEF TableInv
<1>2. PICK t \in TaskType : /\ Leave(<<t>>) /\ t.on = i /\ IsTask(t, item')
                            /\ Raised(i, t) \/ Decided(i, t) \/ Applied(i, t)
  BY <1>1
<1>3. \A q \in TaskType : IsTask(q, item) => IsTask(q, item')
  BY <1>1, <1>2, TasksStayTasks
<1>4. TasksOK' /\ UNCHANGED <<plan, stored>>
  <2>1. <<t>> \in Seq(TaskType) /\ Len(<<t>>) = 1 /\ <<t>>[1] = t
    OBVIOUS
  <2>2. \A k \in 1 .. Len(<<t>>) : IsTask(<<t>>[k], item')
    BY <1>2, <2>1
  <2> DEFINE tasks == <<t>>
  <2>3. tasks \in Seq(TaskType) /\ Len(tasks) <= 2 /\ Leave(tasks)
        /\ \A k \in 1 .. Len(tasks) : IsTask(tasks[k], item')
    BY <1>2, <2>1, <2>2
  <2> HIDE DEF tasks
  <2> QED
    BY <1>3, <2>3, LeaveTasks DEF TableInv
<1>5. TypeOK'
  BY <1>1, <1>4 DEF TableInv, TypeOK
<1>6. PlansOK' /\ BellOK' /\ InQueueBefore'
  BY <1>1, <1>4, PlansStay, BellStays DEF TableInv, InQueueBefore
<1> QED
  BY <1>1, <1>4, <1>5, <1>6 DEF TableInv

\* The end of a task takes it from the head of the queue.
LEMMA NextTaskKept ==
  ASSUME TasksOK, plan \in [Session -> Seq(BatchType)], stored \in [Session -> BOOLEAN],
         NEW s \in Session, NextTask(s), UNCHANGED item
  PROVE  /\ TasksOK' /\ stored' \in [Session -> BOOLEAN]
         /\ plan' \in [Session -> Seq(BatchType)] /\ plan'[s] = << >> /\ ~stored'[s]
         /\ \A u \in Session \ {s} :
              jobs'[u] = jobs[u] /\ plan'[u] = plan[u] /\ stored'[u] = stored[u]
         /\ \A k \in 1 .. Len(jobs[s]) : k # 1 =>
              k - 1 \in 1 .. Len(jobs'[s]) /\ jobs'[s][k - 1] = jobs[s][k]
<1> DEFINE rest == IF jobs[s] = << >> THEN jobs[s] ELSE Tail(jobs[s])
<1>0. jobs \in [Session -> Seq(TaskType)] /\ jobs[s] \in Seq(TaskType)
      /\ Len(jobs[s]) \in Nat
  BY LenProperties DEF TasksOK
<1>1. /\ rest \in Seq(TaskType) /\ Len(rest) \in Nat /\ Len(rest) <= Len(jobs[s])
      /\ \A k \in 1 .. Len(rest) : k + 1 \in 1 .. Len(jobs[s]) /\ rest[k] = jobs[s][k + 1]
      /\ Len(jobs[s]) <= Len(rest) + 1
  <2>1. CASE jobs[s] = << >>
    BY <1>0, <2>1, EmptySeq
  <2>2. CASE jobs[s] # << >>
    <3>1. /\ rest \in Seq(TaskType) /\ Len(rest) = Len(jobs[s]) - 1
          /\ \A k \in 1 .. Len(rest) : rest[k] = jobs[s][k + 1]
      BY <1>0, <2>2, HeadTailProperties
    <3>2. Len(jobs[s]) \in Nat \ {0}
      BY <1>0, <2>2, EmptySeq
    <3> HIDE DEF rest
    <3> QED
      BY <3>1, <3>2
  <2> QED
    BY <2>1, <2>2
<1>2. jobs' = [jobs EXCEPT ![s] = rest]
  BY DEF NextTask
<1>3. jobs[s] = << >> => rest = << >>
  OBVIOUS
<1> HIDE DEF rest
<1>4. jobs'[s] = rest /\ \A u \in Session \ {s} : jobs'[u] = jobs[u]
  BY <1>0, <1>2
<1>5. TasksOK'
  <2>1. jobs' \in [Session -> Seq(TaskType)]
    BY <1>0, <1>1, <1>2
  <2>2. ASSUME NEW u \in Session
        PROVE  /\ Len(jobs'[u]) <= 2 * MaxQueue
               /\ \A k \in 1 .. Len(jobs'[u]) : IsTask(jobs'[u][k], item')
    <3>1. Len(jobs[u]) <= 2 * MaxQueue /\ \A k \in 1 .. Len(jobs[u]) : IsTask(jobs[u][k], item)
      BY DEF TasksOK
    <3>2. CASE u = s
      <4>1. Len(rest) <= 2 * MaxQueue
        BY <1>0, <1>1, <3>1, <3>2, NoticesAssumption
      <4>2. \A k \in 1 .. Len(rest) : IsTask(rest[k], item)
        BY <1>1, <3>1, <3>2
      <4> QED
        BY <1>4, <3>2, <4>1, <4>2
    <3>3. CASE u # s
      BY <1>4, <3>1, <3>3
    <3> QED
      BY <3>2, <3>3
  <2>3. \A j \in Jobs : jobs'[j] = << >>
    BY <1>3, <1>4 DEF TasksOK, Session
  <2> QED
    BY <2>1, <2>2, <2>3 DEF TasksOK
<1>6. << >> \in Seq(BatchType)
  OBVIOUS
<1>7. \A k \in 1 .. Len(jobs[s]) : k # 1 =>
        k - 1 \in 1 .. Len(jobs'[s]) /\ jobs'[s][k - 1] = jobs[s][k]
  <2> TAKE k \in 1 .. Len(jobs[s])
  <2> HAVE k # 1
  <2>1. k - 1 \in 1 .. Len(rest) /\ (k - 1) + 1 = k
    BY <1>0, <1>1
  <2>2. rest[k - 1] = jobs[s][(k - 1) + 1]
    BY <1>1, <2>1
  <2> QED
    BY <1>4, <2>1, <2>2
<1> QED
  BY <1>4, <1>5, <1>6, <1>7 DEF NextTask

\* A plan of a job is in order: the fallback goes to whom the primary notice
\* goes to, and reminders are not in the ledger.
LEMMA JobPlanGood ==
  ASSUME TableInv, NEW j \in Jobs, NEW p \in JobPlans(j)
  PROVE  GoodPlan(p)
<1>0. IsFiniteSet(Unaware) /\ IsFiniteSet(Unreleased)
      /\ Unaware \subseteq Requests /\ Unreleased \subseteq Requests
  <2>1. Unaware \subseteq Requests /\ Unreleased \subseteq Requests
    BY DEF Unaware, Unreleased, TableInv, TypeOK
  <2> QED
    BY <2>1, FS_Subset, NoticesAssumption
<1>1. ASSUME NEW S, IsFiniteSet(S), S \subseteq Requests, NEW q \in SetToSeqs(S)
      PROVE  \E n \in Nat : DOMAIN q = 1 .. n /\ \A i \in 1 .. n : q[i] \in Requests
  <2>1. Cardinality(S) \in Nat
    BY <1>1, FS_CardinalityType
  <2>2. q \in [1 .. Cardinality(S) -> S]
    BY DEF SetToSeqs
  <2> QED
    BY <1>1, <2>1, <2>2
<1>2. ASSUME NEW r \in Requests
      PROVE  /\ Fallback(r) \in BatchType /\ BatchOK(Fallback(r))
             /\ Reminder(r) \in BatchType /\ BatchOK(Reminder(r))
  <2>1. Target(r) \in SUBSET Users
    BY UsersAreUsers
  <2> QED
    BY <2>1 DEF Fallback, Reminder, Batch, BatchType, BatchOK, LedgerTypes, OtherTypes, NoticeType
<1>3. \A n \in Nat : \A f \in [1 .. n -> BatchType] : f \in Seq(BatchType) /\ Len(f) = n
  BY SeqDef, LenProperties
<1>4. ASSUME NEW q \in SetToSeqs(Unaware), p = [i \in DOMAIN q |-> Fallback(q[i])]
      PROVE  GoodPlan(p)
  <2>1. PICK n \in Nat : DOMAIN q = 1 .. n /\ \A i \in 1 .. n : q[i] \in Requests
    BY <1>0, <1>1
  <2>2. \A i \in 1 .. n : p[i] = Fallback(q[i]) /\ p[i] \in BatchType /\ BatchOK(p[i])
    BY <1>2, <1>4, <2>1
  <2>3. p \in [1 .. n -> BatchType]
    BY <1>4, <2>1, <2>2
  <2>4. p \in Seq(BatchType) /\ Len(p) = n
    BY <1>3, <2>3
  <2> QED
    BY <2>2, <2>4 DEF GoodPlan
<1>5. ASSUME NEW q \in SetToSeqs(Unreleased), p = [i \in DOMAIN q |-> Reminder(q[i])]
      PROVE  GoodPlan(p)
  <2>1. PICK n \in Nat : DOMAIN q = 1 .. n /\ \A i \in 1 .. n : q[i] \in Requests
    BY <1>0, <1>1
  <2>2. \A i \in 1 .. n : p[i] = Reminder(q[i]) /\ p[i] \in BatchType /\ BatchOK(p[i])
    BY <1>2, <1>5, <2>1
  <2>3. p \in [1 .. n -> BatchType]
    BY <1>5, <2>1, <2>2
  <2>4. p \in Seq(BatchType) /\ Len(p) = n
    BY <1>3, <2>3
  <2> QED
    BY <2>2, <2>4 DEF GoodPlan
<1> QED
  BY <1>4, <1>5 DEF JobPlans

--------------------------------------------------------------------------------
\* The steps of the sessions keep the table in order.

\* What the steps of the sessions leave alone.
CallsRest == UNCHANGED <<calls, today>>

\* The parts that only the calls and the clock can change.
LEMMA RestStays ==
  ASSUME TableInv, CallsRest, bell' = bell, mailed' \subseteq Requests,
         stored' \in [Session -> BOOLEAN]
  PROVE  TypeOK' /\ BellOK' /\ InQueueBefore'
BY BellStays DEF TableInv, CallsRest, calls, TypeOK, InQueueBefore

\* The task at the head of a session is a task like any other.
LEMMA HeadTask ==
  ASSUME TasksOK, NEW s \in Session, jobs[s] # << >>
  PROVE  /\ 1 \in 1 .. Len(jobs[s]) /\ Head(jobs[s]) = jobs[s][1]
         /\ jobs[s][1] \in TaskType /\ IsTask(jobs[s][1], item)
         /\ jobs[s][1].kind \in RequestKinds => jobs[s][1].on \in Requests
<1>1. jobs[s] \in Seq(TaskType)
  BY DEF TasksOK
<1>2. Len(jobs[s]) \in Nat \ {0}
  BY <1>1, EmptySeq, LenProperties
<1>3. 1 \in 1 .. Len(jobs[s]) /\ Head(jobs[s]) = jobs[s][1]
  BY <1>1, <1>2
<1> QED
  BY <1>3 DEF TasksOK, IsTask

\* The end of a task keeps the table in order.
LEMMA NextTaskTableInv ==
  ASSUME TableInv, NEW s \in Session, NextTask(s), CallsRest, bell' = bell,
         mailed' \subseteq Requests
  PROVE  TableInv'
<1>1. /\ TasksOK' /\ stored' \in [Session -> BOOLEAN]
      /\ plan' \in [Session -> Seq(BatchType)] /\ plan'[s] = << >> /\ ~stored'[s]
      /\ \A u \in Session \ {s} : plan'[u] = plan[u] /\ stored'[u] = stored[u]
  BY NextTaskKept DEF TableInv, PlansOK, TypeOK, CallsRest, calls
<1>2. PlansOK'
  BY <1>1, PlansChange, EmptyPlan DEF TableInv, CallsRest, calls
<1> QED
  BY <1>1, <1>2, RestStays DEF TableInv

\* A step that leaves the tasks where they are and gives a session a plan.
LEMMA PlanTableInv ==
  ASSUME TableInv, NEW s \in Session, NEW p, GoodPlan(p), CallsRest, bell' = bell,
         mailed' \subseteq Requests, UNCHANGED jobs, plan' = [plan EXCEPT ![s] = p],
         stored' \in [Session -> BOOLEAN], p = << >> => ~stored'[s],
         \A u \in Session \ {s} : stored'[u] = stored[u]
  PROVE  TableInv'
<1>1. p \in Seq(BatchType) /\ plan \in [Session -> Seq(BatchType)]
  BY DEF GoodPlan, TableInv, PlansOK
<1>2. /\ plan' \in [Session -> Seq(BatchType)] /\ plan'[s] = p
      /\ \A u \in Session \ {s} : plan'[u] = plan[u]
  BY <1>1
<1>3. PlansOK'
  BY <1>2, PlansChange DEF TableInv, CallsRest, calls
<1>4. TasksOK'
  BY DEF TableInv, TasksOK, CallsRest, calls
<1> QED
  BY <1>3, <1>4, RestStays DEF TableInv

\* Reading leaves a right plan, or ends the task.
LEMMA ReadTableInv ==
  ASSUME TableInv, NEW s \in Session, Read(s)
  PROVE  TableInv'
<1> DEFINE t == jobs[s][1]
           p == Notify(t)
<1>1. /\ t \in TaskType /\ IsTask(t, item) /\ Head(jobs[s]) = t
      /\ t.kind \in RequestKinds => t.on \in Requests
  BY HeadTask DEF TableInv, Read
<1>2. GoodPlan(p)
  <2>1. t.kind \in RequestKinds \/ t.kind \in ItemKinds
    BY <1>1 DEF TaskType
  <2> QED
    BY <1>1, <2>1, NotifyRequestGood, NotifyItemGood DEF TableInv
<1>3. CallsRest /\ bell' = bell /\ mailed' \subseteq Requests
  BY DEF Read, CallsRest, calls, TableInv, TypeOK
<1>4. \/ NextTask(s)
      \/ p # << >> /\ plan' = [plan EXCEPT ![s] = p] /\ UNCHANGED <<jobs, stored>>
  BY <1>1 DEF Read
<1> HIDE DEF p
<1>5. CASE NextTask(s)
  BY <1>3, <1>5, NextTaskTableInv
<1>6. CASE p # << >> /\ plan' = [plan EXCEPT ![s] = p] /\ UNCHANGED <<jobs, stored>>
  <2>1. stored' \in [Session -> BOOLEAN]
    BY <1>6 DEF TableInv, TypeOK
  <2> QED
    BY <1>2, <1>3, <1>6, <2>1, PlanTableInv
<1> QED
  BY <1>4, <1>5, <1>6

\* A job starts with a right plan.
LEMMA StartJobTableInv ==
  ASSUME TableInv, NEW j \in Jobs, StartJob(j)
  PROVE  TableInv'
<1>1. PICK p \in JobPlans(j) \ {<< >>} : plan' = [plan EXCEPT ![j] = p]
  BY DEF StartJob
<1>2. GoodPlan(p) /\ p # << >> /\ j \in Session
  BY JobPlanGood DEF Session
<1>3. /\ CallsRest /\ bell' = bell /\ mailed' \subseteq Requests
      /\ UNCHANGED <<jobs, stored>> /\ stored' \in [Session -> BOOLEAN]
  BY DEF StartJob, CallsRest, calls, TableInv, TypeOK
<1> QED
  BY <1>1, <1>2, <1>3, PlanTableInv

\* The batch that is about to be stored or sent.
LEMMA FirstBatch ==
  ASSUME PlansOK, NEW s \in Session, Running(s)
  PROVE  /\ Head(plan[s]) = plan[s][1] /\ plan[s][1] \in BatchType
         /\ BatchOK(plan[s][1]) /\ GoodPlan(plan[s])
         /\ GoodPlan(Tail(plan[s])) /\ Len(plan[s]) \in Nat
         /\ Len(Tail(plan[s])) = Len(plan[s]) - 1
<1>1. plan[s] \in Seq(BatchType) /\ plan[s] # << >>
  BY DEF PlansOK, Running
<1>2. /\ Tail(plan[s]) \in Seq(BatchType) /\ Len(Tail(plan[s])) = Len(plan[s]) - 1
      /\ \A k \in 1 .. Len(Tail(plan[s])) : Tail(plan[s])[k] = plan[s][k + 1]
  BY <1>1, HeadTailProperties
<1>3. Len(plan[s]) \in Nat \ {0}
  BY <1>1, EmptySeq, LenProperties
<1>4. 1 \in 1 .. Len(plan[s]) /\ Head(plan[s]) = plan[s][1] /\ plan[s][1] \in BatchType
  BY <1>1, <1>3
<1>5. \A k \in 1 .. Len(plan[s]) : BatchOK(plan[s][k])
  BY DEF PlansOK
<1>6. \A k \in 1 .. Len(Tail(plan[s])) : k + 1 \in 1 .. Len(plan[s])
  BY <1>2, <1>3
<1>7. GoodPlan(Tail(plan[s]))
  BY <1>2, <1>5, <1>6 DEF GoodPlan
<1> QED
  BY <1>1, <1>2, <1>3, <1>4, <1>5, <1>7 DEF GoodPlan

\* What is stored is a batch of the plan, so the table grows by right rows.
LEMMA StoreTableInv ==
  ASSUME TableInv, NEW s \in Session, Store(s)
  PROVE  /\ TableInv' /\ CallsRest /\ bell \subseteq bell'
         /\ \A u \in plan[s][1].to :
              [user |-> u, type |-> plan[s][1].type, on |-> plan[s][1].on] \in bell'
<1> DEFINE b == plan[s][1]
           new == {[user |-> u, type |-> b.type, on |-> b.on] : u \in b.to}
<1>1. /\ Head(plan[s]) = b /\ b \in BatchType /\ BatchOK(b) /\ GoodPlan(plan[s])
      /\ plan[s] # << >>
  BY FirstBatch DEF TableInv, Store, Running
<1>2. /\ CallsRest /\ bell' = bell \cup new /\ UNCHANGED <<mailed, jobs, plan, losses>>
      /\ stored' = [stored EXCEPT ![s] = TRUE]
  BY <1>1 DEF Store, CallsRest
<1>3. b.on \in Requests \cup Items /\ b.to \subseteq Users /\ b.type \in NoticeType
  BY <1>1 DEF BatchType
<1>4. \A row \in new : row \in Row /\ row.user \in b.to /\ row.type = b.type /\ row.on = b.on
  BY <1>3 DEF Row
<1> HIDE DEF new, b
<1>5. TypeOK'
  BY <1>2, <1>4 DEF TableInv, TypeOK, CallsRest, calls
<1>6. TasksOK' /\ InQueueBefore'
  BY <1>2 DEF TableInv, TasksOK, InQueueBefore, CallsRest, calls
<1>7. bell \subseteq bell' /\ UNCHANGED <<origin, queued>>
  BY <1>2 DEF CallsRest, calls
<1>8. PlansOK'
  <2>1. /\ stored \in [Session -> BOOLEAN] /\ plan' \in [Session -> Seq(BatchType)]
        /\ \A u \in Session \ {s} : plan'[u] = plan[u] /\ stored'[u] = stored[u]
    BY <1>2 DEF TableInv, TypeOK, PlansOK
  <2>2. plan'[s] = plan[s]
    BY <1>2
  <2> QED
    BY <1>1, <1>2, <1>7, <2>1, <2>2, PlansChange DEF TableInv
<1>9. BellOK'
  <2> SUFFICES ASSUME NEW row \in bell'
               PROVE  /\ row.type = "request_created" => row.on \in queued
                      /\ row.type = "payment_processed" => row.user \in Target(row.on)
                      /\ row.type = "tt_copy_attached" =>
                           row.user \in Target(row.on) /\ Told(row.on)
    BY <1>7 DEF BellOK, Told, Target
  <2>1. CASE row \in bell
    BY <2>1 DEF TableInv, BellOK
  <2>2. CASE row \in new
    BY <1>1, <1>4, <2>2 DEF BatchOK
  <2> QED
    BY <1>2, <2>1, <2>2
<1> QED
  BY <1>2, <1>5, <1>6, <1>7, <1>8, <1>9 DEF TableInv, new, b

\* Sending ends the batch and, after the last one, the task.
LEMMA SendTableInv ==
  ASSUME TableInv, NEW s \in Session, Send(s)
  PROVE  TableInv'
<1> DEFINE p == Tail(plan[s])
<1>1. /\ Head(plan[s]) = plan[s][1] /\ plan[s][1] \in BatchType /\ GoodPlan(p)
      /\ plan[s] # << >>
  BY FirstBatch DEF TableInv, Send, Running
<1>2. CallsRest /\ bell' = bell
  BY DEF Send, CallsRest, calls
<1>3. mailed' \subseteq Requests
  BY <1>1, FirstBatch DEF Send, TableInv, TypeOK, BatchOK
<1>4. CASE NextTask(s)
  BY <1>2, <1>3, <1>4, NextTaskTableInv
<1>5. CASE /\ Len(plan[s]) # 1 /\ plan' = [plan EXCEPT ![s] = Tail(@)]
           /\ stored' = [stored EXCEPT ![s] = FALSE] /\ UNCHANGED jobs
  <2>1. /\ plan' = [plan EXCEPT ![s] = p] /\ stored' \in [Session -> BOOLEAN]
        /\ ~stored'[s] /\ \A u \in Session \ {s} : stored'[u] = stored[u]
    BY <1>5 DEF TableInv, TypeOK
  <2> HIDE DEF p
  <2> QED
    BY <1>1, <1>2, <1>3, <1>5, <2>1, PlanTableInv
<1> QED
  BY <1>4, <1>5 DEF Send

\* A failure ends the task, and a restart every task.
LEMMA LossTableInv ==
  ASSUME TableInv, Restart \/ \E s \in Session : Fail(s)
  PROVE  TableInv'
<1>1. CASE Restart
  <2>1. CallsRest /\ bell' = bell /\ mailed' = mailed
    BY <1>1 DEF Restart, CallsRest, calls
  <2>2. /\ jobs' = [u \in Session |-> << >>] /\ plan' = [u \in Session |-> << >>]
        /\ stored' = [u \in Session |-> FALSE]
    BY <1>1 DEF Restart
  <2>3. << >> \in Seq(TaskType) /\ << >> \in Seq(BatchType) /\ Len(<< >>) = 0
        /\ 0 <= 2 * MaxQueue
    BY NoticesAssumption
  <2>4. TasksOK'
    BY <2>2, <2>3 DEF TasksOK, Session
  <2>5. PlansOK'
    BY <2>2, <2>3 DEF PlansOK
  <2>6. mailed' \subseteq Requests /\ stored' \in [Session -> BOOLEAN]
    BY <2>1, <2>2 DEF TableInv, TypeOK
  <2> QED
    BY <2>1, <2>4, <2>5, <2>6, RestStays DEF TableInv
<1>2. ASSUME NEW s \in Session, Fail(s)
      PROVE  TableInv'
  <2>1. NextTask(s) /\ CallsRest /\ bell' = bell /\ mailed' = mailed
    BY <1>2 DEF Fail, CallsRest, calls
  <2>2. mailed' \subseteq Requests
    BY <2>1 DEF TableInv, TypeOK
  <2> QED
    BY <2>1, <2>2, NextTaskTableInv
<1> QED
  BY <1>1, <1>2

\* The clock is no concern of the table.
LEMMA ClockTableInv ==
  ASSUME TableInv, NewDay \/ \E r \in Requests : HourPasses(r)
  PROVE  TableInv' /\ UNCHANGED <<session, item, bell, losses>>
<1>1. UNCHANGED <<origin, status, tt, tranche, queued, item, bell, mailed, losses, session>>
  BY DEF NewDay, HourPasses, calls
<1>2. today' \in 0 .. LastDay /\ aged' \subseteq Requests
  BY NoticesAssumption DEF NewDay, HourPasses, calls, TableInv, TypeOK
<1>3. TypeOK' /\ TasksOK' /\ InQueueBefore'
  BY <1>1, <1>2 DEF TableInv, TypeOK, TasksOK, InQueueBefore, session
<1>4. PlansOK' /\ BellOK'
  BY <1>1, PlansStay, BellStays DEF TableInv, session
<1> QED
  BY <1>1, <1>3, <1>4 DEF TableInv

--------------------------------------------------------------------------------
\* The duties to items.

\* A call adds tasks behind those that wait, and the tasks that have read keep
\* their plans.
Behind ==
  /\ UNCHANGED <<plan, stored, bell, losses>>
  /\ \A s \in Session : \A k \in 1 .. Len(jobs[s]) :
       k \in 1 .. Len(jobs'[s]) /\ jobs'[s][k] = jobs[s][k]
  /\ \A s \in Session : jobs[s] # << >> => jobs'[s] # << >>

\* A session that delivers for a task keeps its head.
LEMMA HeadStays ==
  ASSUME TableInv, TableInv', ItemInv, Behind, NEW s \in Session,
         plan'[s] # << >>, jobs'[s] # << >>
  PROVE  jobs[s] # << >> /\ jobs'[s][1] = jobs[s][1]
<1>1. s \notin Jobs
  BY DEF TableInv, TasksOK
<1>2. jobs[s] # << >>
  BY <1>1 DEF Behind, ItemInv, Occupied
<1>3. 1 \in 1 .. Len(jobs[s])
  BY <1>2, HeadTask DEF TableInv
<1> QED
  BY <1>2, <1>3 DEF Behind

\* A call about a request changes no duty to an item.
LEMMA RequestStepItemInv ==
  ASSUME TableInv, TableInv', ItemInv, NEW r \in Requests,
         RequestCall(r) \/ TrancheHandler(r)
  PROVE  ItemInv'
<1>1. Quietly /\ LeavesRequestTasks
  BY RequestCallKept, TrancheHandlerKept DEF TableInv
<1>2. Behind
  <2>1. PICK tasks \in Seq(TaskType) : RequestTasks(tasks) /\ Leave(tasks)
    BY <1>1 DEF LeavesRequestTasks
  <2>2. \A k \in 1 .. Len(tasks) : tasks[k] \in TaskType
    BY ElementOfSeq
  <2>3. \A k \in 1 .. Len(tasks) : IsTask(tasks[k], item')
    BY <2>1, <2>2 DEF RequestTasks, IsTask, RequestKinds, ItemKinds, RaisedKinds, DecidedKinds, AppliedKinds
  <2>4. \A t \in TaskType : IsTask(t, item) => IsTask(t, item')
    BY <1>1 DEF Quietly
  <2> QED
    BY <1>1, <2>1, <2>3, <2>4, LeaveTasks DEF TableInv, RequestTasks, Behind, Quietly
<1>3. item' = item /\ bell' = bell /\ losses' = losses /\ plan' = plan /\ stored' = stored
  BY <1>1, <1>2 DEF Quietly, Behind
<1>4. Served'
  <2> SUFFICES ASSUME NEW s \in Session, plan'[s] # << >>, jobs'[s] # << >>,
                      jobs'[s][1].kind \in ItemKinds
               PROVE  /\ Len(plan'[s]) = 1 /\ Serves(jobs[s][1], plan[s][1])'
                      /\ stored'[s] => Delivered(plan[s][1])'
    BY DEF Served
  <2>1. jobs[s] # << >> /\ jobs'[s][1] = jobs[s][1]
    BY <1>2, HeadStays
  <2>2. Len(plan[s]) = 1 /\ Serves(jobs[s][1], plan[s][1])
        /\ (stored[s] => Delivered(plan[s][1]))
    BY <1>3, <2>1 DEF ItemInv, Served
  <2> QED
    BY <1>3, <2>1, <2>2 DEF Serves, RaisedTypes, IsRemark, Delivered
<1>5. Obliged'
  <2> SUFFICES ASSUME losses' = 0, NEW i \in Items
               PROVE  /\ item'[i].state # "none" => Waits(i, RaisedKinds)' \/ RaisedHeard(i)'
                      /\ item'[i].resolver # {} => Waits(i, DecidedKinds)' \/ DecidedHeard(i)'
                      /\ item'[i].state = "applied" =>
                           Waits(i, AppliedKinds)' \/ AmountHeard(i)'
    BY DEF Obliged
  <2>1. /\ item[i].state # "none" => Waits(i, RaisedKinds) \/ RaisedHeard(i)
        /\ item[i].resolver # {} => Waits(i, DecidedKinds) \/ DecidedHeard(i)
        /\ item[i].state = "applied" => Waits(i, AppliedKinds) \/ AmountHeard(i)
    BY <1>3 DEF ItemInv, Obliged
  <2>2. /\ Waits(i, RaisedKinds) => Waits(i, RaisedKinds)'
        /\ Waits(i, DecidedKinds) => Waits(i, DecidedKinds)'
        /\ Waits(i, AppliedKinds) => Waits(i, AppliedKinds)'
    BY <1>2 DEF Behind, Waits
  <2>3. /\ RaisedHeard(i) => RaisedHeard(i)'
        /\ DecidedHeard(i) => DecidedHeard(i)'
        /\ AmountHeard(i) => AmountHeard(i)'
    BY <1>3 DEF RaisedHeard, DecidedHeard, AmountHeard, Heard, RaisedTypes, IsRemark
  <2> QED
    BY <1>3, <2>1, <2>2, <2>3
<1> QED
  BY <1>2, <1>3, <1>4, <1>5 DEF ItemInv, ItemsOK, Occupied, Behind

\* A call about an item leaves the task that sees to what it did; whatever waits
\* or was heard of the item still serves.
LEMMA ItemStepItemInv ==
  ASSUME TableInv, TableInv', ItemInv, NEW i \in Items, ItemHandler(i)
  PROVE  ItemInv'
<1>1. PICK t \in TaskType : /\ Leave(<<t>>) /\ t.on = i /\ IsTask(t, item')
                            /\ Raised(i, t) \/ Decided(i, t) \/ Applied(i, t)
  BY ItemHandlerKept DEF TableInv
<1>2. /\ item' \in [Items -> Item] /\ \A o \in Items \ {i} : item'[o] = item[o]
      /\ UNCHANGED <<plan, stored, bell, losses>>
  BY ItemHandlerKept, ItemStepTableInv DEF TableInv
<1>3. Behind /\ \E s \in Session : \E m \in 1 .. Len(jobs'[s]) : jobs'[s][m] = t
  <2> DEFINE tasks == <<t>>
  <2>1. tasks \in Seq(TaskType) /\ Len(tasks) = 1 /\ tasks[1] = t /\ 1 \in 1 .. Len(tasks)
    OBVIOUS
  <2>2. Leave(tasks) /\ \A k \in 1 .. Len(tasks) : IsTask(tasks[k], item')
    BY <1>1, <2>1
  <2>3. \A q \in TaskType : IsTask(q, item) => IsTask(q, item')
    BY <1>1, <1>2, TasksStayTasks
  <2> HIDE DEF tasks
  <2>4. Len(tasks) <= 2
    BY <2>1
  <2> QED
    BY <1>2, <2>1, <2>2, <2>3, <2>4, LeaveTasks DEF TableInv, Behind
<1>4. Served'
  <2> SUFFICES ASSUME NEW s \in Session, plan'[s] # << >>, jobs'[s] # << >>,
                      jobs'[s][1].kind \in ItemKinds
               PROVE  /\ Len(plan'[s]) = 1 /\ Serves(jobs[s][1], plan[s][1])'
                      /\ stored'[s] => Delivered(plan[s][1])'
    BY DEF Served
  <2> DEFINE q == jobs[s][1]
  <2>1. jobs[s] # << >> /\ jobs'[s][1] = q /\ plan'[s] = plan[s]
    BY <1>2, <1>3, HeadStays
  <2>2. /\ Len(plan[s]) = 1 /\ Serves(q, plan[s][1])
        /\ stored[s] => Delivered(plan[s][1])
    BY <1>2, <2>1 DEF ItemInv, Served
  <2>3. IsTask(q, item) /\ q.on \in Items
    BY <2>1, HeadTask DEF TableInv, IsTask
  <2> HIDE DEF q
  <2>4. CASE q.on # i
    BY <1>2, <2>1, <2>2, <2>3, <2>4 DEF Serves, RaisedTypes, IsRemark, Delivered, q
  <2>5. CASE q.on = i
    BY <1>1, <1>2, <2>1, <2>2, <2>3, <2>5
       DEF Serves, RaisedTypes, IsRemark, Delivered, Raised, Decided, Applied, IsTask, q,
           ItemKinds, RaisedKinds, DecidedKinds, AppliedKinds
  <2> QED
    BY <2>4, <2>5
<1>5. Obliged'
  <2> SUFFICES ASSUME losses' = 0, NEW o \in Items
               PROVE  /\ item'[o].state # "none" => Waits(o, RaisedKinds)' \/ RaisedHeard(o)'
                      /\ item'[o].resolver # {} => Waits(o, DecidedKinds)' \/ DecidedHeard(o)'
                      /\ item'[o].state = "applied" =>
                           Waits(o, AppliedKinds)' \/ AmountHeard(o)'
    BY DEF Obliged
  <2>1. /\ item[o].state # "none" => Waits(o, RaisedKinds) \/ RaisedHeard(o)
        /\ item[o].resolver # {} => Waits(o, DecidedKinds) \/ DecidedHeard(o)
        /\ item[o].state = "applied" => Waits(o, AppliedKinds) \/ AmountHeard(o)
    BY <1>2 DEF ItemInv, Obliged
  <2>2. /\ Waits(o, RaisedKinds) => Waits(o, RaisedKinds)'
        /\ Waits(o, DecidedKinds) => Waits(o, DecidedKinds)'
        /\ Waits(o, AppliedKinds) => Waits(o, AppliedKinds)'
    BY <1>3 DEF Behind, Waits
  <2>3. CASE o # i
    <3>1. /\ RaisedHeard(o) => RaisedHeard(o)'
          /\ DecidedHeard(o) => DecidedHeard(o)'
          /\ AmountHeard(o) => AmountHeard(o)'
      BY <1>2, <2>3 DEF RaisedHeard, DecidedHeard, AmountHeard, Heard, RaisedTypes, IsRemark
    <3> QED
      BY <1>2, <2>1, <2>2, <2>3, <3>1
  <2>4. ASSUME o = i, Raised(i, t)
        PROVE  /\ item'[o].resolver = {} /\ item'[o].state # "applied"
               /\ Waits(o, RaisedKinds)'
    BY <1>1, <1>3, <2>4 DEF Raised, Waits
  <2>5. ASSUME o = i, Decided(i, t)
        PROVE  /\ RaisedHeard(o) => RaisedHeard(o)'
               /\ item[o].state # "none"
               /\ item'[o].state # "applied" /\ Waits(o, DecidedKinds)'
    <3>1. item[o].state # "none" /\ item'[o].state # "applied"
      BY <2>5 DEF Decided
    <3>2. Waits(o, DecidedKinds)'
      BY <1>1, <1>3, <2>5 DEF Decided, Waits
    <3>3. RaisedHeard(o) => RaisedHeard(o)'
      BY <1>2, <2>5 DEF Decided, RaisedHeard, Heard, RaisedTypes, IsRemark
    <3> QED
      BY <3>1, <3>2, <3>3
  <2>6. ASSUME o = i, Applied(i, t)
        PROVE  /\ RaisedHeard(o) => RaisedHeard(o)'
               /\ item[o].state # "none"
               /\ DecidedHeard(o) => DecidedHeard(o)'
               /\ item'[o].resolver = item[o].resolver
               /\ Waits(o, AppliedKinds)'
    <3>1. item[o].state # "none" /\ item'[o].resolver = item[o].resolver
      BY <2>6 DEF Applied
    <3>2. Waits(o, AppliedKinds)'
      BY <1>1, <1>3, <2>6 DEF Applied, Waits, AppliedKinds
    <3>3. RaisedHeard(o) => RaisedHeard(o)'
      BY <1>2, <2>6 DEF Applied, RaisedHeard, Heard, RaisedTypes, IsRemark
    <3>4. DecidedHeard(o) => DecidedHeard(o)'
      BY <1>2, <2>6 DEF Applied, DecidedHeard, Heard
    <3> QED
      BY <3>1, <3>2, <3>3, <3>4
  <2> QED
    BY <1>1, <2>1, <2>2, <2>3, <2>4, <2>5, <2>6
<1>6. ItemsOK'
  BY <1>1, <1>2 DEF ItemInv, ItemsOK, Raised, Decided, Applied
<1> QED
  BY <1>2, <1>3, <1>4, <1>5, <1>6 DEF ItemInv, Occupied, Behind

\* Everybody who should has heard of what a task was left for.
Said(t) ==
  /\ t.kind \in RaisedKinds => RaisedHeard(t.on)
  /\ t.kind \in DecidedKinds => DecidedHeard(t.on)
  /\ t.kind \in AppliedKinds => AmountHeard(t.on)

\* The sessions that stay as they are go on serving.
LEMMA OthersServe ==
  ASSUME ItemInv, NEW s \in Session, item' = item, bell \subseteq bell',
         \A u \in Session \ {s} :
           jobs'[u] = jobs[u] /\ plan'[u] = plan[u] /\ stored'[u] = stored[u],
         plan'[s] # << >> /\ jobs'[s] # << >> /\ jobs'[s][1].kind \in ItemKinds =>
           /\ Len(plan'[s]) = 1 /\ Serves(jobs'[s][1], plan'[s][1])
           /\ stored'[s] => \A u \in plan'[s][1].to :
                [user |-> u, type |-> plan'[s][1].type, on |-> plan'[s][1].on] \in bell',
         s \notin Jobs => (plan'[s] # << >> => jobs'[s] # << >>)
  PROVE  Served' /\ Occupied'
<1>1. Occupied'
  BY DEF ItemInv, Occupied
<1>2. Served'
  <2> SUFFICES ASSUME NEW u \in Session, plan'[u] # << >>, jobs'[u] # << >>,
                      jobs'[u][1].kind \in ItemKinds
               PROVE  /\ Len(plan'[u]) = 1 /\ Serves(jobs[u][1], plan[u][1])'
                      /\ stored'[u] => Delivered(plan[u][1])'
    BY DEF Served
  <2>1. CASE u = s
    BY <2>1 DEF Serves, RaisedTypes, IsRemark, Delivered
  <2>2. CASE u # s
    <3>1. /\ Len(plan[u]) = 1 /\ Serves(jobs[u][1], plan[u][1])
          /\ stored[u] => Delivered(plan[u][1])
      BY <2>2 DEF ItemInv, Served
    <3> QED
      BY <2>2, <3>1 DEF Serves, RaisedTypes, IsRemark, Delivered
  <2> QED
    BY <2>1, <2>2
<1> QED
  BY <1>1, <1>2

\* What was heard stays heard as the table grows.
LEMMA HeardStays ==
  ASSUME item' = item, bell \subseteq bell', NEW i
  PROVE  /\ RaisedHeard(i) => RaisedHeard(i)'
         /\ DecidedHeard(i) => DecidedHeard(i)'
         /\ AmountHeard(i) => AmountHeard(i)'
BY DEF RaisedHeard, DecidedHeard, AmountHeard, Heard, RaisedTypes, IsRemark

\* A step of a session that leaves the tasks where they are keeps the duties.
LEMMA SameTasksObliged ==
  ASSUME ItemInv, UNCHANGED <<item, jobs, losses>>, bell \subseteq bell'
  PROVE  Obliged'
<1> SUFFICES ASSUME losses' = 0, NEW i \in Items
             PROVE  /\ item'[i].state # "none" => Waits(i, RaisedKinds)' \/ RaisedHeard(i)'
                    /\ item'[i].resolver # {} => Waits(i, DecidedKinds)' \/ DecidedHeard(i)'
                    /\ item'[i].state = "applied" =>
                         Waits(i, AppliedKinds)' \/ AmountHeard(i)'
  BY DEF Obliged
<1>1. /\ item[i].state # "none" => Waits(i, RaisedKinds) \/ RaisedHeard(i)
      /\ item[i].resolver # {} => Waits(i, DecidedKinds) \/ DecidedHeard(i)
      /\ item[i].state = "applied" => Waits(i, AppliedKinds) \/ AmountHeard(i)
  BY DEF ItemInv, Obliged
<1>2. /\ Waits(i, RaisedKinds) => Waits(i, RaisedKinds)'
      /\ Waits(i, DecidedKinds) => Waits(i, DecidedKinds)'
      /\ Waits(i, AppliedKinds) => Waits(i, AppliedKinds)'
  BY DEF Waits
<1> QED
  BY <1>1, <1>2, HeardStays

\* A task ends without a loss when all it was left for was said: then the duties are
\* kept, for what it no longer waits to say has been heard.
LEMMA NextTaskItemInv ==
  ASSUME TableInv, ItemInv, NEW s \in Session, NextTask(s), CallsRest, bell' = bell,
         losses' = losses + 1 \/ (losses' = losses /\ (jobs[s] # << >> => Said(jobs[s][1])))
  PROVE  ItemInv'
<1>0. item' = item
  BY DEF CallsRest, calls
<1>1. /\ plan'[s] = << >> /\ \A u \in Session \ {s} :
           jobs'[u] = jobs[u] /\ plan'[u] = plan[u] /\ stored'[u] = stored[u]
      /\ \A k \in 1 .. Len(jobs[s]) : k # 1 =>
           k - 1 \in 1 .. Len(jobs'[s]) /\ jobs'[s][k - 1] = jobs[s][k]
  BY <1>0, NextTaskKept DEF TableInv, PlansOK, TypeOK
<1>2. Served' /\ Occupied'
  BY <1>0, <1>1, OthersServe
<1>3. CASE losses' = losses + 1
  BY <1>0, <1>2, <1>3 DEF ItemInv, Obliged, ItemsOK
<1>4. CASE losses' = losses /\ (jobs[s] # << >> => Said(jobs[s][1]))
  <2>1. ASSUME NEW i, NEW kinds, Waits(i, kinds)
        PROVE  \/ Waits(i, kinds)'
               \/ jobs[s] # << >> /\ jobs[s][1].on = i /\ jobs[s][1].kind \in kinds
    <3>0. PICK u \in Session : \E k \in 1 .. Len(jobs[u]) :
            jobs[u][k].on = i /\ jobs[u][k].kind \in kinds
      BY <2>1 DEF Waits
    <3>1. PICK k \in 1 .. Len(jobs[u]) : jobs[u][k].on = i /\ jobs[u][k].kind \in kinds
      BY <3>0
    <3>2. CASE u # s
      BY <1>1, <3>1, <3>2 DEF Waits
    <3>3. CASE u = s /\ k # 1
      BY <1>1, <3>1, <3>3 DEF Waits
    <3>4. CASE u = s /\ k = 1
      <4>1. jobs[s] # << >>
        BY <3>4 DEF TableInv, TasksOK
      <4> QED
        BY <3>1, <3>4, <4>1
    <3> QED
      BY <3>2, <3>3, <3>4
  <2>2. Obliged'
    <3> SUFFICES ASSUME losses' = 0, NEW i \in Items
                 PROVE  /\ item'[i].state # "none" =>
                             Waits(i, RaisedKinds)' \/ RaisedHeard(i)'
                        /\ item'[i].resolver # {} =>
                             Waits(i, DecidedKinds)' \/ DecidedHeard(i)'
                        /\ item'[i].state = "applied" =>
                             Waits(i, AppliedKinds)' \/ AmountHeard(i)'
      BY DEF Obliged
    <3>1. /\ item[i].state # "none" => Waits(i, RaisedKinds) \/ RaisedHeard(i)
          /\ item[i].resolver # {} => Waits(i, DecidedKinds) \/ DecidedHeard(i)
          /\ item[i].state = "applied" => Waits(i, AppliedKinds) \/ AmountHeard(i)
      BY <1>4 DEF ItemInv, Obliged
    <3>2. /\ Waits(i, RaisedKinds) => Waits(i, RaisedKinds)' \/ RaisedHeard(i)
          /\ Waits(i, DecidedKinds) => Waits(i, DecidedKinds)' \/ DecidedHeard(i)
          /\ Waits(i, AppliedKinds) => Waits(i, AppliedKinds)' \/ AmountHeard(i)
      BY <1>4, <2>1 DEF Said
    <3> QED
      BY <1>0, <3>1, <3>2, HeardStays
  <2> QED
    BY <1>0, <1>2, <1>4, <2>2 DEF ItemInv, ItemsOK
<1> QED
  BY <1>3, <1>4

\* The steps of the sessions and of the clock keep the duties to items.
LEMMA ReadItemInv ==
  ASSUME TableInv, ItemInv, NEW s \in Session, Read(s)
  PROVE  ItemInv'
<1> DEFINE t == jobs[s][1]
           p == Notify(t)
<1>1. t \in TaskType /\ IsTask(t, item) /\ Head(jobs[s]) = t /\ jobs[s] # << >>
      /\ plan[s] = << >>
  BY HeadTask DEF TableInv, Read
<1>2. t.kind \in ItemKinds =>
        (p = << >> => Void(t)) /\ (p # << >> => Len(p) = 1 /\ Serves(t, p[1]))
  BY <1>1, NotifyItemGood DEF TableInv
<1>3. CallsRest /\ bell' = bell /\ losses' = losses /\ item' = item
  BY DEF Read, CallsRest, calls
<1>4. \/ p = << >> /\ NextTask(s)
      \/ p # << >> /\ plan' = [plan EXCEPT ![s] = p] /\ UNCHANGED <<jobs, stored>>
  BY <1>1 DEF Read
<1> HIDE DEF p
<1>5. CASE p = << >> /\ NextTask(s)
  <2>1. Said(t)
    <3>1. t.kind \in ItemKinds => Void(t)
      BY <1>2, <1>5
    <3> QED
      BY <3>1 DEF Said, Void, RaisedHeard, AmountHeard, Heard, ItemKinds, AppliedKinds
  <2> QED
    BY <1>3, <1>5, <2>1, NextTaskItemInv
<1>6. CASE p # << >> /\ plan' = [plan EXCEPT ![s] = p] /\ UNCHANGED <<jobs, stored>>
  <2>1. /\ plan'[s] = p /\ ~stored'[s]
        /\ \A u \in Session \ {s} :
             jobs'[u] = jobs[u] /\ plan'[u] = plan[u] /\ stored'[u] = stored[u]
    BY <1>1, <1>6 DEF TableInv, PlansOK
  <2>2. plan'[s] # << >> /\ jobs'[s] # << >> /\ jobs'[s][1].kind \in ItemKinds =>
          Len(plan'[s]) = 1 /\ Serves(jobs'[s][1], plan'[s][1])
    BY <1>2, <1>6, <2>1
  <2>3. Served' /\ Occupied'
    BY <1>1, <1>3, <1>6, <2>1, <2>2, OthersServe
  <2>4. Obliged'
    BY <1>3, <1>6, SameTasksObliged
  <2> QED
    BY <1>3, <2>3, <2>4 DEF ItemInv, ItemsOK
<1> QED
  BY <1>4, <1>5, <1>6

\* A job has no task of its own.
LEMMA StartJobItemInv ==
  ASSUME TableInv, ItemInv, NEW j \in Jobs, StartJob(j)
  PROVE  ItemInv'
<1>1. PICK p : plan' = [plan EXCEPT ![j] = p]
  BY DEF StartJob
<1>2. UNCHANGED <<item, bell, jobs, stored, losses>> /\ j \in Session
  BY DEF StartJob, calls, Session
<1>3. jobs'[j] = << >>
  BY <1>2 DEF TableInv, TasksOK
<1>4. \A u \in Session \ {j} :
        jobs'[u] = jobs[u] /\ plan'[u] = plan[u] /\ stored'[u] = stored[u]
  BY <1>1, <1>2 DEF TableInv, PlansOK
<1>5. Served' /\ Occupied'
  BY <1>2, <1>3, <1>4, OthersServe
<1>6. Obliged'
  BY <1>2, SameTasksObliged
<1> QED
  BY <1>2, <1>5, <1>6 DEF ItemInv, ItemsOK

\* Storing writes the rows the task is to leave.
LEMMA StoreItemInv ==
  ASSUME TableInv, ItemInv, NEW s \in Session, Store(s)
  PROVE  ItemInv'
<1>1. /\ bell \subseteq bell' /\ UNCHANGED <<item, jobs, plan, losses>> /\ plan[s] # << >>
      /\ \A u \in plan[s][1].to :
           [user |-> u, type |-> plan[s][1].type, on |-> plan[s][1].on] \in bell'
  BY StoreTableInv DEF Store, calls, Running
<1>2. /\ stored'[s] /\ \A u \in Session \ {s} :
           jobs'[u] = jobs[u] /\ plan'[u] = plan[u] /\ stored'[u] = stored[u]
  BY <1>1 DEF Store, TableInv, TypeOK
<1>3. plan[s] # << >> /\ jobs[s] # << >> /\ jobs[s][1].kind \in ItemKinds =>
        Len(plan[s]) = 1 /\ Serves(jobs[s][1], plan[s][1])
  BY DEF ItemInv, Served
<1>4. s \notin Jobs => jobs[s] # << >>
  BY <1>1 DEF ItemInv, Occupied
<1>5. Served' /\ Occupied'
  BY <1>1, <1>2, <1>3, <1>4, OthersServe
<1>6. Obliged'
  BY <1>1, SameTasksObliged
<1> QED
  BY <1>1, <1>5, <1>6 DEF ItemInv, ItemsOK

\* Steps that touch neither the sessions nor the items.
LEMMA SameStateItemInv ==
  ASSUME ItemInv, UNCHANGED <<session, item, bell, losses>>
  PROVE  ItemInv'
<1>1. Obliged'
  BY SameTasksObliged DEF session
<1>2. \A t, b : Serves(t, b)' = Serves(t, b) /\ Delivered(b)' = Delivered(b)
  <2> TAKE t, b
  <2>1. RaisedTypes(t.on)' = RaisedTypes(t.on)
    BY DEF RaisedTypes, IsRemark
  <2> QED
    BY <2>1 DEF Serves, Delivered
<1>3. Served'
  BY <1>2, Zenon DEF ItemInv, Served, session
<1>4. Occupied'
  BY DEF ItemInv, Occupied, session
<1> QED
  BY <1>1, <1>3, <1>4 DEF ItemInv, ItemsOK

\* The last batch is sent when its rows are in the table, so all was said.
LEMMA SendItemInv ==
  ASSUME TableInv, ItemInv, NEW s \in Session, Send(s)
  PROVE  ItemInv'
<1>1. CallsRest /\ bell' = bell /\ losses' = losses /\ item' = item
      /\ plan[s] # << >> /\ stored[s]
  BY DEF Send, CallsRest, calls, Running
<1>2. CASE NextTask(s)
  <2>1. ASSUME jobs[s] # << >> PROVE Said(jobs[s][1])
    <3> DEFINE t == jobs[s][1]
               b == plan[s][1]
    <3>1. CASE t.kind \notin ItemKinds
      BY <3>1 DEF Said, ItemKinds
    <3>2. CASE t.kind \in ItemKinds
      <4>1. Serves(t, b) /\ Delivered(b)
        BY <1>1, <2>1, <3>2 DEF ItemInv, Served
      <4>2. \A u \in b.to : [user |-> u, type |-> b.type, on |-> t.on] \in bell
        BY <4>1 DEF Serves, Delivered
      <4>3. \A users, types : users \subseteq b.to /\ b.type \in types =>
              Heard(users, types, t.on)
        BY <4>2 DEF Heard
      <4> HIDE DEF t, b
      <4> QED
        BY <4>1, <4>3 DEF Said, Serves, RaisedHeard, DecidedHeard, AmountHeard, AppliedKinds, t
    <3> QED
      BY <3>1, <3>2
  <2> QED
    BY <1>1, <1>2, <2>1, NextTaskItemInv
<1>3. CASE /\ Len(plan[s]) # 1 /\ plan' = [plan EXCEPT ![s] = Tail(@)]
           /\ stored' = [stored EXCEPT ![s] = FALSE] /\ UNCHANGED jobs
  <2>1. /\ ~stored'[s] /\ \A u \in Session \ {s} :
             jobs'[u] = jobs[u] /\ plan'[u] = plan[u] /\ stored'[u] = stored[u]
    BY <1>3 DEF TableInv, TypeOK, PlansOK
  <2>2. ~(jobs[s] # << >> /\ jobs[s][1].kind \in ItemKinds)
    BY <1>1, <1>3 DEF ItemInv, Served
  <2>3. s \notin Jobs => jobs[s] # << >>
    BY <1>1 DEF ItemInv, Occupied
  <2>4. Served' /\ Occupied'
    BY <1>1, <1>3, <2>1, <2>2, <2>3, OthersServe
  <2>5. Obliged'
    BY <1>1, <1>3, SameTasksObliged
  <2> QED
    BY <1>1, <2>4, <2>5 DEF ItemInv, ItemsOK
<1> QED
  BY <1>2, <1>3 DEF Send

\* After a loss nothing is owed, and no session delivers what was lost.
LEMMA LossItemInv ==
  ASSUME TableInv, ItemInv, Restart \/ \E s \in Session : Fail(s)
  PROVE  ItemInv'
<1>1. CASE Restart
  <2>1. /\ losses' = losses + 1 /\ item' = item
        /\ plan' = [s \in Session |-> << >>]
    BY <1>1 DEF Restart, calls
  <2>2. Served' /\ Occupied'
    BY <2>1 DEF Served, Occupied
  <2> QED
    BY <2>1, <2>2 DEF ItemInv, Obliged, ItemsOK
<1>2. ASSUME NEW s \in Session, Fail(s)
      PROVE  ItemInv'
  BY <1>2, NextTaskItemInv DEF Fail, CallsRest
<1> QED
  BY <1>1, <1>2

--------------------------------------------------------------------------------
\* Every step keeps both.
LEMMA NextKeeps ==
  ASSUME TableInv, ItemInv, [Next]_vars
  PROVE  TableInv' /\ ItemInv'
<1>1. ASSUME NEW r \in Requests, RequestCall(r) \/ TrancheHandler(r)
      PROVE  TableInv' /\ ItemInv'
  BY <1>1, RequestStepTableInv, RequestStepItemInv
<1>2. ASSUME NEW i \in Items, ItemHandler(i)
      PROVE  TableInv' /\ ItemInv'
  BY <1>2, ItemStepTableInv, ItemStepItemInv
<1>3. ASSUME NEW s \in Session, SessionStep(s)
      PROVE  TableInv' /\ ItemInv'
  BY <1>3, ReadTableInv, StoreTableInv, SendTableInv, ReadItemInv, StoreItemInv, SendItemInv
     DEF SessionStep
<1>4. ASSUME NEW j \in Jobs, StartJob(j)
      PROVE  TableInv' /\ ItemInv'
  BY <1>4, StartJobTableInv, StartJobItemInv
<1>5. CASE Restart \/ \E s \in Session : Fail(s)
  BY <1>5, LossTableInv, LossItemInv
<1>6. CASE NewDay \/ \E r \in Requests : HourPasses(r)
  <2>1. TableInv' /\ UNCHANGED <<session, item, bell, losses>>
    BY <1>6, ClockTableInv
  <2> QED
    BY <2>1, SameStateItemInv
<1>7. CASE UNCHANGED vars
  <2>1. TableInv'
    BY <1>7, BellStays, PlansStay
       DEF vars, TableInv, TypeOK, TasksOK, InQueueBefore
  <2>2. UNCHANGED <<session, item, bell, losses>>
    BY <1>7 DEF vars, session
  <2> QED
    BY <2>1, <2>2, SameStateItemInv
<1> QED
  BY <1>1, <1>2, <1>3, <1>4, <1>5, <1>6, <1>7 DEF Next

\* In every reachable state what waits, what is on its way and what is in the table
\* fit together, and no duty to an item is lost unless its task is.
THEOREM NoticesInOrder == Spec => [](TableInv /\ ItemInv)
<1>1. TableInv /\ ItemInv /\ [Next]_vars => (TableInv /\ ItemInv)'
  BY NextKeeps
<1> QED
  BY <1>1, InitTableInv, PTL DEF Spec

\* The variables keep their types.
THEOREM TypeCorrect == Spec => []TypeOK
<1>1. TableInv => TypeOK
  BY DEF TableInv
<1> QED
  BY <1>1, NoticesInOrder, PTL

\* The follow-up with the TT copy reaches only somebody who has the primary notice,
\* however tasks, jobs, failures and restarts interleave (decide_on_tt_upload reads
\* the table, and both notices have the same target).
THEOREM FollowUpComesSecond == Spec => []FollowUpAfterPrimary
<1>1. TableInv => FollowUpAfterPrimary
  <2> SUFFICES ASSUME TypeOK, BellOK, NEW row \in bell, row.type = "tt_copy_attached"
               PROVE  [row EXCEPT !.type = "payment_processed"] \in bell
    BY DEF TableInv, FollowUpAfterPrimary
  <2>1. PICK first \in bell : first.on = row.on /\ first.type = "payment_processed"
    BY DEF BellOK, Told
  <2>2. first.user = row.user
    BY <2>1 DEF BellOK, Target
  <2>3. first \in Row /\ row \in Row
    BY DEF TypeOK
  <2>4. first = [row EXCEPT !.type = "payment_processed"]
    BY <2>1, <2>2, <2>3 DEF Row
  <2> QED
    BY <2>4
<1> QED
  BY <1>1, NoticesInOrder, PTL

\* Accounts are asked to process a request only if it has been in their queue
\* (notify_request_created looks at the status when the task runs).
THEOREM AccountsAskedInTime == Spec => []AccountsNotAskedEarly
<1>1. TableInv => AccountsNotAskedEarly
  BY DEF TableInv, BellOK, AccountsNotAskedEarly
<1> QED
  BY <1>1, NoticesInOrder, PTL

\* Once the tasks about an item are done and none was lost, everybody who should has
\* heard of it, whatever overtook what (the notify_ functions of items).
THEOREM EverybodyHears == Spec => []ItemsAreHeard
<1>1. TableInv /\ ItemInv => ItemsAreHeard
  <2> SUFFICES ASSUME TableInv, ItemInv, losses = 0, NEW i \in Items,
                      item[i].state # "none", ~InHand(i)
               PROVE  /\ RaisedHeard(i)
                      /\ item[i].resolver # {} => DecidedHeard(i)
                      /\ item[i].state = "applied" => AmountHeard(i)
    BY DEF ItemsAreHeard, RaisedHeard, RaisedTypes, DecidedHeard, DecidedTypes,
           BothSidesTypes, AmountHeard
  <2>1. \A kinds : ~Waits(i, kinds)
    <3> SUFFICES ASSUME NEW s \in Session, NEW k \in 1 .. Len(jobs[s]), jobs[s][k].on = i
                 PROVE  FALSE
      BY DEF Waits
    <3>1. jobs[s] \in Seq(TaskType) /\ Len(jobs[s]) <= 2 * MaxQueue
      BY DEF TableInv, TasksOK
    <3>2. k \in DOMAIN jobs[s]
      BY <3>1
    <3>3. Len(jobs[s]) \in Nat
      BY <3>1, LenProperties
    <3>4. k \in 1 .. 2 * MaxQueue
      BY <3>1, <3>3, NoticesAssumption
    <3> QED
      BY <3>2, <3>4 DEF InHand
  <2> QED
    BY <2>1 DEF ItemInv, Obliged
<1> QED
  BY <1>1, NoticesInOrder, PTL

================================================================================
