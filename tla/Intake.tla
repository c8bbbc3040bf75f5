--------------------------------- MODULE Intake ---------------------------------
(***************************************************************************)
(* How a request comes into being.  A submission is one READ COMMITTED     *)
(* transaction: it asks whether the vertical is locked for want of a       *)
(* projection, whether the supplier is flagged and whether the invoice     *)
(* number is in use, then takes the advisory lock of the numbering, reads  *)
(* the highest number of the year and inserts.  That lock is the           *)
(* transaction's and the only one; an invoice number has no unique index.  *)
(* A correction of an invoice number and the filing of a projection are    *)
(* transactions of the same kind.                                          *)
(*                                                                         *)
(* One supplier, one vertical and one of the two invoice numbers are       *)
(* modelled; the checks of the other number are the same.  Of a status     *)
(* change only the transition rules are kept: what the tranches forbid is  *)
(* TrancheLifecycle's, and nothing here reads them.                        *)
(***************************************************************************)
EXTENDS ProjectionCalendar, StatusTransitions, FiniteSets

CONSTANTS Sessions, Requests, Invoices,
          NoRequest, NoInvoice, NoSession,
          FirstDays,     \* bound: the dates on which the story may begin
          MaxDays,       \* bound: days that pass
          MaxCalls,      \* bound: submissions, corrections and filings
          MaxEvents      \* bound: changes of a status, of the flag or of the switch

ASSUME IntakeAssumption ==
  /\ FirstDays \subseteq Date
  /\ MaxDays \in Nat /\ MaxCalls \in Nat /\ MaxEvents \in Nat
  /\ NoRequest \notin Requests /\ NoInvoice \notin Invoices /\ NoSession \notin Sessions

VARIABLES
  today,
  row,           \* requests: the committed row of each
  flagged,       \* the supplier has an active flag
  armed,         \* the switch projection_lock_enabled
  filed,         \* periods for which the vertical has a projection
  call,          \* what each session is doing
  numbering,     \* holder of the advisory lock
  standing,      \* history: the facts that have held all through a call
  days, calls, events

vars == <<today, row, flagged, armed, filed, call, numbering, standing, days,
          calls, events>>

NoRow == [status |-> "none", deleted |-> FALSE, invoice |-> NoInvoice, year |-> 0, number |-> 0]
Idle == [at |-> "idle", request |-> NoRequest, row |-> NoRow, override |-> FALSE,
         period |-> [y |-> 0, m |-> 1]]

Rows == {r \in Requests : row[r].status # "none"}

Period == [y : Nat, m : 1 .. MonthsInYear]
RowType == [status : RequestStatus \cup {"none"}, deleted : BOOLEAN,
            invoice : Invoices \cup {NoInvoice}, year : Nat, number : Nat]
Steps == {"idle", "flag", "invoice", "lock", "max", "insert", "edit", "write", "filing",
          "filed"}
CallType == [at : Steps, request : Requests \cup {NoRequest}, row : RowType,
             override : BOOLEAN, period : Period]

TypeOK ==
  /\ today \in Date
  /\ row \in [Requests -> RowType]
  /\ flagged \in BOOLEAN /\ armed \in BOOLEAN
  /\ filed \in SUBSET Period
  /\ call \in [Sessions -> CallType]
  /\ numbering \in Sessions \cup {NoSession}
  /\ days \in Nat /\ calls \in Nat /\ events \in Nat

--------------------------------------------------------------------------------
(* What the checks read.                                                   *)

Exempt == {"cancelled_by_merchandiser", "cancelled_by_accounts", "rejected_by_hom",
           "rejected_by_accounts"}

Holds(r, i) == row[r].status \notin Exempt \cup {"none"} /\ ~row[r].deleted /\ row[r].invoice = i

(* find_invoice_conflict: an empty number is in nobody's way.  The mutant  *)
(* looks in the payment queue only.                                        *)
InQueue(i, except) ==
  i # NoInvoice /\ \E r \in Requests \ {except} : Holds(r, i) /\ row[r].status = "pending_payment"
InUse(i, except) == i # NoInvoice /\ \E r \in Requests \ {except} : Holds(r, i)

(* Numbers of a year.  A deleted row keeps its own; the mutant forgets it.  *)
UndeletedNumbers(y) == {row[r].number : r \in {q \in Rows : row[q].year = y /\ ~row[q].deleted}}
NumbersOf(y) == {row[r].number : r \in {q \in Rows : row[q].year = y}}

LastNumber(y) == CHOOSE n \in NumbersOf(y) \cup {0} : \A k \in NumbersOf(y) : k <= n

(* missing_verticals, for the one vertical.                                *)
Missing(p) == p \notin filed

Locked == armed /\ Missing(PeriodOf(today))

(* The page of the projections, and the banner of the request form, which  *)
(* does not ask about the switch.                                          *)
ProjectionStatus ==
  [window_open |-> WindowOpen(today), target |-> NextPeriod(today),
   missing |-> Missing(NextPeriod(today)), locked |-> Locked]
Reminders ==
  [period |-> ReminderPeriod(today), deadline |-> LastDayOf(ReminderPeriod(today)),
   pending |-> Missing(ReminderPeriod(today))]

Facts ==
  (IF Locked THEN {<<"locked">>} ELSE {}) \cup (IF flagged THEN {<<"flagged">>} ELSE {})
  \cup {<<r, row[r].invoice>> : r \in {q \in Requests : Holds(q, row[q].invoice)
                                                      /\ row[q].invoice # NoInvoice}}

--------------------------------------------------------------------------------
Init ==
  /\ today \in FirstDays
  /\ row = [r \in Requests |-> NoRow]
  /\ flagged \in BOOLEAN /\ armed \in BOOLEAN
  /\ filed \in {{}, {PeriodOf(today)}}
  /\ call = [s \in Sessions |-> Idle]
  /\ numbering = NoSession
  /\ standing = [s \in Sessions |-> {}]
  /\ days = 0 /\ calls = 0 /\ events = 0

(* The transaction of s ends, and with it its lock.                        *)
Close(s) ==
  /\ call' = [call EXCEPT ![s] = Idle]
  /\ numbering' = IF numbering = s THEN NoSession ELSE numbering

Goto(s, c) == call' = [call EXCEPT ![s] = c]

Start(s, c) ==
  /\ call[s].at = "idle" /\ calls < MaxCalls
  /\ calls' = calls + 1
  /\ Goto(s, c)
  /\ UNCHANGED <<today, row, flagged, armed, filed, numbering, days, events>>

Step(s, at) ==
  /\ call[s].at = at
  /\ UNCHANGED <<today, flagged, armed, days, calls, events>>

(* Any error, or the client's departure.                                   *)
Rollback(s) ==
  /\ call[s].at # "idle"
  /\ Close(s)
  /\ UNCHANGED <<today, row, flagged, armed, filed, days, calls, events>>

--------------------------------------------------------------------------------
(* Submitting a request.                                                   *)

(* The mutant does not ask for the projection.                             *)
SubmitUngated(s, r, i, override) ==
  Start(s, [Idle EXCEPT !.at = "flag", !.request = r, !.row.invoice = i, !.override = override])
Submit(s, r, i, override) ==
  /\ ~Locked
  /\ Start(s, [Idle EXCEPT !.at = "flag", !.request = r, !.row.invoice = i, !.override = override])

(* A flagged supplier's request is refused, or goes to the HoM first.      *)
ReadFlag(s) ==
  /\ Step(s, "flag")
  /\ flagged => call[s].override
  /\ Goto(s, [call[s] EXCEPT !.at = "invoice",
                !.row.status = IF flagged THEN "pending_hom_approval" ELSE "pending_payment"])
  /\ UNCHANGED <<row, filed, numbering>>

(* The year is taken before the lock is waited for.                        *)
CheckInvoice(s) ==
  /\ Step(s, "invoice")
  /\ ~InUse(call[s].row.invoice, NoRequest)
  /\ Goto(s, [call[s] EXCEPT !.at = "lock", !.row.year = today.y])
  /\ UNCHANGED <<row, filed, numbering>>

TakeLock(s) ==
  /\ Step(s, "lock")
  /\ numbering = NoSession
  /\ numbering' = s
  /\ Goto(s, [call[s] EXCEPT !.at = "max"])
  /\ UNCHANGED <<row, filed>>

ReadLast(s) ==
  /\ Step(s, "max")
  /\ Goto(s, [call[s] EXCEPT !.at = "insert", !.row.number = LastNumber(call[s].row.year) + 1])
  /\ UNCHANGED <<row, filed, numbering>>

(* request_number is UNIQUE; the row appears when the transaction commits, *)
(* under an id of its own.                                                 *)
Insert(s) ==
  /\ Step(s, "insert")
  /\ call[s].row.number \notin NumbersOf(call[s].row.year)
  /\ call[s].request \notin Rows
  /\ row' = [row EXCEPT ![call[s].request] = call[s].row]
  /\ Close(s)
  /\ UNCHANGED filed

--------------------------------------------------------------------------------
(* Correcting an invoice number, of any request that is not deleted:       *)
(* Accounts and the super admin may also correct a closed one.             *)

StartEdit(s, r, i) ==
  /\ r \in Rows /\ ~row[r].deleted
  /\ Start(s, [Idle EXCEPT !.at = "edit", !.request = r, !.row.invoice = i])

CheckEdit(s) ==
  /\ Step(s, "edit")
  /\ ~InUse(call[s].row.invoice, call[s].request)
  /\ Goto(s, [call[s] EXCEPT !.at = "write"])
  /\ UNCHANGED <<row, filed, numbering>>

WriteEdit(s) ==
  /\ Step(s, "write")
  /\ row' = [row EXCEPT ![call[s].request].invoice = call[s].row.invoice]
  /\ Close(s)
  /\ UNCHANGED filed

--------------------------------------------------------------------------------
(* Filing the vertical's projection.                                       *)

StartFiling(s, p, role) ==
  /\ \/ role = "merchandiser" /\ PeriodEditable(p, today)
     \/ role = "super_admin"
  /\ Start(s, [Idle EXCEPT !.at = IF p \in filed THEN "filed" ELSE "filing", !.period = p])

(* A row seen is updated, one not seen inserted under the UNIQUE           *)
(* constraint: when another session was faster the call fails.             *)
EndFiling(s) ==
  /\ \/ Step(s, "filed")
     \/ Step(s, "filing") /\ call[s].period \notin filed
  /\ filed' = filed \cup {call[s].period}
  /\ Close(s)
  /\ UNCHANGED row

--------------------------------------------------------------------------------
(* What others do meanwhile.                                               *)

Event ==
  /\ events < MaxEvents /\ events' = events + 1
  /\ UNCHANGED <<today, filed, call, numbering, days, calls>>

(* transition_status, which asks nothing about invoice numbers.            *)
Move(r, target, role) ==
  /\ r \in Rows /\ ~row[r].deleted
  /\ TransitionAllowed(row[r].status, target, role)
  /\ row' = [row EXCEPT ![r].status = target]
  /\ UNCHANGED <<flagged, armed>>

SoftDelete(r) ==
  /\ r \in Rows /\ ~row[r].deleted
  /\ row' = [row EXCEPT ![r].deleted = TRUE]
  /\ UNCHANGED <<flagged, armed>>

FlagSupplier == flagged' = ~flagged /\ UNCHANGED <<row, armed>>
SetLockEnabled == armed' = ~armed /\ UNCHANGED <<row, flagged>>

NewDay ==
  /\ days < MaxDays /\ days' = days + 1
  /\ today' = Tomorrow(today)
  /\ UNCHANGED <<row, flagged, armed, filed, call, numbering, calls, events>>

Periods == {PeriodOf(today), NextPeriod(today)}

Session(s) ==
  \/ \E r \in Requests \ Rows, i \in Invoices \cup {NoInvoice}, o \in BOOLEAN :
       Submit(s, r, i, o)
  \/ \E r \in Requests, i \in Invoices \cup {NoInvoice} : StartEdit(s, r, i)
  \/ \E p \in Periods, role \in UserRole : StartFiling(s, p, role)
  \/ ReadFlag(s) \/ CheckInvoice(s) \/ TakeLock(s) \/ ReadLast(s) \/ Insert(s)
  \/ CheckEdit(s) \/ WriteEdit(s) \/ EndFiling(s) \/ Rollback(s)

Happens ==
  \/ \E r \in Requests : SoftDelete(r) \/ \E t \in RequestStatus, role \in UserRole : Move(r, t, role)
  \/ FlagSupplier
  \/ SetLockEnabled

Remember ==
  standing' = [s \in Sessions |->
    IF call'[s].at = "idle" THEN {}
    ELSE (IF call[s].at = "idle" THEN Facts ELSE standing[s]) \cap Facts']

Next ==
  /\ (\E s \in Sessions : Session(s)) \/ (Event /\ Happens) \/ NewDay
  /\ Remember

Spec == Init /\ [][Next]_vars

--------------------------------------------------------------------------------
(* The numbering of a year has no holes and no repetitions: every number   *)
(* up to the last belongs to one row, whatever was rolled back or deleted   *)
(* between (generate_request_number under the advisory lock).               *)
NumbersAreConsecutive ==
  /\ \A r, q \in Rows : row[r].year = row[q].year /\ row[r].number = row[q].number => r = q
  /\ \A r \in Rows, n \in 1 .. Cardinality(Requests) :
       n <= row[r].number => \E q \in Rows : row[q].year = row[r].year /\ row[q].number = n

(* A submission about to insert holds a number no row has: the UNIQUE       *)
(* constraint never turns a user's submission away.                         *)
NumbersNeverClash ==
  \A s \in Sessions : call[s].at = "insert" =>
    \A r \in Rows : row[r].year = call[s].row.year => row[r].number # call[s].row.number

(* The period users are reminded of, and the month under way, can always be *)
(* filed by a merchandiser, at month and year ends too: a locked vertical   *)
(* never waits for the super admin (reminder_period against                 *)
(* period_editable).                                                        *)
ChasedPeriodIsEditable ==
  PeriodEditable(ReminderPeriod(today), today) /\ PeriodEditable(PeriodOf(today), today)

(* The step commits what s writes to r.                                    *)
Commits(s, r, at) ==
  /\ call[s].at \in at /\ call[s].request = r
  /\ call'[s].at = "idle" /\ row'[r] # row[r]

(* A submission during all of which another live request held the invoice   *)
(* number does not become a request, and no correction takes such a number   *)
(* (find_invoice_conflict; a holder that comes or goes meanwhile may be      *)
(* missed).                                                                 *)
StandingNumberIsRefused ==
  [][\A s \in Sessions, r \in Requests :
       Commits(s, r, {"insert", "write"}) =>
         \A q \in Requests \ {r} : <<q, row'[r].invoice>> \notin standing[s]]_vars

(* While the vertical stayed locked nothing is admitted, and while the      *)
(* supplier stayed flagged only into the HoM's hands (assert_vertical_open, *)
(* get_active_default_flag).                                                *)
GatesHold ==
  [][\A s \in Sessions, r \in Requests : Commits(s, r, {"insert"}) =>
       /\ <<"locked">> \notin standing[s]
       /\ <<"flagged">> \in standing[s] => row'[r].status = "pending_hom_approval"]_vars

(* No month turns into a lock unannounced: if a vertical is locked on the   *)
(* first day of a month, then on the day before the page asked for that     *)
(* month and the banner nagged about it, and a merchandiser could file it   *)
(* then and can still file it now, ahead of the banner's deadline           *)
(* (reminders, get_status, period_editable).                                *)
LockIsAnnounced ==
  [][LET turned == PeriodOf(today)'
     IN  turned # PeriodOf(today) /\ Locked' =>
           /\ ProjectionStatus.window_open /\ ProjectionStatus.missing
           /\ ProjectionStatus.target = turned
           /\ Reminders.pending /\ Reminders.period = turned
           /\ PeriodEditable(turned, today) /\ PeriodEditable(turned, today')
           /\ NotAfter(today', Reminders.deadline)]_vars

================================================================================
