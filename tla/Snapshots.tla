------------------------------- MODULE Snapshots -------------------------------
(***************************************************************************)
(* The stored analytics of the requests and the default flags of their     *)
(* suppliers.  Three kinds of pass write them, each in a database session  *)
(* of its own: the scheduler's refresh of every request that can still     *)
(* change, the administrators' recalculation of all of them, and the seed  *)
(* of one request that the endpoints leave to a background task.           *)
(*                                                                         *)
(* A pass reads its requests first and keeps what it read; it then writes  *)
(* one snapshot after the other, which locks the row until the pass        *)
(* commits, and stages a flag for the supplier of an overdue request.      *)
(* Staged flags reach the database with the commit (autoflush is off).  A  *)
(* failure rolls the batch back and ends the pass: in the loop of the      *)
(* refresh the rollback expires the requests still to be visited, and the  *)
(* first of them read after it raises outside the handler.                 *)
(***************************************************************************)
EXTENDS AnalyticsEngine, FiniteSets

CONSTANTS Requests, Suppliers, SupplierOf,
          Cron,          \* the scheduler's session: one run at a time
          Workers,       \* sessions of background tasks
          NoRow,         \* no snapshot, nothing to do
          BatchSize,     \* 100 in the code
          Etds,          \* bound: the dates of departure users enter
          LastDay,       \* bound: the clock stops here
          MaxEvents      \* bound: calls of the users and failures together

ASSUME SnapshotsAssumption ==
  /\ SupplierOf \in [Requests -> Suppliers]
  /\ Cron \notin Workers
  /\ IsFiniteSet(Requests)
  /\ BatchSize \in Nat \ {0}
  /\ Etds \subseteq Nat /\ LastDay \in Nat /\ MaxEvents \in Nat

VARIABLES
  today,
  request,     \* committed rows: the status and what the engine reads
  snapshot,    \* analytics_snapshots
  active,      \* suppliers with an active flag
  resolved,    \* suppliers with a resolved flag
  due,         \* requests whose seed is still to run
  kind,        \* what each session is running
  todo,        \* the rows a pass has read and has not written
  wrote,       \* its uncommitted snapshots
  staged,      \* how many flags it has staged for a supplier
  events

vars == <<today, request, snapshot, active, resolved, due, kind, todo, wrote,
          staged, events>>

pass == <<kind, todo, wrote, staged>>

Session == Workers \cup {Cron}

Status == {"pending", "processed", "frozen"}

Row == [status : Status, etd : Date, paid : Date, ship : Date]

NoRows == [r \in Requests |-> NoRow]
NoFlags == [s \in Suppliers |-> 0]

(* Requests as the form leaves them, and as the tracker import does:       *)
(* processed, shipped or not, without a snapshot.                          *)
Imported == [status : {"processed"}, etd : {NoDate, 0}, paid : {0}, ship : {NoDate, 0}]
Submitted == [status : {"pending"}, etd : {NoDate, 0}, paid : {NoDate}, ship : {NoDate}]

Init ==
  /\ today = 0
  /\ request \in [Requests -> Imported \cup Submitted]
  /\ snapshot = NoRows
  /\ active = {} /\ resolved = {} /\ due = {}
  /\ kind = [s \in Session |-> "idle"]
  /\ todo = [s \in Session |-> NoRows]
  /\ wrote = [s \in Session |-> NoRows]
  /\ staged = [s \in Session |-> NoFlags]
  /\ events = 0

--------------------------------------------------------------------------------
(* The users: a call that changes what the engine reads commits and leaves *)
(* a seed behind; one that closes the request leaves none.                 *)

Rewrite(r, row) ==
  /\ request' = [request EXCEPT ![r] = row]
  /\ UNCHANGED <<today, snapshot, active, resolved, pass>>

MoveEtd(r) ==
  /\ request[r].status = "pending"
  /\ \E e \in Etds :
       /\ request[r].etd # NoDate => request[r].etd < e     \* bound: later only
       /\ Rewrite(r, [request[r] EXCEPT !.etd = e])
  /\ due' = due \cup {r}

Pay(r) ==
  /\ request[r].status = "pending"
  /\ Rewrite(r, [request[r] EXCEPT !.status = "processed", !.paid = today])
  /\ due' = due \cup {r}

RecordShipment(r) ==
  /\ request[r].ship = NoDate         \* bound: one date, never corrected
  /\ Rewrite(r, [request[r] EXCEPT !.ship = today])
  /\ due' = due \cup {r}

(* Cancelled by either side, or rejected by the head of merchandisers.     *)
Close(r) ==
  /\ request[r].status = "pending"
  /\ Rewrite(r, [request[r] EXCEPT !.status = "frozen"])
  /\ UNCHANGED due

FlagByHand(s) ==
  /\ s \notin active
  /\ active' = active \cup {s}
  /\ UNCHANGED <<today, request, snapshot, resolved, due, pass>>

(* The flag's row becomes inactive: the table's unique key on the supplier *)
(* and is_active refuses a second resolved row.                            *)
Resolve(s) ==
  /\ s \in active /\ s \notin resolved
  /\ active' = active \ {s}
  /\ resolved' = resolved \cup {s}
  /\ UNCHANGED <<today, request, snapshot, due, pass>>

Tick ==
  /\ today < LastDay
  /\ today' = today + 1
  /\ UNCHANGED <<request, snapshot, active, resolved, due, pass, events>>

--------------------------------------------------------------------------------
(* The passes.                                                             *)

(* The refresh leaves out what it takes for final: closed requests, and    *)
(* shipped ones whose stored graced date has passed.                       *)
Skipped(r) ==
  /\ request[r].status = "processed" /\ request[r].ship # NoDate
  /\ snapshot[r] # NoRow
  /\ snapshot[r].grace_etd # NoDate /\ snapshot[r].grace_etd < today

Listed(r, force) == request[r].status # "frozen" /\ (force \/ ~Skipped(r))

Start(s, k, rows) ==
  /\ kind[s] = "idle"
  /\ kind' = [kind EXCEPT ![s] = k]
  /\ todo' = [todo EXCEPT ![s] = [r \in Requests |-> IF r \in rows THEN request[r] ELSE NoRow]]
  /\ UNCHANGED <<today, request, snapshot, active, resolved, wrote, staged>>

Refresh ==
  /\ Start(Cron, "refresh", {r \in Requests : Listed(r, FALSE)})
  /\ UNCHANGED <<due, events>>

Recalculate(s) ==
  /\ Start(s, "recalculate", {r \in Requests : Listed(r, TRUE)})
  /\ UNCHANGED due

Seed(s, r) ==
  /\ r \in due
  /\ Start(s, "seed", {r})
  /\ due' = due \ {r}
  /\ UNCHANGED events

Remaining(s) == {r \in Requests : todo[s][r] # NoRow}
Written(s) == {r \in Requests : wrote[s][r] # NoRow}

CommitDue(s) ==
  /\ kind[s] # "idle"
  /\ Remaining(s) = {} \/ Cardinality(Written(s)) >= BatchSize

LockedBy(s, r) == wrote[s][r] # NoRow

(* get_active_default_flag finds none; and, as a check of the table        *)
(* without the is_active filter would have it, for any flag ever raised.   *)
NeverFlagged(u) == u \notin active \cup resolved
NoActiveFlag(u) == u \notin active

(* One turn of the loop: compute with today's date from what was read      *)
(* when the pass began, upsert, stage the flag.                            *)
Upsert(s, r) ==
  /\ kind[s] # "idle" /\ ~CommitDue(s)
  /\ r \in Remaining(s)
  /\ \A t \in Session \ {s} : ~LockedBy(t, r)
  /\ LET metrics == Compute(todo[s][r], today)
     IN /\ wrote' = [wrote EXCEPT ![s][r] = metrics]
        /\ staged' = IF metrics.overdue # NoDate /\ metrics.overdue > 0
                        /\ NoActiveFlag(SupplierOf[r])
                     THEN [staged EXCEPT ![s][SupplierOf[r]] = @ + 1]
                     ELSE staged
  /\ todo' = [todo EXCEPT ![s][r] = NoRow]
  /\ UNCHANGED <<today, request, snapshot, active, resolved, due, kind, events>>

Flagged(s) == {u \in Suppliers : staged[s][u] > 0}

(* The unique key on the supplier and is_active.                           *)
Conflict(s) == \E u \in Flagged(s) : staged[s][u] > 1 \/ u \in active

Ended(s) ==
  /\ kind' = [kind EXCEPT ![s] = "idle"]
  /\ todo' = [todo EXCEPT ![s] = NoRows]

Clear(s) ==
  /\ wrote' = [wrote EXCEPT ![s] = NoRows]
  /\ staged' = [staged EXCEPT ![s] = NoFlags]

(* The upsert's ON CONFLICT DO UPDATE; a DO NOTHING would keep the first.  *)
MergeOnce(s, r) == IF LockedBy(s, r) /\ snapshot[r] = NoRow THEN wrote[s][r] ELSE snapshot[r]
Merge(s, r) == IF LockedBy(s, r) THEN wrote[s][r] ELSE snapshot[r]

Commit(s) ==
  /\ CommitDue(s) /\ ~Conflict(s)
  /\ snapshot' = [r \in Requests |-> Merge(s, r)]
  /\ active' = active \cup Flagged(s)
  /\ Clear(s)
  /\ IF Remaining(s) = {} THEN Ended(s) ELSE UNCHANGED <<kind, todo>>
  /\ UNCHANGED <<today, request, resolved, due, events>>

(* The rollback drops snapshots and flags together.                        *)
Abandon(s) ==
  /\ Ended(s) /\ Clear(s)
  /\ UNCHANGED <<today, request, snapshot, active, resolved, due>>

CommitFails(s) ==
  /\ CommitDue(s) /\ Conflict(s)
  /\ Abandon(s) /\ UNCHANGED events

WaitsFor(s, t) == s # t /\ \E r \in Remaining(s) : LockedBy(t, r)

(* The database ends one of two passes that wait for each other's rows.    *)
DeadlockVictim(s) ==
  /\ kind[s] # "idle"
  /\ \E t \in Session : WaitsFor(s, t) /\ \E u \in Session : WaitsFor(t, u)
  /\ Abandon(s) /\ UNCHANGED events

ConnectionLost(s) ==
  /\ kind[s] # "idle"
  /\ Abandon(s)

(* The process ends with a seed still queued.                              *)
SeedLost(r) ==
  /\ r \in due
  /\ due' = due \ {r}
  /\ UNCHANGED <<today, request, snapshot, active, resolved, pass>>

--------------------------------------------------------------------------------
Event ==
  /\ events < MaxEvents
  /\ events' = events + 1
  /\ \/ \E r \in Requests : \/ MoveEtd(r) \/ Pay(r) \/ RecordShipment(r) \/ Close(r)
                            \/ SeedLost(r)
     \/ \E u \in Suppliers : FlagByHand(u) \/ Resolve(u)
     \/ \E s \in Session : ConnectionLost(s)
     \/ \E s \in Workers : Recalculate(s)

Turn(s) == (\E r \in Requests : Upsert(s, r)) \/ Commit(s) \/ CommitFails(s) \/ DeadlockVictim(s)

Next ==
  \/ Event
  \/ Tick
  \/ Refresh
  \/ \E s \in Workers, r \in Requests : Seed(s, r)
  \/ \E s \in Session : Turn(s)

Spec == Init /\ [][Next]_vars

(* The scheduler starts a refresh every half hour; a pass that has begun   *)
(* goes on, and so does the calendar.  Background tasks and administrators *)
(* promise nothing.                                                        *)
Fairness ==
  /\ WF_vars(Tick) /\ WF_vars(Refresh)
  /\ \A s \in Session : WF_vars(Turn(s))

FairSpec == Spec /\ Fairness

--------------------------------------------------------------------------------
(* A stored overdue count says everything the dashboards add to it: the    *)
(* goods are unshipped, the cost of fund runs from the original date, so   *)
(* over the grace days as well, and the file is classed as late.           *)
Consistent(metrics) ==
  metrics.overdue # NoDate =>
    /\ metrics.overdue > 0 =>
         /\ metrics.payment_to_ship = NoDate /\ metrics.cof_applicable
         /\ metrics.cof = DailyCharge * (metrics.overdue + GraceDays)
    /\ metrics.overdue = 0 <=> metrics.default_status = "on_time"

(* Every stored snapshot is consistent in that sense, whatever batches,    *)
(* rollbacks and concurrent passes wrote it.                               *)
OverdueIsCharged == \A r \in Requests : snapshot[r] # NoRow => Consistent(snapshot[r])

(* No stored snapshot says overdue of a supplier the flags do not know:    *)
(* the flag of a late supplier commits with the snapshot or before it, and *)
(* only a resolution takes it off the active list.                         *)
EveryDefaulterIsKnown ==
  \A r \in Requests :
    snapshot[r] # NoRow /\ snapshot[r].overdue # NoDate /\ snapshot[r].overdue > 0
      => SupplierOf[r] \in active \cup resolved

(* The refresh catches up: once the days and the users stand still, the    *)
(* stored metrics of every request it does not skip are today's.           *)
Current(r) == Listed(r, FALSE) => snapshot[r] = Compute(request[r], today)

SnapshotsFollow == <>[](\A r \in Requests : Current(r))

(* A supplier with an overdue file ends up flagged, also when a flag was   *)
(* resolved in between.                                                    *)
DefaultersFlagged ==
  \A r \in Requests :
    <>[](request[r].status # "frozen" /\ Overdue(request[r], today) \in Nat \ {0}
           => SupplierOf[r] \in active)

================================================================================
