---------------------------- MODULE SnapshotsProofs ----------------------------
(***************************************************************************)
(* Proofs about the stored analytics, for any number of requests,          *)
(* suppliers and background sessions, any batch size, grace period and     *)
(* length of the calendar.  The invariant follows a snapshot from the      *)
(* session that computed it to the table: what is true of every computed   *)
(* row is true of every uncommitted and of every stored one, and the flag  *)
(* of an overdue one is staged in the same session until both commit.      *)
(***************************************************************************)
EXTENDS Dashboards, Sums

IsLate(metrics) == metrics.overdue # NoDate /\ metrics.overdue > 0

IndInv ==
  /\ today \in Nat
  /\ request \in [Requests -> Row]
  /\ active \subseteq Suppliers /\ resolved \subseteq Suppliers
  /\ todo \in [Session -> [Requests -> Row \cup {NoRow}]]
  /\ DOMAIN wrote = Session
  /\ \A s \in Session : DOMAIN wrote[s] = Requests
  /\ staged \in [Session -> [Suppliers -> Nat]]
  /\ \A s \in Session, r \in Requests :
       LockedBy(s, r) =>
         /\ Consistent(wrote[s][r])
         /\ IsLate(wrote[s][r]) => SupplierOf[r] \in active \cup resolved \cup Flagged(s)
  /\ OverdueIsCharged
  /\ EveryDefaulterIsKnown

(* What the engine computes is consistent.                                 *)
LEMMA ComputedIsConsistent ==
  ASSUME NEW row \in Row, NEW d \in Nat
  PROVE  Consistent(Compute(row, d))
<1> DEFINE m == Compute(row, d)
<1>1. /\ m.overdue = Overdue(row, d) /\ m.cof = Charge(row, d)
      /\ m.cof_applicable = Applicable(row)
      /\ m.default_status = DefaultStatus(Overdue(row, d))
      /\ m.payment_to_ship = IF row.paid = NoDate \/ row.ship = NoDate THEN NoDate
                             ELSE row.ship - row.paid
  BY DEF Compute
<1> HIDE DEF m
<1>2. /\ row.etd \in Date /\ row.paid \in Date /\ row.ship \in Date
      /\ NoDate \notin Int /\ GraceDays \in Nat
  BY EngineAssumption DEF Row
<1>3. CASE m.overdue = NoDate
  BY <1>3 DEF Consistent, m
<1>4. CASE m.overdue = 0
  BY <1>1, <1>4 DEF Consistent, m, DefaultStatus
<1>5. CASE m.overdue # NoDate /\ m.overdue # 0
  <2>1. /\ row.paid # NoDate /\ row.ship = NoDate /\ row.etd # NoDate
        /\ row.etd \in Nat /\ d > row.etd + GraceDays
        /\ m.overdue = d - (row.etd + GraceDays)
    BY <1>1, <1>2, <1>5 DEF Overdue, Date
  <2>2. Late(row, d) = m.overdue + GraceDays
    BY <1>2, <2>1 DEF Late
  <2>3. m.cof_applicable /\ m.cof = DailyCharge * (m.overdue + GraceDays)
    BY <1>1, <1>2, <2>1, <2>2 DEF Charge, Applicable
  <2>4. m.default_status # "on_time"
    BY <1>1, <1>2, <1>5, <2>1 DEF DefaultStatus
  <2> QED BY <1>1, <1>2, <1>5, <2>1, <2>3, <2>4 DEF Consistent, m
<1> QED BY <1>3, <1>4, <1>5

\* At the start nothing is aggregated.
LEMMA InitIndInv == Init => IndInv
<1> SUFFICES ASSUME Init PROVE IndInv
  OBVIOUS
<1>1. request \in [Requests -> Row]
  <2>1. Imported \cup Submitted \subseteq Row
    BY DEF Imported, Submitted, Row, Status, Date
  <2> QED BY <2>1 DEF Init
<1>2. \A s \in Session, r \in Requests : ~LockedBy(s, r)
  BY DEF Init, LockedBy, NoRows
<1>3. /\ today \in Nat /\ active \subseteq Suppliers /\ resolved \subseteq Suppliers
      /\ todo \in [Session -> [Requests -> Row \cup {NoRow}]]
      /\ DOMAIN wrote = Session /\ \A s \in Session : DOMAIN wrote[s] = Requests
      /\ staged \in [Session -> [Suppliers -> Nat]]
  BY DEF Init, NoRows, NoFlags
<1>4. OverdueIsCharged /\ EveryDefaulterIsKnown
  BY DEF Init, NoRows, OverdueIsCharged, EveryDefaulterIsKnown
<1> QED BY <1>1, <1>2, <1>3, <1>4 DEF IndInv

(* A step that leaves the snapshots, written or not, and the staged flags  *)
(* alone, and takes no supplier out of the two lists together.             *)
LEMMA Untouched ==
  ASSUME IndInv, UNCHANGED <<snapshot, wrote, staged>>,
         today' \in Nat, request' \in [Requests -> Row],
         active' \subseteq Suppliers, resolved' \subseteq Suppliers,
         active \cup resolved \subseteq active' \cup resolved',
         todo' \in [Session -> [Requests -> Row \cup {NoRow}]]
  PROVE  IndInv'
<1>1. \A s \in Session : Flagged(s)' = Flagged(s)
  BY DEF Flagged
<1>2. \A s \in Session, r \in Requests : LockedBy(s, r)' = LockedBy(s, r)
  BY DEF LockedBy
<1>3. OverdueIsCharged' /\ EveryDefaulterIsKnown'
  BY DEF IndInv, OverdueIsCharged, EveryDefaulterIsKnown
<1>4. \A s \in Session, r \in Requests :
       LockedBy(s, r)' =>
         /\ Consistent(wrote'[s][r])
         /\ IsLate(wrote'[s][r]) =>
              SupplierOf[r] \in active' \cup resolved' \cup Flagged(s)'
  BY <1>1, <1>2 DEF IndInv
<1>5. /\ DOMAIN wrote' = Session /\ \A s \in Session : DOMAIN wrote'[s] = Requests
      /\ staged' \in [Session -> [Suppliers -> Nat]]
  BY DEF IndInv
<1> QED BY <1>3, <1>4, <1>5 DEF IndInv

(* The loop's turn.                                                        *)
LEMMA UpsertStep ==
  ASSUME IndInv, NEW s \in Session, NEW r \in Requests, Upsert(s, r)
  PROVE  IndInv'
<1> DEFINE metrics == Compute(todo[s][r], today)
<1>1. todo[s][r] \in Row /\ today \in Nat /\ SupplierOf[r] \in Suppliers
  BY SnapshotsAssumption DEF IndInv, Upsert, Remaining
<1>2. /\ wrote' = [wrote EXCEPT ![s][r] = metrics]
      /\ todo' = [todo EXCEPT ![s][r] = NoRow]
      /\ UNCHANGED <<today, request, snapshot, active, resolved>>
  BY DEF Upsert
<1>3. staged' = IF IsLate(metrics) /\ SupplierOf[r] \notin active
                THEN [staged EXCEPT ![s][SupplierOf[r]] = @ + 1] ELSE staged
  BY DEF Upsert, IsLate, NoActiveFlag
<1>4. Consistent(metrics)
  BY <1>1, ComputedIsConsistent
<1> HIDE DEF metrics
<1>5. /\ staged' \in [Session -> [Suppliers -> Nat]]
      /\ \A t \in Session : Flagged(t) \subseteq Flagged(t)'
      /\ IsLate(metrics) => SupplierOf[r] \in active \cup Flagged(s)'
  BY <1>1, <1>3 DEF IndInv, Flagged
<1>6. /\ todo' \in [Session -> [Requests -> Row \cup {NoRow}]]
      /\ DOMAIN wrote' = Session /\ \A t \in Session : DOMAIN wrote'[t] = Requests
      /\ wrote'[s][r] = metrics
      /\ \A t \in Session, q \in Requests :
           t # s \/ q # r => wrote'[t][q] = wrote[t][q]
  BY <1>2 DEF IndInv
<1>7. \A t \in Session, q \in Requests :
       LockedBy(t, q)' =>
         /\ Consistent(wrote'[t][q])
         /\ IsLate(wrote'[t][q]) =>
              SupplierOf[q] \in active' \cup resolved' \cup Flagged(t)'
  <2> SUFFICES ASSUME NEW t \in Session, NEW q \in Requests, LockedBy(t, q)'
               PROVE  /\ Consistent(wrote'[t][q])
                      /\ IsLate(wrote'[t][q]) =>
                           SupplierOf[q] \in active' \cup resolved' \cup Flagged(t)'
    OBVIOUS
  <2>1. CASE t = s /\ q = r
    BY <1>2, <1>4, <1>5, <1>6, <2>1
  <2>2. CASE t # s \/ q # r
    <3>1. LockedBy(t, q) /\ wrote'[t][q] = wrote[t][q]
      BY <1>6, <2>2 DEF LockedBy
    <3> QED BY <3>1, <1>2, <1>5 DEF IndInv
  <2> QED BY <2>1, <2>2
<1>8. OverdueIsCharged' /\ EveryDefaulterIsKnown'
  BY <1>2 DEF IndInv, OverdueIsCharged, EveryDefaulterIsKnown
<1> QED BY <1>1, <1>2, <1>5, <1>6, <1>7, <1>8 DEF IndInv

(* A commit moves the session's snapshots and its flags together.          *)
LEMMA CommitStep ==
  ASSUME IndInv, NEW s \in Session, Commit(s)
  PROVE  IndInv'
<1>1. /\ snapshot' = [r \in Requests |-> IF LockedBy(s, r) THEN wrote[s][r] ELSE snapshot[r]]
      /\ active' = active \cup Flagged(s) /\ resolved' = resolved
      /\ today' = today /\ request' = request
      /\ wrote' = [wrote EXCEPT ![s] = NoRows] /\ staged' = [staged EXCEPT ![s] = NoFlags]
  BY DEF Commit, Clear, Merge
<1>2. /\ active' \subseteq Suppliers
      /\ todo' \in [Session -> [Requests -> Row \cup {NoRow}]]
      /\ DOMAIN wrote' = Session /\ \A t \in Session : DOMAIN wrote'[t] = Requests
      /\ staged' \in [Session -> [Suppliers -> Nat]]
  <2>1. active' \subseteq Suppliers
    BY <1>1 DEF IndInv, Flagged
  <2>2. NoRows \in [Requests -> Row \cup {NoRow}] /\ DOMAIN NoRows = Requests
        /\ NoFlags \in [Suppliers -> Nat]
    BY DEF NoRows, NoFlags
  <2>3. todo' = todo \/ todo' = [todo EXCEPT ![s] = NoRows]
    BY DEF Commit, Ended
  <2>4. todo' \in [Session -> [Requests -> Row \cup {NoRow}]]
    BY <2>2, <2>3 DEF IndInv
  <2> QED BY <1>1, <2>1, <2>2, <2>4 DEF IndInv
<1>3. \A t \in Session, r \in Requests :
       LockedBy(t, r)' =>
         /\ Consistent(wrote'[t][r])
         /\ IsLate(wrote'[t][r]) =>
              SupplierOf[r] \in active' \cup resolved' \cup Flagged(t)'
  <2> SUFFICES ASSUME NEW t \in Session, NEW r \in Requests, LockedBy(t, r)'
               PROVE  /\ Consistent(wrote'[t][r])
                      /\ IsLate(wrote'[t][r]) =>
                           SupplierOf[r] \in active' \cup resolved' \cup Flagged(t)'
    OBVIOUS
  <2>1. t # s
    BY <1>1 DEF LockedBy, NoRows, IndInv
  <2>2. wrote'[t] = wrote[t] /\ staged'[t] = staged[t]
    BY <1>1, <2>1 DEF IndInv
  <2>3. LockedBy(t, r) /\ Flagged(t)' = Flagged(t)
    BY <2>2 DEF LockedBy, Flagged
  <2> QED BY <1>1, <2>2, <2>3 DEF IndInv
<1>4. \A r \in Requests :
       \/ LockedBy(s, r) /\ snapshot'[r] = wrote[s][r]
       \/ snapshot'[r] = snapshot[r]
  BY <1>1
<1>5. OverdueIsCharged'
  BY <1>4 DEF IndInv, OverdueIsCharged
<1>6. EveryDefaulterIsKnown'
  <2> SUFFICES ASSUME NEW r \in Requests, snapshot'[r] # NoRow, IsLate(snapshot'[r])
               PROVE  SupplierOf[r] \in active' \cup resolved'
    BY DEF EveryDefaulterIsKnown, IsLate
  <2>1. CASE LockedBy(s, r) /\ snapshot'[r] = wrote[s][r]
    BY <1>1, <2>1 DEF IndInv
  <2>2. CASE snapshot'[r] = snapshot[r]
    BY <1>1, <2>2 DEF IndInv, EveryDefaulterIsKnown, IsLate
  <2> QED BY <1>4, <2>1, <2>2
<1> QED BY <1>1, <1>2, <1>3, <1>5, <1>6 DEF IndInv

(* A rollback leaves the database as it was.                               *)
LEMMA AbandonStep ==
  ASSUME IndInv, NEW s \in Session, Abandon(s)
  PROVE  IndInv'
<1>1. /\ UNCHANGED <<today, request, snapshot, active, resolved>>
      /\ wrote' = [wrote EXCEPT ![s] = NoRows] /\ staged' = [staged EXCEPT ![s] = NoFlags]
      /\ todo' = [todo EXCEPT ![s] = NoRows]
  BY DEF Abandon, Ended, Clear
<1>2. /\ todo' \in [Session -> [Requests -> Row \cup {NoRow}]]
      /\ DOMAIN wrote' = Session /\ \A t \in Session : DOMAIN wrote'[t] = Requests
      /\ staged' \in [Session -> [Suppliers -> Nat]]
  BY <1>1 DEF IndInv, NoRows, NoFlags
<1>3. \A t \in Session, r \in Requests :
       LockedBy(t, r)' =>
         /\ Consistent(wrote'[t][r])
         /\ IsLate(wrote'[t][r]) =>
              SupplierOf[r] \in active' \cup resolved' \cup Flagged(t)'
  <2> SUFFICES ASSUME NEW t \in Session, NEW r \in Requests, LockedBy(t, r)'
               PROVE  /\ Consistent(wrote'[t][r])
                      /\ IsLate(wrote'[t][r]) =>
                           SupplierOf[r] \in active' \cup resolved' \cup Flagged(t)'
    OBVIOUS
  <2>1. t # s
    BY <1>1 DEF LockedBy, NoRows, IndInv
  <2>2. wrote'[t] = wrote[t] /\ staged'[t] = staged[t]
    BY <1>1, <2>1 DEF IndInv
  <2>3. LockedBy(t, r) /\ Flagged(t)' = Flagged(t)
    BY <2>2 DEF LockedBy, Flagged
  <2> QED BY <1>1, <2>2, <2>3 DEF IndInv
<1>4. OverdueIsCharged' /\ EveryDefaulterIsKnown'
  BY <1>1 DEF IndInv, OverdueIsCharged, EveryDefaulterIsKnown
<1> QED BY <1>1, <1>2, <1>3, <1>4 DEF IndInv

(* The users' calls about a request.                                       *)
LEMMA UserSteps ==
  ASSUME IndInv, NEW r \in Requests,
         MoveEtd(r) \/ Pay(r) \/ RecordShipment(r) \/ Close(r) \/ SeedLost(r)
  PROVE  IndInv'
<1>1. ASSUME NEW row \in Row, Rewrite(r, row) PROVE IndInv'
  <2>1. request' \in [Requests -> Row]
    BY <1>1 DEF Rewrite, IndInv
  <2> QED BY <1>1, <2>1, Untouched DEF Rewrite, pass, IndInv
<1>2. request[r] \in Row /\ today \in Nat /\ Etds \subseteq Nat
  BY SnapshotsAssumption DEF IndInv
<1>3. CASE MoveEtd(r)
  <2>1. \A e \in Etds : [request[r] EXCEPT !.etd = e] \in Row
    BY <1>2 DEF Row, Date
  <2> QED BY <1>1, <1>3, <2>1 DEF MoveEtd
<1>4. CASE Pay(r)
  <2>1. [request[r] EXCEPT !.status = "processed", !.paid = today] \in Row
    BY <1>2 DEF Row, Date, Status
  <2> QED BY <1>1, <1>4, <2>1 DEF Pay
<1>5. CASE RecordShipment(r)
  <2>1. [request[r] EXCEPT !.ship = today] \in Row
    BY <1>2 DEF Row, Date
  <2> QED BY <1>1, <1>5, <2>1 DEF RecordShipment
<1>6. CASE Close(r)
  <2>1. [request[r] EXCEPT !.status = "frozen"] \in Row
    BY <1>2 DEF Row, Status
  <2> QED BY <1>1, <1>6, <2>1 DEF Close
<1>7. CASE SeedLost(r)
  BY <1>7, Untouched DEF SeedLost, pass, IndInv
<1> QED BY <1>3, <1>4, <1>5, <1>6, <1>7

\* Every step keeps the invariant.
LEMMA StepIndInv == IndInv /\ [Next]_vars => IndInv'
<1> SUFFICES ASSUME IndInv, [Next]_vars PROVE IndInv'
  OBVIOUS
<1>1. CASE UNCHANGED vars
  BY <1>1, Untouched DEF vars, pass, IndInv
<1>2. CASE Tick
  <2>1. UNCHANGED <<snapshot, wrote, staged, request, active, resolved, todo>> /\ today' \in Nat
    BY <1>2 DEF Tick, pass, IndInv
  <2> QED BY <2>1, Untouched DEF IndInv
<1>3. ASSUME NEW s \in Session, NEW k \in {"refresh", "recalculate", "seed"},
             NEW rows \in SUBSET Requests, Start(s, k, rows)
      PROVE  IndInv'
  <2>1. todo' \in [Session -> [Requests -> Row \cup {NoRow}]]
    BY <1>3 DEF Start, IndInv
  <2> QED BY <1>3, <2>1, Untouched DEF Start, IndInv
<1>4. CASE Refresh
  BY <1>3, <1>4 DEF Refresh, Session
<1>5. ASSUME NEW s \in Workers, NEW r \in Requests, Recalculate(s) \/ Seed(s, r)
      PROVE  IndInv'
  BY <1>3, <1>5 DEF Recalculate, Seed, Session
<1>6. ASSUME NEW s \in Session, Turn(s) PROVE IndInv'
  BY <1>6, UpsertStep, CommitStep, AbandonStep DEF Turn, CommitFails, DeadlockVictim
<1>7. CASE Event
  <2>1. ASSUME NEW s \in Session, ConnectionLost(s) PROVE IndInv'
    BY <2>1, AbandonStep DEF ConnectionLost
  <2>2. ASSUME NEW s \in Workers, Recalculate(s) PROVE IndInv'
    BY <2>2, <1>3 DEF Recalculate, Session
  <2>3. ASSUME NEW r \in Requests,
               MoveEtd(r) \/ Pay(r) \/ RecordShipment(r) \/ Close(r) \/ SeedLost(r)
        PROVE  IndInv'
    BY <2>3, UserSteps
  <2>4. ASSUME NEW u \in Suppliers, FlagByHand(u) \/ Resolve(u) PROVE IndInv'
    BY <2>4, Untouched DEF FlagByHand, Resolve, pass, IndInv
  <2> QED BY <1>7, <2>1, <2>2, <2>3, <2>4 DEF Event
<1> QED BY <1>1, <1>2, <1>4, <1>5, <1>6, <1>7 DEF Next

\* The invariant holds throughout.
THEOREM Invariance == Spec => []IndInv
BY InitIndInv, StepIndInv, PTL DEF Spec

(* Every stored overdue count is consistent with the rest of its row.      *)
THEOREM AlwaysCharged == Spec => []OverdueIsCharged
<1>1. IndInv => OverdueIsCharged
  BY DEF IndInv
<1> QED BY <1>1, Invariance, PTL

(* The supplier of every stored overdue count is on one of the two lists.  *)
THEOREM DefaultersKnown == Spec => []EveryDefaulterIsKnown
<1>1. IndInv => EveryDefaulterIsKnown
  BY DEF IndInv
<1> QED BY <1>1, Invariance, PTL

(* What the refresh's skip rule relies on is true of the engine: after the *)
(* graced date the metrics of a paid and shipped request no longer depend  *)
(* on the day.                                                             *)
THEOREM ShippedIsStatic ==
  ASSUME NEW row \in Row, row.paid # NoDate, row.ship # NoDate, row.etd # NoDate,
         NEW d \in Nat, NEW e \in Nat,
         d > row.etd + GraceDays, e > row.etd + GraceDays
  PROVE  Compute(row, d) = Compute(row, e)
<1>1. Overdue(row, d) = Overdue(row, e) /\ Late(row, d) = Late(row, e)
  BY DEF Overdue, Late
<1>2. Charge(row, d) = Charge(row, e)
  BY <1>1 DEF Charge
<1> QED BY <1>1, <1>2 DEF Compute

(* It is not true of a snapshot taken up to the graced date, which is what *)
(* the rule finds stored the day after: it holds no charge, where the      *)
(* engine would then store one.                                            *)
THEOREM ChargeFlipsAfterGrace ==
  ASSUME NEW row \in Row, row.paid # NoDate, row.ship # NoDate, row.etd # NoDate,
         row.ship > row.etd, DailyCharge > 0,
         NEW d \in Nat, NEW e \in Nat,
         d <= row.etd + GraceDays, e > row.etd + GraceDays
  PROVE  Compute(row, d).cof = 0 /\ Compute(row, e).cof > 0
<1>1. row.etd \in Nat /\ row.ship \in Nat /\ GraceDays \in Nat /\ DailyCharge \in Nat
  BY EngineAssumption DEF Row, Date
<1>2. Late(row, e) \in Nat /\ Late(row, e) > 0
  BY <1>1 DEF Late
<1>3. DailyCharge * Late(row, e) > 0
  BY <1>1, <1>2
<1> QED BY <1>1, <1>3 DEF Compute, Charge, Applicable

--------------------------------------------------------------------------------
(* The screens, for a paid file on its way whose snapshot is the one of    *)
(* the day: it is in exactly one column of the pipeline, and when it is    *)
(* late the tables give it the days that the list of shipments does and    *)
(* find it in the same bucket, for every bucket beyond the grace period.   *)
THEOREM CurrentScreensAgree ==
  ASSUME NEW r \in Live, request[r] \in Row, today \in Nat,
         Paid(r), Unshipped(r),
         snapshot[r] # NoRow, snapshot[r] = Compute(request[r], today)
  PROVE  /\ r \in Delayed \/ r \in Graced \/ r \in YetToShip
         /\ ~(r \in Delayed /\ r \in Graced)
         /\ ~(r \in YetToShip /\ r \in Delayed \cup Graced)
         /\ r \in Delayed => DaysDelayed(r) = DaysFromEtd(r)
         /\ \A b \in [low : Nat, high : Date] :
              b.low >= GraceDays => (r \in BucketRows(b) <=> r \in GroupRows(b))
<1> DEFINE etd == request[r].etd
<1>1. /\ r \in Requests /\ request[r].status # "frozen" /\ r \in Joined
      /\ snapshot[r].grace_etd = GraceEtd(request[r])
      /\ snapshot[r].overdue = Overdue(request[r], today)
  BY DEF Live, Joined, Compute
<1>2. etd \in Nat \/ etd = NoDate
  BY DEF Row, Date
<1>3. NoDate \notin Int /\ GraceDays \in Nat /\ today \in Nat
  BY EngineAssumption
<1>4. CASE etd = NoDate
  <2>1. snapshot[r].overdue = NoDate /\ snapshot[r].grace_etd = NoDate
    BY <1>1, <1>4 DEF GraceEtd, Overdue
  <2>2. r \notin Delayed /\ r \notin Graced /\ r \in YetToShip
    BY <1>1, <1>4, <2>1 DEF Delayed, StoredOverdue, Graced, YetToShip, EtdPassed
  <2>3. \A b : r \notin BucketRows(b) /\ r \notin GroupRows(b)
    BY <1>4, <2>2 DEF BucketRows, GroupRows, DelayDays, EtdPassed
  <2> QED BY <2>2, <2>3
<1>5. CASE etd \in Nat
  <2>1. snapshot[r].grace_etd = etd + GraceDays
    BY <1>1, <1>3, <1>5 DEF GraceEtd
  <2>2. snapshot[r].overdue =
          IF today > etd + GraceDays THEN today - (etd + GraceDays) ELSE 0
    BY <1>1, <1>3, <1>5 DEF Overdue, Paid, Unshipped
  <2>3. r \in Delayed <=> today > etd + GraceDays
    BY <1>1, <1>3, <1>5, <2>2 DEF Delayed, StoredOverdue
  <2>4. r \in Graced <=> etd < today /\ today <= etd + GraceDays
    BY <1>1, <1>3, <1>5, <2>1 DEF Graced, EtdPassed
  <2>5. r \in YetToShip <=> today <= etd
    BY <1>1, <1>3, <1>5 DEF YetToShip, EtdPassed
  <2>6. r \in Delayed => DaysFromEtd(r) = today - etd /\ DaysDelayed(r) = today - etd
    BY <1>3, <1>5, <2>1, <2>2, <2>3 DEF DaysFromEtd, DaysDelayed
  <2>7. ASSUME NEW b \in [low : Nat, high : Date], b.low >= GraceDays
        PROVE  r \in BucketRows(b) <=> r \in GroupRows(b)
    <3>1. r \in BucketRows(b) <=> etd < today /\ InBucket(today - etd, b)
      BY <1>1, <1>3, <1>5 DEF BucketRows, DelayDays, EtdPassed
    <3>2. r \in GroupRows(b) <=> r \in Delayed /\ InBucket(DaysFromEtd(r), b)
      BY <1>3, <1>5 DEF GroupRows
    <3>3. InBucket(today - etd, b) => today > etd + GraceDays
      <4>1. b.low \in Nat /\ b.low # NoDate
        BY <1>3
      <4> QED BY <1>3, <1>5, <2>7, <4>1 DEF InBucket
    <3> QED BY <1>3, <1>5, <2>3, <2>6, <3>1, <3>2, <3>3
  <2> QED BY <1>3, <1>5, <2>3, <2>4, <2>5, <2>6, <2>7
<1> QED BY <1>2, <1>4, <1>5

--------------------------------------------------------------------------------
(* The ranges of days.                                                     *)

Increasing(edges) == \A i, j \in DOMAIN edges : i < j => edges[i] < edges[j]

(* What it means to be in a range of a ladder.                             *)
LEMMA RangeMeans ==
  ASSUME NEW edges \in Seq(Nat), NEW i \in 1 .. Len(edges) + 1, NEW days \in Int
  PROVE  InBucket(days, Ladder(edges)[i]) <=>
           /\ i # 1 => days > edges[i - 1]
           /\ i # Len(edges) + 1 => days <= edges[i]
<1>1. /\ Ladder(edges)[i].low = IF i = 1 THEN NoDate ELSE edges[i - 1]
      /\ Ladder(edges)[i].high = IF i = Len(edges) + 1 THEN NoDate ELSE edges[i]
  BY DEF Ladder
<1>2. \A k \in DOMAIN edges : edges[k] \in Nat /\ edges[k] # NoDate
  BY EngineAssumption
<1>3. DOMAIN edges = 1 .. Len(edges) /\ Len(edges) \in Nat
  OBVIOUS
<1>4. i # 1 => i - 1 \in DOMAIN edges
  BY <1>3
<1>5. i # Len(edges) + 1 => i \in DOMAIN edges
  BY <1>3
<1> QED BY <1>1, <1>2, <1>4, <1>5 DEF InBucket

(* Whatever the days, they are in exactly one range of a ladder.           *)
LEMMA OneRange ==
  ASSUME NEW edges \in Seq(Nat), Increasing(edges), NEW days \in Int
  PROVE  \E k \in 1 .. Len(edges) + 1 :
           \A i \in 1 .. Len(edges) + 1 : InBucket(days, Ladder(edges)[i]) <=> i = k
<1> DEFINE n == Len(edges)
           reached == {i \in 1 .. n + 1 : i = n + 1 \/ days <= edges[i]}
<1>1. /\ n \in Nat /\ DOMAIN edges = 1 .. n
      /\ \A i \in 1 .. n : edges[i] \in Nat
  OBVIOUS
<1>2. reached \in SUBSET Nat /\ n + 1 \in reached
  BY <1>1
<1>3. PICK k \in reached : \A y \in reached : k <= y
  <2> HIDE DEF reached
  <2> QED BY <1>2, Smallest
<1>4. k \in 1 .. n + 1 /\ (k = n + 1 \/ days <= edges[k])
  OBVIOUS
<1>5. \A i \in 1 .. n + 1 : i < k => i # n + 1 /\ ~(days <= edges[i])
  BY <1>1, <1>3, <1>4
<1> HIDE DEF reached
<1>6. ASSUME NEW i \in 1 .. n + 1 PROVE InBucket(days, Ladder(edges)[i]) <=> i = k
  <2>1. InBucket(days, Ladder(edges)[i]) <=>
          (i # 1 => days > edges[i - 1]) /\ (i # n + 1 => days <= edges[i])
    BY RangeMeans
  <2>2. CASE i < k
    <3>1. i # n + 1 /\ ~(days <= edges[i])
      BY <1>5, <2>2
    <3> QED BY <1>1, <1>4, <2>1, <2>2, <3>1
  <2>3. CASE i = k
    <3>1. i # 1 => i - 1 \in 1 .. n + 1 /\ i - 1 < k
      BY <1>1, <1>4, <2>3
    <3>2. i # 1 => i - 1 \in 1 .. n /\ edges[i - 1] \in Nat
      BY <1>1, <1>4, <2>3
    <3>3. i # 1 => days > edges[i - 1]
      BY <1>5, <3>1, <3>2
    <3> QED BY <1>4, <2>1, <2>3, <3>3
  <2>4. CASE i > k
    <3> DEFINE before == i - 1
    <3>1. i # 1 /\ k \in 1 .. n /\ before \in 1 .. n /\ k <= before
      BY <1>1, <1>4, <2>4
    <3>2. days <= edges[k]
      BY <1>4, <3>1
    <3> HIDE DEF before
    <3>3. k = before \/ edges[k] < edges[before]
      <4>1. k = before \/ k < before
        BY <3>1
      <4> QED BY <1>1, <3>1, <4>1 DEF Increasing
    <3>4. edges[k] \in Nat /\ edges[before] \in Nat
      BY <1>1, <3>1
    <3>5. ~(days > edges[before])
      BY <3>2, <3>3, <3>4
    <3> QED BY <2>1, <2>4, <3>1, <3>5 DEF before
  <2> QED BY <1>1, <1>4, <2>2, <2>3, <2>4
<1> QED BY <1>4, <1>6

(* The edges of the buckets: the graced one before those of the bands.     *)
LEMMA BucketEdges ==
  LET edges == <<GracedTop>> \o BandEdges IN
  /\ edges \in Seq(Nat) /\ Increasing(edges)
  /\ Len(edges) = Len(BandEdges) + 1 /\ Len(BandEdges) \in Nat \ {0}
  /\ edges[1] = GracedTop /\ \A i \in 1 .. Len(BandEdges) : edges[i + 1] = BandEdges[i]
<1> DEFINE edges == <<GracedTop>> \o BandEdges
           n == Len(BandEdges)
<1>1. GracedTop \in Nat /\ BandEdges \in Seq(Nat) /\ BandEdges # <<>>
  BY DashboardsAssumption
<1>2. n \in Nat \ {0} /\ DOMAIN BandEdges = 1 .. n /\ \A i \in 1 .. n : BandEdges[i] \in Nat
  BY <1>1
<1>3. edges \in Seq(Nat) /\ Len(edges) = n + 1 /\ DOMAIN edges = 1 .. n + 1
  BY <1>1
<1>4. edges[1] = GracedTop /\ \A i \in 1 .. n : edges[i + 1] = BandEdges[i]
  BY <1>1, <1>2
<1> HIDE DEF edges
<1>5. \A i \in 2 .. n + 1 : i - 1 \in 1 .. n /\ edges[i] = BandEdges[i - 1]
  BY <1>2, <1>4
<1>6. \A i, j \in 1 .. n : i < j => BandEdges[i] < BandEdges[j]
  BY <1>2, DashboardsAssumption
<1>7. \A i \in 1 .. n : GracedTop < BandEdges[i]
  <2>1. GracedTop < BandEdges[1] /\ 1 \in 1 .. n
    BY <1>2, DashboardsAssumption
  <2>2. \A i \in 1 .. n : i = 1 \/ BandEdges[1] < BandEdges[i]
    BY <1>6, <2>1
  <2> QED BY <1>1, <1>2, <2>1, <2>2
<1>8. Increasing(edges)
  <2> SUFFICES ASSUME NEW i \in 1 .. n + 1, NEW j \in 1 .. n + 1, i < j
               PROVE  edges[i] < edges[j]
    BY <1>3 DEF Increasing
  <2>1. j \in 2 .. n + 1
    BY <1>2
  <2>2. CASE i = 1
    BY <1>4, <1>5, <1>7, <2>1, <2>2
  <2>3. CASE i # 1
    <3>1. i \in 2 .. n + 1 /\ i - 1 < j - 1
      BY <1>2, <2>3
    <3> QED BY <1>5, <1>6, <2>1, <3>1
  <2> QED BY <2>2, <2>3
<1> QED BY <1>2, <1>3, <1>4, <1>8 DEF edges

(* The first band is the first two buckets, every other one the bucket     *)
(* after it.                                                               *)
LEMMA BandsAreBuckets ==
  ASSUME NEW i \in DOMAIN AgeingBands, NEW days \in Int
  PROVE  InBucket(days, AgeingBands[i]) <=>
           IF i = 1 THEN InBucket(days, Buckets[1]) \/ InBucket(days, Buckets[2])
           ELSE InBucket(days, Buckets[i + 1])
<1> DEFINE edges == <<GracedTop>> \o BandEdges
           n == Len(BandEdges)
<1>1. /\ edges \in Seq(Nat) /\ Len(edges) = n + 1 /\ n \in Nat \ {0}
      /\ edges[1] = GracedTop /\ \A k \in 1 .. n : edges[k + 1] = BandEdges[k]
  BY BucketEdges
<1>2. i \in 1 .. n + 1
  BY DEF AgeingBands, Ladder
<1>3. /\ BandEdges \in Seq(Nat) /\ GracedTop \in Nat /\ GracedTop < BandEdges[1]
      /\ \A k \in 1 .. n : BandEdges[k] \in Nat
  BY DashboardsAssumption
<1>4. InBucket(days, AgeingBands[i]) <=>
        (i # 1 => days > BandEdges[i - 1]) /\ (i # n + 1 => days <= BandEdges[i])
  BY <1>2, <1>3, RangeMeans DEF AgeingBands
<1> HIDE DEF edges
<1>5. \A k \in 1 .. n + 2 :
        InBucket(days, Buckets[k]) <=>
          (k # 1 => days > edges[k - 1]) /\ (k # n + 2 => days <= edges[k])
  <2> SUFFICES ASSUME NEW k \in 1 .. n + 2
               PROVE  InBucket(days, Buckets[k]) <=>
                        (k # 1 => days > edges[k - 1]) /\ (k # n + 2 => days <= edges[k])
    OBVIOUS
  <2>1. k \in 1 .. Len(edges) + 1 /\ Len(edges) + 1 = n + 2
    BY <1>1
  <2>2. Buckets = Ladder(edges)
    BY DEF Buckets, edges
  <2> QED BY <1>1, <2>1, <2>2, RangeMeans
<1>6. CASE i = 1
  <2>1. InBucket(days, Buckets[1]) <=> days <= GracedTop
    BY <1>1, <1>5
  <2>2. edges[2] = BandEdges[1] /\ BandEdges[1] \in Nat
    <3>1. 1 \in 1 .. n
      BY <1>1
    <3>2. edges[1 + 1] = BandEdges[1]
      BY <1>1, <3>1
    <3> QED BY <1>3, <3>1, <3>2
  <2>3. InBucket(days, Buckets[2]) <=> days > GracedTop /\ days <= BandEdges[1]
    <3>1. 2 \in 1 .. n + 2 /\ 2 # n + 2 /\ 2 # 1 /\ 2 - 1 = 1
      BY <1>1
    <3> QED BY <1>1, <1>5, <2>2, <3>1
  <2>4. InBucket(days, AgeingBands[1]) <=> days <= BandEdges[1]
    BY <1>1, <1>4, <1>6
  <2> QED BY <1>3, <1>6, <2>1, <2>2, <2>3, <2>4
<1>7. CASE i # 1
  <2>1. /\ i + 1 \in 1 .. n + 2 /\ i + 1 # 1 /\ (i + 1) - 1 = i
        /\ (i + 1 = n + 2) <=> (i = n + 1)
        /\ i - 1 \in 1 .. n /\ (i - 1) + 1 = i
    <3>1. i \in Nat /\ n \in Nat /\ i >= 2 /\ i <= n + 1
      BY <1>1, <1>2, <1>7
    <3> QED BY <3>1
  <2>2. edges[i] = BandEdges[i - 1]
    BY <1>1, <2>1
  <2>3. i # n + 1 => edges[i + 1] = BandEdges[i]
    <3> SUFFICES ASSUME i # n + 1 PROVE edges[i + 1] = BandEdges[i]
      OBVIOUS
    <3>1. i \in 1 .. n
      BY <1>1, <1>2
    <3> QED BY <1>1, <3>1
  <2>4. InBucket(days, Buckets[i + 1]) <=>
          days > edges[i] /\ (i # n + 1 => days <= edges[i + 1])
    BY <1>5, <2>1
  <2> QED BY <1>4, <1>7, <2>2, <2>3, <2>4
<1> QED BY <1>6, <1>7

(* The band of a number of days is the range it is in.                     *)
LEMMA BandMeans ==
  ASSUME NEW days \in Int, NEW i \in DOMAIN AgeingBands
  PROVE  AgeingBand(days) = i <=> InBucket(days, AgeingBands[i])
<1>1. BandEdges \in Seq(Nat) /\ Increasing(BandEdges)
  BY DashboardsAssumption DEF Increasing
<1>2. DOMAIN AgeingBands = 1 .. Len(BandEdges) + 1
  BY DEF AgeingBands, Ladder
<1>3. PICK k \in DOMAIN AgeingBands :
        \A j \in DOMAIN AgeingBands : InBucket(days, AgeingBands[j]) <=> j = k
  <2> DEFINE edges == BandEdges
  <2>1. edges \in Seq(Nat) /\ Increasing(edges)
    BY <1>1
  <2> HIDE DEF edges
  <2>2. PICK k \in 1 .. Len(edges) + 1 :
          \A j \in 1 .. Len(edges) + 1 : InBucket(days, Ladder(edges)[j]) <=> j = k
    BY <2>1, OneRange
  <2>3. AgeingBands = Ladder(edges) /\ DOMAIN AgeingBands = 1 .. Len(edges) + 1
    BY <1>2 DEF AgeingBands, edges
  <2> QED BY <2>2, <2>3
<1>4. AgeingBand(days) = CHOOSE j \in DOMAIN AgeingBands : InBucket(days, AgeingBands[j])
  BY DEF AgeingBand, InBucket
<1>5. AgeingBand(days) \in DOMAIN AgeingBands /\ InBucket(days, AgeingBands[AgeingBand(days)])
  BY <1>3, <1>4
<1> QED BY <1>3, <1>5

--------------------------------------------------------------------------------
(* The charges.                                                            *)

(* Who is charged has days to be charged for.                              *)
Measured(metrics) ==
  /\ metrics.actual_overdue \in Int \cup {NoDate}
  /\ metrics.cof # 0 => metrics.actual_overdue # NoDate

AllMeasured ==
  /\ \A s \in Session, r \in Requests : LockedBy(s, r) => Measured(wrote[s][r])
  /\ \A r \in Requests : snapshot[r] # NoRow => Measured(snapshot[r])

(* The engine measures what it charges.                                    *)
LEMMA ComputedIsMeasured ==
  ASSUME NEW row \in Row, NEW d \in Nat
  PROVE  Measured(Compute(row, d))
<1>1. row.etd \in Date /\ row.ship \in Date /\ NoDate \notin Int
  BY EngineAssumption DEF Row
<1>2. Late(row, d) \in Int \cup {NoDate} /\ (row.etd # NoDate => Late(row, d) # NoDate)
  BY <1>1 DEF Late, Date
<1>3. Charge(row, d) # 0 => row.etd # NoDate
  BY DEF Charge, Applicable
<1>4. Compute(row, d).actual_overdue = Late(row, d) /\ Compute(row, d).cof = Charge(row, d)
  BY DEF Compute
<1> QED BY <1>2, <1>3, <1>4 DEF Measured

(* Only a pass writes snapshots.                                           *)
LEMMA WhoWrites ==
  ASSUME [Next]_vars
  PROVE  \/ UNCHANGED <<snapshot, wrote>>
         \/ \E s \in Session : \/ \E r \in Requests : Upsert(s, r)
                               \/ Commit(s) \/ Abandon(s)
<1>1. CASE Event
  BY <1>1 DEF Event, MoveEtd, Pay, RecordShipment, Close, SeedLost, Rewrite, pass,
       FlagByHand, Resolve, ConnectionLost, Recalculate, Start
<1>2. CASE Tick \/ Refresh \/ \E s \in Workers, r \in Requests : Seed(s, r)
  BY <1>2 DEF Tick, Refresh, Seed, Start, pass
<1>3. ASSUME NEW s \in Session, Turn(s)
      PROVE  (\E r \in Requests : Upsert(s, r)) \/ Commit(s) \/ Abandon(s)
  BY <1>3 DEF Turn, CommitFails, DeadlockVictim
<1>4. CASE UNCHANGED vars
  BY <1>4 DEF vars
<1> QED BY <1>1, <1>2, <1>3, <1>4 DEF Next

(* Whatever is stored or about to be has been measured if it is charged.   *)
THEOREM ChargedIsMeasured == Spec => []AllMeasured
<1>1. Init => AllMeasured
  BY DEF Init, NoRows, AllMeasured, LockedBy
<1>2. IndInv /\ AllMeasured /\ [Next]_vars => AllMeasured'
  <2> SUFFICES ASSUME IndInv, AllMeasured, [Next]_vars PROVE AllMeasured'
    OBVIOUS
  <2>1. CASE UNCHANGED <<snapshot, wrote>>
    BY <2>1 DEF AllMeasured, LockedBy
  <2>2. ASSUME NEW s \in Session, NEW r \in Requests, Upsert(s, r) PROVE AllMeasured'
    <3> DEFINE metrics == Compute(todo[s][r], today)
    <3>1. todo[s][r] \in Row /\ today \in Nat
      BY <2>2 DEF IndInv, Upsert, Remaining
    <3>2. Measured(metrics)
      BY <3>1, ComputedIsMeasured
    <3>3. wrote' = [wrote EXCEPT ![s][r] = metrics] /\ snapshot' = snapshot
      BY <2>2 DEF Upsert
    <3> HIDE DEF metrics
    <3>4. \A t \in Session, q \in Requests :
            wrote'[t][q] = IF t = s /\ q = r THEN metrics ELSE wrote[t][q]
      BY <3>3 DEF IndInv
    <3> QED BY <3>2, <3>3, <3>4 DEF AllMeasured, LockedBy
  <2>3. ASSUME NEW s \in Session, Commit(s) \/ Abandon(s) PROVE AllMeasured'
    <3>1. wrote' = [wrote EXCEPT ![s] = NoRows]
      BY <2>3 DEF Commit, Abandon, Clear
    <3>2. \A t \in Session, q \in Requests : LockedBy(t, q)' =>
            LockedBy(t, q) /\ wrote'[t][q] = wrote[t][q]
      BY <3>1 DEF IndInv, LockedBy, NoRows
    <3>3. \A q \in Requests : \/ snapshot'[q] = snapshot[q]
                              \/ LockedBy(s, q) /\ snapshot'[q] = wrote[s][q]
      BY <2>3 DEF Commit, Merge, Abandon
    <3> QED BY <3>2, <3>3 DEF AllMeasured
  <2> QED BY <2>1, <2>2, <2>3, WhoWrites
<1> QED BY <1>1, <1>2, Invariance, PTL DEF Spec

(* The ageing grid and the delay buckets reconcile, for every ladder of    *)
(* edges, and every charge on a screen is in exactly one bucket            *)
(* (_ageing_band against DELAY_BUCKETS, get_delay_buckets).     *)
THEOREM AlwaysReconciled == Spec => []ScreensReconcile
<1>1. ASSUME IndInv, AllMeasured PROVE ScreensReconcile
  <2>1. ASSUME NEW i \in DOMAIN AgeingBands
        PROVE  AgeingGrid[i] = IF i = 1 THEN BucketRows(Buckets[1]) \cup BucketRows(Buckets[2])
                               ELSE BucketRows(Buckets[i + 1])
    <3>1. AgeingGrid[i] = AgeingRows(i)
      BY DEF AgeingGrid
    <3> DEFINE waits(r) == Paid(r) /\ Unshipped(r) /\ EtdPassed(r)
    <3>2. ASSUME NEW r \in Live \cap Joined
          PROVE  waits(r) => today - request[r].etd \in Int
      <4>1. request[r].etd \in Date /\ today \in Nat
        BY <1>1 DEF IndInv, Live, Row
      <4> QED BY <4>1 DEF EtdPassed, Date
    <3>3. ASSUME NEW r \in Live \cap Joined, NEW b
          PROVE  r \in BucketRows(b) <=> waits(r) /\ InBucket(today - request[r].etd, b)
      BY <3>2, EngineAssumption DEF BucketRows, DelayDays
    <3>4. ASSUME NEW r \in Live \cap Joined
          PROVE  r \in AgeingRows(i) <=>
                   waits(r) /\ InBucket(today - request[r].etd, AgeingBands[i])
      BY <3>2, BandMeans DEF AgeingRows
    <3>5. AgeingRows(i) \subseteq Live \cap Joined /\ \A b : BucketRows(b) \subseteq Live \cap Joined
      BY DEF AgeingRows, BucketRows
    <3> HIDE DEF waits
    <3>6. CASE i = 1
      <4>1. ASSUME NEW r \in Live \cap Joined
            PROVE  r \in AgeingRows(i) <=> r \in BucketRows(Buckets[1]) \cup BucketRows(Buckets[2])
        <5>1. waits(r) => (InBucket(today - request[r].etd, AgeingBands[i]) <=>
                \/ InBucket(today - request[r].etd, Buckets[1])
                \/ InBucket(today - request[r].etd, Buckets[2]))
          BY <3>2, <3>6, BandsAreBuckets
        <5> QED BY <3>3, <3>4, <5>1
      <4> QED BY <3>1, <3>5, <3>6, <4>1
    <3>7. CASE i # 1
      <4>1. ASSUME NEW r \in Live \cap Joined
            PROVE  r \in AgeingRows(i) <=> r \in BucketRows(Buckets[i + 1])
        <5>1. waits(r) => (InBucket(today - request[r].etd, AgeingBands[i]) <=>
                InBucket(today - request[r].etd, Buckets[i + 1]))
          BY <3>2, <3>7, BandsAreBuckets
        <5> QED BY <3>3, <3>4, <5>1
      <4> QED BY <3>1, <3>5, <3>7, <4>1
    <3> QED BY <3>6, <3>7
  <2>2. ASSUME NEW r \in ChargedRows
        PROVE  Cardinality({i \in DOMAIN Buckets : r \in NotionalRows(Buckets[i])}) = 1
    <3> DEFINE days == snapshot[r].actual_overdue
               edges == <<GracedTop>> \o BandEdges
    <3>1. r \in Live \cap Joined /\ days \in Int /\ days # NoDate
      <4>1. r \in Live \cap Joined /\ r \in Requests /\ snapshot[r] # NoRow /\ snapshot[r].cof # 0
        BY DEF ChargedRows, Joined
      <4> QED BY <1>1, <4>1 DEF AllMeasured, Measured
    <3>2. Buckets = Ladder(edges) /\ DOMAIN Buckets = 1 .. Len(edges) + 1
      BY DEF Buckets, Ladder
    <3>3. edges \in Seq(Nat) /\ Increasing(edges)
      BY BucketEdges
    <3> HIDE DEF edges
    <3>4. PICK k \in DOMAIN Buckets : \A i \in DOMAIN Buckets : InBucket(days, Buckets[i]) <=> i = k
      <4> HIDE DEF days
      <4>1. PICK k \in 1 .. Len(edges) + 1 :
              \A j \in 1 .. Len(edges) + 1 : InBucket(days, Ladder(edges)[j]) <=> j = k
        BY <3>1, <3>3, OneRange
      <4> QED BY <3>2, <4>1
    <3>5. \A i \in DOMAIN Buckets : r \in NotionalRows(Buckets[i]) <=> InBucket(days, Buckets[i])
      BY <3>1 DEF NotionalRows
    <3>6. {i \in DOMAIN Buckets : r \in NotionalRows(Buckets[i])} = {k}
      BY <3>4, <3>5
    <3> QED BY <3>6, FS_Singleton
  <2> QED BY <2>1, <2>2 DEF ScreensReconcile
<1> QED BY <1>1, Invariance, ChargedIsMeasured, PTL

--------------------------------------------------------------------------------
(* All screens together.                                                   *)

(* A file is in no column of the pipeline but one.                         *)
LEMMA OneColumn ==
  ASSUME NEW r \in Live, request[r] \in Row, today \in Nat, Paid(r), Unshipped(r),
         snapshot[r] # NoRow, snapshot[r] = Compute(request[r], today)
  PROVE  Cardinality({c \in DOMAIN Kpis : r \in Kpis[c]}) = 1
<1>1. r \notin Shipped
  BY DEF Shipped
<1>2. /\ r \in Delayed \/ r \in Graced \/ r \in YetToShip
      /\ ~(r \in Delayed /\ r \in Graced)
      /\ ~(r \in YetToShip /\ r \in Delayed \cup Graced)
  BY CurrentScreensAgree
<1>3. /\ DOMAIN Kpis = {"total_overdue", "etd_grace_pending", "total_shipped", "yet_to_ship"}
      /\ Kpis["total_overdue"] = Delayed /\ Kpis["etd_grace_pending"] = Graced
      /\ Kpis["total_shipped"] = Shipped /\ Kpis["yet_to_ship"] = YetToShip
  BY DEF Kpis
<1> HIDE DEF Kpis
<1>4. \E c \in DOMAIN Kpis : {k \in DOMAIN Kpis : r \in Kpis[k]} = {c}
  <2>1. CASE r \in Delayed
    <3>1. {k \in DOMAIN Kpis : r \in Kpis[k]} = {"total_overdue"}
      BY <1>1, <1>2, <1>3, <2>1
    <3> QED BY <1>3, <3>1
  <2>2. CASE r \in Graced
    <3>1. {k \in DOMAIN Kpis : r \in Kpis[k]} = {"etd_grace_pending"}
      BY <1>1, <1>2, <1>3, <2>2
    <3> QED BY <1>3, <3>1
  <2>3. CASE r \in YetToShip
    <3>1. {k \in DOMAIN Kpis : r \in Kpis[k]} = {"yet_to_ship"}
      BY <1>1, <1>2, <1>3, <2>3
    <3> QED BY <1>3, <3>1
  <2> QED BY <1>2, <2>1, <2>2, <2>3
<1> QED BY <1>4, FS_Singleton

(* What a current snapshot of a late file says.                            *)
LEMMA LateSays ==
  ASSUME NEW r \in Delayed, request[r] \in Row, today \in Nat, Paid(r), Unshipped(r),
         snapshot[r] = Compute(request[r], today)
  PROVE  /\ request[r].etd \in Nat /\ today > request[r].etd + GraceDays
         /\ snapshot[r].overdue = today - (request[r].etd + GraceDays)
         /\ snapshot[r].cof_applicable
         /\ snapshot[r].default_status \in {"delayed", "critical"}
<1> DEFINE etd == request[r].etd
           late == Overdue(request[r], today)
<1>1. /\ snapshot[r].overdue = late /\ snapshot[r].default_status = DefaultStatus(late)
      /\ snapshot[r].cof_applicable = Applicable(request[r])
  BY DEF Compute
<1>2. /\ late # NoDate /\ late > 0 /\ NoDate \notin Int /\ GraceDays \in Nat
      /\ etd \in Nat \cup {NoDate}
  BY <1>1, EngineAssumption DEF Delayed, StoredOverdue, Row, Date
<1>3. etd \in Nat /\ today > etd + GraceDays /\ late = today - (etd + GraceDays)
  BY <1>2 DEF Overdue
<1>4. Applicable(request[r])
  BY <1>2, <1>3 DEF Applicable, Paid
<1>5. DefaultStatus(late) \in {"delayed", "critical"}
  <2>1. late # NoDate /\ late # 0
    BY <1>2
  <2> HIDE DEF late
  <2> QED BY <2>1 DEF DefaultStatus
<1> QED BY <1>1, <1>3, <1>4, <1>5

(* Every bucket after the first begins where the first one ends, or later. *)
LEMMA BucketsBegin ==
  \A i \in 2 .. Len(Buckets) : Buckets[i] \in [low : Nat, high : Date] /\ Buckets[i].low >= GracedTop
<1> DEFINE edges == <<GracedTop>> \o BandEdges
<1>1. edges \in Seq(Nat) /\ Increasing(edges) /\ edges[1] = GracedTop /\ Len(edges) \in Nat \ {0}
  BY BucketEdges
<1>2. Buckets = Ladder(edges)
  BY DEF Buckets
<1> HIDE DEF edges
<1>3. /\ Len(Buckets) = Len(edges) + 1
      /\ \A i \in 1 .. Len(edges) + 1 :
           Buckets[i] = [low |-> IF i = 1 THEN NoDate ELSE edges[i - 1],
                         high |-> IF i = Len(edges) + 1 THEN NoDate ELSE edges[i]]
  BY <1>1, <1>2 DEF Ladder
<1> SUFFICES ASSUME NEW i \in 2 .. Len(edges) + 1
             PROVE  Buckets[i] \in [low : Nat, high : Date] /\ Buckets[i].low >= GracedTop
  BY <1>3
<1>4. i # 1 /\ i \in 1 .. Len(edges) + 1 /\ i - 1 \in 1 .. Len(edges)
  BY <1>1
<1>5. /\ \A k \in 1 .. Len(edges) : edges[k] \in Nat
      /\ \A j, k \in 1 .. Len(edges) : j < k => edges[j] < edges[k]
  BY <1>1 DEF Increasing
<1>6. edges[i - 1] \in Nat /\ edges[i - 1] >= GracedTop
  <2>1. CASE i - 1 = 1
    BY <1>1, <1>4, <1>5, <2>1
  <2>2. CASE i - 1 # 1
    <3>1. 1 \in 1 .. Len(edges) /\ 1 < i - 1
      BY <1>4, <2>2
    <3> QED BY <1>1, <1>4, <1>5, <3>1
  <2> QED BY <2>1, <2>2
<1>7. Buckets[i].low = edges[i - 1]
  BY <1>3, <1>4
<1>8. i # Len(edges) + 1 => i \in 1 .. Len(edges)
  BY <1>1, <1>4
<1>9. (IF i = Len(edges) + 1 THEN NoDate ELSE edges[i]) \in Date
  BY <1>5, <1>8 DEF Date
<1> QED BY <1>3, <1>4, <1>6, <1>7, <1>9

(* A paid file on its way with a current snapshot, and flagged if late, is *)
(* told by all screens in the same way.                                    *)
LEMMA CurrentFileAgrees ==
  ASSUME GraceDays <= GracedTop,
         NEW r \in Active, request[r] \in Row, today \in Nat, Unshipped(r),
         snapshot[r] # NoRow, snapshot[r] = Compute(request[r], today),
         r \in Delayed => SupplierOf[r] \in active
  PROVE  Agree(r)
<1>1. r \in Live /\ r \in Requests /\ Paid(r) /\ r \in Joined
  BY DEF Active, Live, Joined
<1>2. Cardinality({c \in DOMAIN Kpis : r \in Kpis[c]}) = 1
  BY <1>1, OneColumn
<1>3. r \in Delayed <=> r \in DelayReport /\ r \in TrendRows("overdue")
  BY <1>1 DEF Delayed, DelayReport, TrendRows, StoredOverdue
<1>4. ASSUME r \in Delayed
      PROVE  /\ DaysDelayed(r) = DaysFromEtd(r) /\ r \in CostOfFundReport
             /\ RequestReport[r].overdue + GraceDays = DaysDelayed(r)
             /\ [supplier |-> SupplierOf[r], formal |-> TRUE] \in NpaSuppliers
             /\ \E row \in SnapshotList : row.default_status \in {"delayed", "critical"}
  <2>1. /\ request[r].etd \in Nat /\ today > request[r].etd + GraceDays
        /\ snapshot[r].overdue = today - (request[r].etd + GraceDays)
        /\ snapshot[r].cof_applicable
        /\ snapshot[r].default_status \in {"delayed", "critical"}
    BY <1>1, <1>4, LateSays
  <2>2. DaysDelayed(r) = DaysFromEtd(r)
    BY <1>1, <1>4, CurrentScreensAgree
  <2>3. RequestReport[r].overdue = snapshot[r].overdue
    BY <1>1 DEF RequestReport
  <2>4. GraceDays \in Nat /\ NoDate \notin Int
    BY EngineAssumption
  <2>5. DaysDelayed(r) = today - request[r].etd
    BY <2>1, <2>4 DEF DaysDelayed
  <2>6. RequestReport[r].overdue + GraceDays = DaysDelayed(r)
    BY <2>1, <2>3, <2>4, <2>5
  <2>7. r \in OverdueShipments /\ (SupplierOf[r] \in active) = TRUE
    BY <1>1, <1>4 DEF OverdueShipments, Delayed
  <2>8. [supplier |-> SupplierOf[r], formal |-> TRUE] \in NpaSuppliers
    BY <2>7 DEF NpaSuppliers
  <2>9. r \in CostOfFundReport
    BY <1>1, <2>1 DEF CostOfFundReport
  <2>10. snapshot[r] \in SnapshotList
    BY <1>1 DEF SnapshotList
  <2> QED BY <2>1, <2>2, <2>6, <2>8, <2>9, <2>10
<1>5. ASSUME NEW i \in 2 .. Len(Buckets)
      PROVE  /\ r \in BucketRows(Buckets[i]) <=> r \in GroupRows(Buckets[i])
             /\ r \in CreatorKnown \cap Categorised =>
                  (r \in BucketRows(Buckets[i])
                     <=> r \in ByMerchandiser(Buckets[i]) \cap ByVertical(Buckets[i]))
  <2>1. Buckets[i] \in [low : Nat, high : Date] /\ Buckets[i].low >= GraceDays
    <3>1. Buckets[i] \in [low : Nat, high : Date] /\ Buckets[i].low >= GracedTop
      BY BucketsBegin
    <3>2. Buckets[i].low \in Nat /\ GraceDays \in Nat /\ GracedTop \in Nat
      BY <3>1, EngineAssumption, DashboardsAssumption
    <3> QED BY <3>1, <3>2
  <2>2. r \in BucketRows(Buckets[i]) <=> r \in GroupRows(Buckets[i])
    BY <1>1, <2>1, CurrentScreensAgree
  <2> QED BY <2>2 DEF ByMerchandiser, ByVertical
<1>6. r \in CustomerPending <=> r \in YetToShip
  <2>1. request[r].etd \in Nat \cup {NoDate} /\ NoDate \notin Int
    BY EngineAssumption DEF Row, Date
  <2> QED BY <1>1, <2>1 DEF CustomerPending, YetToShip, EtdPassed
<1> QED BY <1>2, <1>3, <1>4, <1>5, <1>6 DEF Agree

(* Where the snapshot of a paid file on its way is the one of the day, and *)
(* its supplier is flagged if it is late, all screens, lists and reports   *)
(* agree about it.                                                         *)
SettledFilesAgree ==
  \A r \in Active :
    Unshipped(r) /\ snapshot[r] # NoRow /\ snapshot[r] = Compute(request[r], today)
        /\ (r \in Delayed => SupplierOf[r] \in active)
      => Agree(r)

(* They always do, for every calendar and number of requests, if the first *)
(* bucket is no shorter than the grace period.                             *)
THEOREM ScreensAgreeOnceSettled == GraceDays <= GracedTop /\ Spec => []SettledFilesAgree
<1> SUFFICES ASSUME GraceDays <= GracedTop PROVE Spec => []SettledFilesAgree
  OBVIOUS
<1>1. IndInv => SettledFilesAgree
  <2> SUFFICES ASSUME IndInv, NEW r \in Active, Unshipped(r),
                      snapshot[r] # NoRow, snapshot[r] = Compute(request[r], today),
                      r \in Delayed => SupplierOf[r] \in active
               PROVE  Agree(r)
    BY DEF SettledFilesAgree
  <2>1. request[r] \in Row /\ today \in Nat
    BY DEF IndInv, Active, Live
  <2> QED BY <2>1, CurrentFileAgrees
<1> QED BY <1>1, Invariance, PTL

================================================================================
