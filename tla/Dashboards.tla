------------------------------ MODULE Dashboards ------------------------------
(***************************************************************************)
(* What the analytics screens and the delay reports count: each is a       *)
(* population of requests, drawn from the requests as they are, from the   *)
(* stored snapshots and from the day of the query.  Amounts are sums over  *)
(* the population, so two screens agree for every amount when their        *)
(* populations do.  The filters by date, person, vertical and customer     *)
(* narrow every population alike and are left out.                         *)
(***************************************************************************)
EXTENDS Snapshots, Sequences

CONSTANTS GracedTop,   \* 10 in the code: upper edge of the "Graced ETD" bucket
          BandEdges,   \* <<15, 30, ..., 150>>
          CreatorKnown, Categorised   \* requests with created_by, vertical_id

ASSUME DashboardsAssumption ==
  /\ GracedTop \in Nat
  /\ BandEdges \in Seq(Nat) /\ BandEdges # <<>>
  /\ GracedTop < BandEdges[1]
  /\ \A i, j \in DOMAIN BandEdges : i < j => BandEdges[i] < BandEdges[j]
  /\ CreatorKnown \subseteq Requests /\ Categorised \subseteq Requests

(* Cancelled and rejected files are on no dashboard; the summary, the NPA  *)
(* panel and the reports leave out deleted ones only.                      *)
Live == {r \in Requests : request[r].status # "frozen"}
Joined == {r \in Requests : snapshot[r] # NoRow}

Paid(r) == request[r].paid # NoDate
Unshipped(r) == request[r].ship = NoDate
EtdPassed(r) == request[r].etd # NoDate /\ request[r].etd < today

StoredOverdue(r) == r \in Joined /\ snapshot[r].overdue # NoDate /\ snapshot[r].overdue > 0
Delayed == {r \in Live : StoredOverdue(r)}

(* get_shipment_kpis: the snapshot is outer-joined.                        *)
YetToShip == {r \in Live : Paid(r) /\ Unshipped(r) /\ ~EtdPassed(r)}

Graced ==
  {r \in Live \cap Joined :
     /\ Paid(r) /\ Unshipped(r) /\ EtdPassed(r)
     /\ snapshot[r].grace_etd # NoDate /\ snapshot[r].grace_etd >= today}

Shipped == {r \in Live : ~Unshipped(r)}
Active == {r \in Live : Paid(r)}

Kpis == [total_overdue |-> Delayed, etd_grace_pending |-> Graced,
         total_shipped |-> Shipped, yet_to_ship |-> YetToShip]

(* The ladder of ranges low < days <= high between the edges; the first    *)
(* has no lower bound and the last no upper one.                           *)
Ladder(edges) ==
  [i \in 1..(Len(edges) + 1) |->
     [low |-> IF i = 1 THEN NoDate ELSE edges[i - 1],
      high |-> IF i = Len(edges) + 1 THEN NoDate ELSE edges[i]]]

Buckets == Ladder(<<GracedTop>> \o BandEdges)
AgeingBands == Ladder(BandEdges)

InBucket(days, b) ==
  /\ b.low # NoDate => days > b.low
  /\ b.high # NoDate => days <= b.high

(* Days from the original date, for paid and unshipped files past it.      *)
DelayDays(r) ==
  IF Paid(r) /\ Unshipped(r) /\ EtdPassed(r) THEN today - request[r].etd ELSE NoDate

BucketRows(b) ==
  {r \in Live \cap Joined : DelayDays(r) # NoDate /\ InBucket(DelayDays(r), b)}

(* The charge of a bucket is keyed by the stored days instead, of shipped  *)
(* files as well.                                                          *)
NotionalRows(b) ==
  {r \in Live \cap Joined :
     snapshot[r].actual_overdue # NoDate /\ InBucket(snapshot[r].actual_overdue, b)}

(* _ageing_band: the boundary rule again, written a second time; closed    *)
(* below and open above, a day on an edge would move to the next band.     *)
AgeingBandHalf(days) ==
  CHOOSE i \in DOMAIN AgeingBands :
    /\ AgeingBands[i].low # NoDate => days >= AgeingBands[i].low
    /\ AgeingBands[i].high # NoDate => days < AgeingBands[i].high

AgeingBand(days) ==
  CHOOSE i \in DOMAIN AgeingBands :
    /\ AgeingBands[i].low # NoDate => days > AgeingBands[i].low
    /\ AgeingBands[i].high # NoDate => days <= AgeingBands[i].high

AgeingRows(i) ==
  {r \in Live \cap Joined :
     /\ Paid(r) /\ Unshipped(r) /\ EtdPassed(r)
     /\ AgeingBand(today - request[r].etd) = i}

AgeingGrid == [i \in DOMAIN AgeingBands |-> AgeingRows(i)]

(* get_overdue_by_currency: the charge of every live file.                 *)
ChargedRows == {r \in Live \cap Joined : snapshot[r].cof # 0}

(* _days_from_etd_expr: the stored days and the stored graced date, but    *)
(* the file's date as it is now.  The stored days alone run from the       *)
(* graced date.                                                            *)
DaysFromGrace(r) == snapshot[r].overdue
DaysFromEtd(r) == snapshot[r].overdue + (snapshot[r].grace_etd - request[r].etd)

(* The table of customers, drilled into from a bucket (etd_min, etd_max);  *)
(* those of merchandisers and verticals lose the files that have none.     *)
(* Each adds the charge of every live file.                                *)
GroupRows(b) ==
  {r \in Delayed : request[r].etd # NoDate /\ InBucket(DaysFromEtd(r), b)}

ByMerchandiser(b) == GroupRows(b) \cap CreatorKnown
ByVertical(b) == GroupRows(b) \cap Categorised

(* "ETD Pending" of a customer.                                            *)
CustomerPending ==
  {r \in Live : Paid(r) /\ Unshipped(r)
                /\ (request[r].etd = NoDate \/ request[r].etd >= today)}

(* get_shipments_list, by the clock of the server.                         *)
DaysDelayed(r) ==
  IF request[r].etd = NoDate THEN NoDate
  ELSE IF today > request[r].etd THEN today - request[r].etd ELSE 0

(* get_summary, delay_report and get_npa count the stored days of files of *)
(* every status; the panel shows the active flag beside them.              *)
OverdueShipments == {r \in Requests : StoredOverdue(r)}
DelayReport == {r \in Joined : StoredOverdue(r)}
CostOfFundReport == {r \in Joined : snapshot[r].cof_applicable}
RequestReport ==
  [r \in Joined |-> [overdue |-> snapshot[r].overdue, cof |-> snapshot[r].cof]]

(* get_monthly_trends adds up the stored days and the charge by the month  *)
(* of the request; get_request_snapshots lists the rows.                   *)
TrendRows(field) == {r \in Joined : snapshot[r][field] # NoDate /\ snapshot[r][field] > 0}
SnapshotList == {snapshot[r] : r \in Joined}

NpaSuppliers ==
  {[supplier |-> SupplierOf[r], formal |-> SupplierOf[r] \in active] : r \in OverdueShipments}

--------------------------------------------------------------------------------
(* The ageing grid and the delay buckets "reconcile to the cent": the      *)
(* first band holds the first two buckets and every other band the bucket  *)
(* after it, and no charge that the currency totals show is missing from   *)
(* the buckets or in two of them.                                          *)
ScreensReconcile ==
  /\ \A i \in DOMAIN AgeingBands :
       AgeingGrid[i] = IF i = 1 THEN BucketRows(Buckets[1]) \cup BucketRows(Buckets[2])
                       ELSE BucketRows(Buckets[i + 1])
  /\ \A r \in ChargedRows :
       Cardinality({i \in DOMAIN Buckets : r \in NotionalRows(Buckets[i])}) = 1

(* What the screens should say of a paid file whose goods are out: it is   *)
(* in one column of the pipeline, late by the same days on the list of     *)
(* shipments, in the buckets and in the tables, on the delay and charge    *)
(* reports and beside its supplier's flag exactly when it is delayed.      *)
Agree(r) ==
  /\ Cardinality({c \in DOMAIN Kpis : r \in Kpis[c]}) = 1
  /\ r \in Delayed <=> r \in DelayReport /\ r \in TrendRows("overdue")
  /\ r \in Delayed => /\ DaysDelayed(r) = DaysFromEtd(r) /\ r \in CostOfFundReport
                      /\ RequestReport[r].overdue + GraceDays = DaysDelayed(r)
                      /\ [supplier |-> SupplierOf[r], formal |-> TRUE] \in NpaSuppliers
                      /\ \E row \in SnapshotList : row.default_status \in {"delayed", "critical"}
  /\ \A i \in 2..Len(Buckets) :
       /\ r \in BucketRows(Buckets[i]) <=> r \in GroupRows(Buckets[i])
       /\ r \in CreatorKnown \cap Categorised =>
            (r \in BucketRows(Buckets[i])
               <=> r \in ByMerchandiser(Buckets[i]) \cap ByVertical(Buckets[i]))
  /\ r \in CustomerPending <=> r \in YetToShip

(* Once the days and the users stand still, the screens agree on every     *)
(* paid file that has not shipped.                                         *)
ScreensAgree ==
  <>[](\A r \in Active : Unshipped(r) => Agree(r))

================================================================================
