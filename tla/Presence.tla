-------------------------------- MODULE Presence --------------------------------
(***************************************************************************)
(* What is new to a user: the red dot of a request, the badges of the      *)
(* sidebar and the "while you were away" dialog.  All three compare time   *)
(* stamps of rows with the time the user last looked.  A row that a        *)
(* transaction writes carries the time the transaction BEGAN (now() of     *)
(* PostgreSQL) and becomes visible when it commits; the time the user      *)
(* looked is taken at the call.  Stamps are unique here: the clock moves   *)
(* with every event that takes one.                                        *)
(***************************************************************************)
EXTENDS StatusTransitions, Naturals, FiniteSets

CONSTANTS Users, RoleOf,
          Requests, Remarks,
          Sessions,         \* transactions that may be open at once
          Unseen_Max,       \* MAX_UNSEEN_IDS, 500 in the code
          Away,             \* AWAY_THRESHOLD_MINUTES
          LastTime,         \* bound: the clock stops here
          NoTime            \* None

ASSUME PresenceAssumption ==
  /\ RoleOf \in [Users -> UserRole]
  /\ Requests \cap Remarks = {} /\ IsFiniteSet(Requests)
  /\ Unseen_Max \in Nat \ {0} /\ Away \in Nat /\ LastTime \in Nat
  /\ NoTime \notin Nat

Items == Requests \cup Remarks
Dot == "dot"
Failed == {NoTime}    \* a summary that did not arrive
SidebarSections == {"accounts", "hom", "file_remarks", "merchandiser"}
Places == {Dot} \cup SidebarSections

(* _SECTION_ROLES; only the Accounts pages show the dot.                   *)
MaySee(place) ==
  CASE place = "hom" -> {"head_of_merchandiser", "super_admin"}
    [] place = "file_remarks" -> {"merchandiser", "accounts_team", "super_admin", "finance_admin"}
    [] place = "merchandiser" -> {"merchandiser", "head_of_merchandiser"}
    [] OTHER -> {"accounts_team", "super_admin"}

VARIABLES
  now,
  row,       \* deposit_requests and file_remarks: their stamps and status
  tranche,   \* updated_at of two tranches of each request
  begun,     \* when the open transaction of a session began
  viewed,    \* request_views: viewed[u][r]
  opened,    \* section_views: opened[u][section]
  seen,      \* users.last_seen_at
  tab,       \* the Accounts page of a user: "hidden", "visible"
  checking,  \* users whose page waits for the summary and has to beat after it
  hid,       \* history: when the page was hidden or left
  summary,   \* what the dialog counted at the last return
  fresh,     \* history: places and items changed since the user looked there
  late       \* history: those that a transaction begun too early has written

looks == <<viewed, opened>>
page == <<seen, tab, checking, hid, summary>>
vars == <<now, row, tranche, begun, looks, page, fresh, late>>

NoRow == [created |-> NoTime, updated |-> NoTime, status |-> "none"]
Stored(i) == row[i] # NoRow

(* unseen_since of every user, the baseline of what was never opened, is 0. *)
Init ==
  /\ now = 1
  /\ row = [i \in Items |-> NoRow]
  /\ tranche = [r \in Requests |-> [n \in {1, 2} |-> NoTime]]
  /\ begun = [s \in Sessions |-> NoTime]
  /\ viewed = [u \in Users |-> [r \in Requests |-> NoTime]]
  /\ opened = [u \in Users |-> [s \in SidebarSections |-> NoTime]]
  /\ seen = [u \in Users |-> NoTime]
  /\ tab = [u \in Users |-> "hidden"]
  /\ checking = {}
  /\ hid = [u \in Users |-> 0]
  /\ summary = [u \in Users |-> {}]
  /\ fresh = [u \in Users |-> {}]
  /\ late = [u \in Users |-> {}]

Clocked == now < LastTime /\ now' = now + 1

--------------------------------------------------------------------------------
(* The queries.                                                            *)

Or(a, b) == IF a = NoTime THEN b ELSE a
Latest(times) ==
  LET known == times \ {NoTime}
  IN IF known = {} THEN NoTime ELSE CHOOSE t \in known : \A o \in known : o <= t

(* The newest of the request row and its tranches; the mutant trusts the   *)
(* request row alone.                                                      *)
RowActivity(r) == row[r].updated
Activity(r) == Latest({row[r].updated} \cup {tranche[r][n] : n \in {1, 2}})

Live(r) == Stored(r) /\ row[r].status # "deleted"

(* What a place lists, and the stamp that is compared.  Of a remark        *)
(* "updated" is resolved_at.                                               *)
Listed(place) ==
  CASE place = "accounts" -> {r \in Requests : row[r].status = "pending_payment"}
    [] place = "hom" -> {r \in Requests : row[r].status = "pending_hom_approval"}
    [] place = "file_remarks" -> {m \in Remarks : Stored(m)}
    [] OTHER -> {r \in Requests : Live(r)}

Stamp(place, i) ==
  IF place = Dot THEN Activity(i) ELSE Latest({row[i].created, row[i].updated})

(* Never opened: the baseline, 0.  The mutant forgets the views.           *)
Baseline(u, place, i) == 0
Cutoff(u, place, i) == Or(IF place = Dot THEN viewed[u][i] ELSE opened[u][place], 0)

Newer(u, place) == {i \in Listed(place) : Stamp(place, i) > Cutoff(u, place, i)}

(* unseen_request_ids: the newest of them; sidebar_counts has no cap.      *)
Unseen(u) ==
  {r \in Newer(u, Dot) :
     Cardinality({q \in Newer(u, Dot) : Stamp(Dot, q) > Stamp(Dot, r)}) < Unseen_Max}

Flagged(u, place) == IF place = Dot THEN Unseen(u) ELSE Newer(u, place)

(* away_summary counts by the time of creation, not of arrival.            *)
Arrivals(since) ==
  IF since = NoTime \/ now - since < Away THEN {}
  ELSE {r \in Listed("accounts") : row[r].created > since}

--------------------------------------------------------------------------------
(* The writers.  A commit makes a change visible: what it touches is what  *)
(* gets the transaction's stamp, and it is late for a user who has looked  *)
(* in between or where the stamp it replaces is newer.                     *)

Begin(s) ==
  /\ begun[s] = NoTime
  /\ begun' = [begun EXCEPT ![s] = now]
  /\ Clocked
  /\ UNCHANGED <<row, tranche, looks, page, fresh, late>>

PlacesOf(i, status) ==
  IF i \in Remarks THEN {"file_remarks"}
  ELSE {Dot, "merchandiser"} \cup (IF status = "pending_payment" THEN {"accounts"} ELSE {})
                             \cup (IF status = "pending_hom_approval" THEN {"hom"} ELSE {})

Superseded(u, place, i, at) ==
  \/ at < Cutoff(u, place, i)
  \/ Stored(i) /\ at < Stamp(place, i)

Changed(i, places, at) ==
  /\ fresh' = [u \in Users |-> fresh[u] \cup ({i} \X places)]
  /\ late' = [u \in Users |->
       (late[u] \ ({i} \X places)) \cup ({i} \X {p \in places : Superseded(u, p, i, at)})]

Ends(s) == begun' = [begun EXCEPT ![s] = NoTime]

Commit(s) ==
  /\ begun[s] # NoTime /\ Ends(s)
  /\ UNCHANGED <<now, looks, page>>

RequestRow(created, at, status) == [created |-> created, updated |-> at, status |-> status]

(* A submission, with its first tranche.                                   *)
Create(s, r) ==
  LET at == begun[s] IN
  /\ Commit(s)
  /\ ~Stored(r)
  /\ \E status \in {"pending_payment", "pending_hom_approval"} :
       /\ row' = [row EXCEPT ![r] = RequestRow(at, at, status)]
       /\ Changed(r, PlacesOf(r, status), at)
  /\ tranche' = [tranche EXCEPT ![r][1] = at]

(* A call that writes the request row: an edit, a change of the status.    *)
(* "on_hold" stands for the statuses no section lists by itself.           *)
ChangeRequest(s, r) ==
  LET at == begun[s] IN
  /\ Commit(s)
  /\ Live(r)
  /\ \E status \in {row[r].status, "pending_payment", "on_hold"} :
       /\ row' = [row EXCEPT ![r].updated = at, ![r].status = status]
       /\ Changed(r, PlacesOf(r, status), at)
  /\ UNCHANGED tranche

(* A call that writes a tranche, and the request row if the total changes  *)
(* (add, amount, reject, cancel) or not (release, details, TT copy).       *)
ChangeTranche(s, r, n) ==
  LET at == begun[s] IN
  /\ Commit(s)
  /\ Live(r)
  /\ tranche' = [tranche EXCEPT ![r][n] = at]
  /\ \/ /\ row' = [row EXCEPT ![r].updated = at]
        /\ Changed(r, PlacesOf(r, row[r].status), at)
     \/ /\ tranche[r][n] # NoTime
        /\ Changed(r, {Dot}, at)
        /\ UNCHANGED row

(* The total changes with the tranche, unless it was cancelled before.     *)
DeleteTranche(s, r) ==
  LET at == begun[s] IN
  /\ Commit(s)
  /\ Live(r) /\ tranche[r][2] # NoTime
  /\ tranche' = [tranche EXCEPT ![r][2] = NoTime]
  /\ \/ /\ row' = [row EXCEPT ![r].updated = at]
        /\ Changed(r, PlacesOf(r, row[r].status), at)
     \/ /\ fresh' = [u \in Users |-> fresh[u] \cup {<<r, Dot>>}]
        /\ late' = [u \in Users |-> late[u] \cup {<<r, Dot>>}]
        /\ UNCHANGED row

SoftDelete(s, r) ==
  /\ Commit(s)
  /\ Live(r)
  /\ row' = [row EXCEPT ![r].updated = begun[s], ![r].status = "deleted"]
  /\ fresh' = [u \in Users |-> fresh[u] \ ({r} \X Places)]
  /\ UNCHANGED <<tranche, late>>

RaiseRemark(s, m) ==
  LET at == begun[s] IN
  /\ Commit(s)
  /\ ~Stored(m)
  /\ row' = [row EXCEPT ![m] = [created |-> at, updated |-> NoTime, status |-> "open"]]
  /\ Changed(m, PlacesOf(m, "open"), at)
  /\ UNCHANGED tranche

(* resolved_at is the time of the decision itself, not of the transaction. *)
DecideRemark(s, m) ==
  /\ begun[s] # NoTime /\ Ends(s)
  /\ Clocked
  /\ row[m].status = "open"
  /\ row' = [row EXCEPT ![m].updated = now, ![m].status = "decided"]
  /\ Changed(m, PlacesOf(m, "decided"), now)
  /\ UNCHANGED <<tranche, looks, page>>

Rollback(s) == Commit(s) /\ UNCHANGED <<row, tranche, fresh, late>>

--------------------------------------------------------------------------------
(* The users.  The page of a request is loaded and marked in one step.     *)

LookedAt(u, pairs) ==
  /\ fresh' = [fresh EXCEPT ![u] = @ \ pairs]
  /\ late' = [late EXCEPT ![u] = @ \ pairs]

MarkViewed(u, r) ==
  /\ Clocked /\ Live(r)
  /\ viewed' = [viewed EXCEPT ![u][r] = now]
  /\ LookedAt(u, {<<r, Dot>>})
  /\ UNCHANGED <<row, tranche, begun, opened, page>>

MarkSectionViewed(u, section) ==
  /\ Clocked /\ RoleOf[u] \in MaySee(section)
  /\ opened' = [opened EXCEPT ![u][section] = now]
  /\ LookedAt(u, Items \X {section})
  /\ UNCHANGED <<row, tranche, begun, viewed, page>>

UsesPage(u) == RoleOf[u] \in MaySee("accounts")

Touch(u) == seen' = [seen EXCEPT ![u] = now]

(* The timer of the visible page.                                          *)
Heartbeat(u) ==
  /\ Clocked /\ tab[u] = "visible" /\ Touch(u)
  /\ UNCHANGED <<row, tranche, begun, looks, tab, checking, hid, summary, fresh, late>>

Hide(u) ==
  /\ Clocked /\ tab[u] = "visible"
  /\ tab' = [tab EXCEPT ![u] = "hidden"]
  /\ hid' = [hid EXCEPT ![u] = now]
  /\ UNCHANGED <<row, tranche, begun, looks, seen, checking, summary, fresh, late>>

(* checkOnReturn: the summary first, unless one is under way, and the beat *)
(* when it is there or has failed.  The mutant beats first.                *)
Answer(u, since) ==
  \E found \in {Arrivals(since), Failed} : summary' = [summary EXCEPT ![u] = found]
BeatFirst(u) == Touch(u) /\ Answer(u, now)
SummaryFirst(u) == Answer(u, seen[u]) /\ UNCHANGED seen

Return(u) ==
  /\ Clocked /\ UsesPage(u) /\ tab[u] = "hidden"
  /\ tab' = [tab EXCEPT ![u] = "visible"]
  /\ IF u \in checking THEN UNCHANGED <<seen, summary, checking>>
     ELSE SummaryFirst(u) /\ checking' = checking \cup {u}
  /\ UNCHANGED <<row, tranche, begun, looks, hid, fresh, late>>

BeatAfter(u) ==
  /\ Clocked /\ u \in checking
  /\ checking' = checking \ {u}
  /\ Touch(u)
  /\ UNCHANGED <<row, tranche, begun, looks, tab, hid, summary, fresh, late>>

Next ==
  \/ \E s \in Sessions :
       \/ Begin(s) \/ Rollback(s)
       \/ \E r \in Requests :
            \/ Create(s, r) \/ ChangeRequest(s, r) \/ SoftDelete(s, r)
            \/ DeleteTranche(s, r)
            \/ \E n \in {1, 2} : ChangeTranche(s, r, n)
       \/ \E m \in Remarks : RaiseRemark(s, m) \/ DecideRemark(s, m)
  \/ \E u \in Users :
       \/ \E r \in Requests : MarkViewed(u, r)
       \/ \E section \in SidebarSections : MarkSectionViewed(u, section)
       \/ Heartbeat(u) \/ Hide(u) \/ Return(u) \/ BeatAfter(u)

Spec == Init /\ [][Next]_vars

--------------------------------------------------------------------------------
(* What a change owes to those who have not seen it: a dot on the request, *)
(* and a place in the badge of every section that lists it.  Two things    *)
(* excuse it: another transaction hid it (late), or as many newer requests *)
(* as the answer holds are flagged instead.                                *)
ChangesAreFlagged ==
  \A u \in Users : \A pair \in fresh[u] \ late[u] :
    LET item == pair[1]
        place == pair[2]
    IN RoleOf[u] \in MaySee(place) /\ item \in Listed(place)
       => \/ item \in Flagged(u, place)
          \/ /\ place = Dot
             /\ Unseen_Max = Cardinality({q \in Unseen(u) : Stamp(Dot, q) > Stamp(Dot, item)})

(* Who has looked is left in peace: nothing is flagged that has not        *)
(* changed since, whatever transactions were open when the user looked.    *)
QuietWhenSeen ==
  \A u \in Users : \A place \in Places :
    \A item \in Flagged(u, place) : <<item, place>> \in fresh[u]

(* The dialog misses nothing: a summary that is read when the user comes   *)
(* back from a real absence counts every request raised in it that still   *)
(* waits for Accounts, unless the beat of the visit before came so late    *)
(* that it fell into the absence.                                          *)
AwayReportsArrivals ==
  [][ \A u \in Users :
        LET reads == tab[u] = "hidden" /\ tab'[u] = "visible" /\ u \notin checking
            away == seen[u] # NoTime /\ seen[u] <= hid[u] /\ now - hid[u] >= Away
        IN reads /\ away /\ summary'[u] # Failed
           => {r \in Listed("accounts") : row[r].created > hid[u]} \subseteq summary'[u] ]_vars

================================================================================
