---------------------------- MODULE PresenceProofs ----------------------------
(***************************************************************************)
(* Theorems about Presence, for any users, requests, remarks and open      *)
(* transactions.  Every stamp is older than the clock, and a transaction's *)
(* stamp is its own: that is what makes "newer than the last look" mean    *)
(* "changed since".                                                        *)
(***************************************************************************)
EXTENDS Presence, FiniteSetTheorems, TLAPS

\* The stamps a clock that shows t has given out.
Before(t) == 1 .. t - 1
Time(t) == Before(t) \cup {NoTime}

RequestRows(t) ==
  {NoRow} \cup [created : Before(t), updated : Before(t),
                status : {"pending_payment", "pending_hom_approval", "on_hold", "deleted"}]
RemarkRows(t) ==
  {NoRow} \cup [created : Before(t), updated : Time(t), status : {"open", "decided"}]

RowsOK ==
  /\ row \in [Items -> RequestRows(now) \cup RemarkRows(now)]
  /\ \A r \in Requests : row[r] \in RequestRows(now)
  /\ \A m \in Remarks : row[m] \in RemarkRows(now)
  /\ tranche \in [Requests -> [{1, 2} -> Time(now)]]

LooksOK ==
  /\ viewed \in [Users -> [Requests -> Time(now)]]
  /\ opened \in [Users -> [SidebarSections -> Time(now)]]

PageOK ==
  /\ seen \in [Users -> Time(now)] /\ hid \in [Users -> 0 .. now - 1]
  /\ tab \in [Users -> {"hidden", "visible"}] /\ checking \subseteq Users
  /\ summary \in [Users -> SUBSET (Requests \cup Failed)]

HistoryOK ==
  /\ fresh \in [Users -> SUBSET (Items \X Places)]
  /\ late \in [Users -> SUBSET (Items \X Places)]

TypeOK ==
  /\ now \in Nat \ {0} /\ begun \in [Sessions -> Time(now)]
  /\ RowsOK /\ LooksOK /\ PageOK /\ HistoryOK

\* The stamps on a request and its tranches.
Stamps(r) == {row[r].updated, tranche[r][1], tranche[r][2]} \ {NoTime}

\* A stamp stands on one request only, and that of an open transaction nowhere yet;
\* nobody looked at the very moment a transaction began.
StampsAreOwned ==
  /\ \A r, q \in Requests : r # q => Stamps(r) \cap Stamps(q) = {}
  /\ \A s \in Sessions, r \in Requests : begun[s] \notin Stamps(r)
  /\ \A s, o \in Sessions : s # o /\ begun[s] # NoTime => begun[s] # begun[o]
LooksApart ==
  \A s \in Sessions : begun[s] # NoTime =>
    /\ \A u \in Users, r \in Requests : begun[s] # viewed[u][r]
    /\ \A u \in Users, p \in SidebarSections : begun[s] # opened[u][p]

\* Newer than the last look is what changed since, and the other way round unless
\* another transaction hid it.
NewerIsFresh ==
  \A u \in Users, p \in Places : \A i \in Newer(u, p) : <<i, p>> \in fresh[u]
FreshIsNewer ==
  \A u \in Users : \A i \in Items, p \in Places :
    <<i, p>> \in fresh[u] \ late[u] /\ i \in Listed(p) => i \in Newer(u, p)

IndInv ==
  TypeOK /\ StampsAreOwned /\ LooksApart /\ NewerIsFresh /\ FreshIsNewer

--------------------------------------------------------------------------------
\* The clock only goes on, so that old stamps stay old.

\* What a clock has given out, a later clock has given out too.
LEMMA ClockGrows ==
  ASSUME NEW t \in Nat \ {0}, NEW t2 \in {t, t + 1}
  PROVE  /\ t2 \in Nat \ {0} /\ Before(t) \subseteq Before(t2) /\ Time(t) \subseteq Time(t2)
         /\ RequestRows(t) \subseteq RequestRows(t2) /\ RemarkRows(t) \subseteq RemarkRows(t2)
         /\ 0 .. t - 1 \subseteq 0 .. t2 - 1
<1>1. Before(t) \subseteq Before(t2)
  BY DEF Before
<1>2. Time(t) \subseteq Time(t2)
  BY <1>1 DEF Time
<1>3. RequestRows(t) \subseteq RequestRows(t2)
  BY <1>1 DEF RequestRows
<1>4. RemarkRows(t) \subseteq RemarkRows(t2)
  BY <1>1, <1>2 DEF RemarkRows
<1> QED
  BY <1>1, <1>2, <1>3, <1>4

\* Stamps are numbers.
LEMMA BeforeIsNat ==
  ASSUME NEW t \in Nat \ {0} PROVE Before(t) \subseteq Nat
BY DEF Before

\* What a step leaves alone keeps its type.
LEMMA StillTyped ==
  ASSUME TypeOK, now' \in {now, now + 1}
  PROVE  /\ now' \in Nat \ {0}
         /\ UNCHANGED <<row, tranche>> => RowsOK'
         /\ UNCHANGED looks => LooksOK'
         /\ UNCHANGED page => PageOK'
         /\ UNCHANGED <<fresh, late>> => HistoryOK'
         /\ UNCHANGED begun => begun' \in [Sessions -> Time(now')]
<1>1. /\ now' \in Nat \ {0} /\ Time(now) \subseteq Time(now')
      /\ RequestRows(now) \subseteq RequestRows(now')
      /\ RemarkRows(now) \subseteq RemarkRows(now') /\ 0 .. now - 1 \subseteq 0 .. now' - 1
  BY ClockGrows DEF TypeOK
<1>2. UNCHANGED <<row, tranche>> => RowsOK'
  <2> SUFFICES ASSUME UNCHANGED <<row, tranche>> PROVE RowsOK'
    OBVIOUS
  <2>1. row' \in [Items -> RequestRows(now') \cup RemarkRows(now')]
    BY <1>1 DEF TypeOK, RowsOK
  <2>2. tranche' \in [Requests -> [{1, 2} -> Time(now')]]
    BY <1>1 DEF TypeOK, RowsOK
  <2> QED
    BY <1>1, <2>1, <2>2 DEF TypeOK, RowsOK
<1>3. UNCHANGED looks => LooksOK'
  BY <1>1 DEF TypeOK, LooksOK, looks
<1>4. UNCHANGED page => PageOK'
  BY <1>1 DEF TypeOK, PageOK, page
<1>5. UNCHANGED <<fresh, late>> => HistoryOK'
  BY DEF TypeOK, HistoryOK
<1>6. UNCHANGED begun => begun' \in [Sessions -> Time(now')]
  BY <1>1 DEF TypeOK
<1> QED
  BY <1>1, <1>2, <1>3, <1>4, <1>5, <1>6

--------------------------------------------------------------------------------
\* The queries, as functions of the rows they read.

\* The newest of three stamps, of which some may be missing.
LEMMA LatestIs ==
  ASSUME NEW a \in Nat \cup {NoTime}, NEW b \in Nat \cup {NoTime}, NEW c \in Nat \cup {NoTime}
  PROVE  /\ Latest({a, b, c}) \in {a, b, c}
         /\ \A o \in {a, b, c} \ {NoTime} : Latest({a, b, c}) \in Nat /\ o <= Latest({a, b, c})
<1> DEFINE known == {a, b, c} \ {NoTime}
<1>0. known \subseteq Nat
  OBVIOUS
<1>1. CASE known = {}
  BY <1>1 DEF Latest
<1>2. CASE known # {}
  <2>1. \E t \in known : \A o \in known : o <= t
    BY <1>0, <1>2
  <2>2. /\ Latest({a, b, c}) = CHOOSE t \in known : \A o \in known : o <= t
    BY <1>2 DEF Latest
  <2>3. Latest({a, b, c}) \in known /\ \A o \in known : o <= Latest({a, b, c})
    BY <2>1, <2>2
  <2> QED
    BY <1>0, <2>3
<1> QED
  BY <1>1, <1>2

StampOf(rw, ts, p) ==
  IF p = Dot THEN Latest({rw.updated, ts[1], ts[2]})
  ELSE Latest({rw.created, rw.updated, rw.updated})

Lists(p, i, status) ==
  \/ p \in {Dot, "merchandiser"} /\ i \in Requests /\ status \notin {"none", "deleted"}
  \/ p = "accounts" /\ i \in Requests /\ status = "pending_payment"
  \/ p = "hom" /\ i \in Requests /\ status = "pending_hom_approval"
  \/ p = "file_remarks" /\ i \in Remarks /\ status # "none"

\* The stamp a section compares, in both states, is a matter of the item's row and tranches.
LEMMA StampMeans ==
  ASSUME NEW p, NEW i
  PROVE  /\ Stamp(p, i) = StampOf(row[i], tranche[i], p)
         /\ Stamp(p, i)' = StampOf(row'[i], tranche'[i], p)
<1>1. \A f : {f[n] : n \in {1, 2}} = {f[1], f[2]}
  OBVIOUS
<1>2. \A x, f : {x} \cup {f[n] : n \in {1, 2}} = {x, f[1], f[2]}
  BY <1>1
<1>3. \A x, y : {x, y} = {x, y, y}
  OBVIOUS
<1>4. Activity(i) = Latest({row[i].updated, tranche[i][1], tranche[i][2]})
  BY <1>2 DEF Activity
<1>5. Activity(i)' = Latest({row'[i].updated, tranche'[i][1], tranche'[i][2]})
  BY <1>2 DEF Activity
<1> QED
  BY <1>3, <1>4, <1>5 DEF Stamp, StampOf

\* Whether a section lists an item, in both states, is a matter of the item's status.
LEMMA ListedMeans ==
  ASSUME NEW p \in Places
  PROVE  /\ RowsOK => \A i : i \in Listed(p) <=> i \in Items /\ Lists(p, i, row[i].status)
         /\ RowsOK' => \A i : i \in Listed(p)' <=> i \in Items /\ Lists(p, i, row'[i].status)
<1> USE DEF Places, SidebarSections, Dot, NoRow
<1>1. ASSUME NEW t, NEW rows, \A r \in Requests : rows[r] \in RequestRows(t),
             \A m \in Remarks : rows[m] \in RemarkRows(t)
      PROVE  /\ \A r \in Requests : (rows[r] = NoRow) <=> (rows[r].status = "none")
             /\ \A m \in Remarks : (rows[m] = NoRow) <=> (rows[m].status = "none")
  BY <1>1 DEF RequestRows, RemarkRows
<1>2. ASSUME RowsOK
      PROVE  \A i : i \in Listed(p) <=> i \in Items /\ Lists(p, i, row[i].status)
  <2>1. \A i \in Items : (row[i] = NoRow) <=> (row[i].status = "none")
    BY <1>1, <1>2 DEF RowsOK, Items
  <2> QED
    BY <2>1 DEF Listed, Lists, Live, Stored, Items
<1>3. ASSUME RowsOK'
      PROVE  \A i : i \in Listed(p)' <=> i \in Items /\ Lists(p, i, row'[i].status)
  <2>1. \A i \in Items : (row'[i] = NoRow) <=> (row'[i].status = "none")
    BY <1>1, <1>3 DEF RowsOK, Items
  <2> QED
    BY <2>1 DEF Listed, Lists, Live, Stored, Items
<1> QED
  BY <1>2, <1>3

\* What a place compares is a stamp of the row, or for the dot of its tranches too,
\* and none of them is newer.
LEMMA StampBounds ==
  ASSUME NEW t \in Nat \ {0}, NEW rw, NEW ts, NEW p \in Places, NEW i, Lists(p, i, rw.status),
         i \in Requests => rw \in RequestRows(t) /\ ts \in [{1, 2} -> Time(t)],
         i \in Remarks => rw \in RemarkRows(t)
  PROVE  /\ StampOf(rw, ts, p) \in Before(t) /\ rw.created \in Before(t)
         /\ rw.updated # NoTime => rw.updated <= StampOf(rw, ts, p)
         /\ p = Dot => /\ StampOf(rw, ts, p) \in {rw.updated, ts[1], ts[2]}
                       /\ \A n \in {1, 2} : ts[n] # NoTime => ts[n] <= StampOf(rw, ts, p)
         /\ p # Dot => rw.created <= StampOf(rw, ts, p)
<1> USE PresenceAssumption
<1>1. /\ rw.created \in Before(t) /\ rw.updated \in Time(t)
      /\ i \in Requests => rw.updated \in Before(t)
      /\ p = Dot => i \in Requests
  BY DEF Lists, RequestRows, RemarkRows, NoRow, Time, Dot
<1>2. Before(t) \subseteq Nat /\ Time(t) \subseteq Nat \cup {NoTime} /\ NoTime \notin Before(t)
      /\ Time(t) \ {NoTime} = Before(t)
  BY DEF Before, Time
<1>3. CASE p = Dot
  <2> DEFINE L == Latest({rw.updated, ts[1], ts[2]})
  <2>1. ts[1] \in Time(t) /\ ts[2] \in Time(t) /\ i \in Requests
    BY <1>1, <1>3
  <2>2. /\ L \in {rw.updated, ts[1], ts[2]}
        /\ \A o \in {rw.updated, ts[1], ts[2]} \ {NoTime} : L \in Nat /\ o <= L
    BY <1>1, <1>2, <2>1, LatestIs
  <2>3. StampOf(rw, ts, p) = L
    BY <1>3 DEF StampOf
  <2> HIDE DEF L
  <2> QED
    BY <1>1, <1>2, <1>3, <2>1, <2>2, <2>3
<1>4. CASE p # Dot
  <2> DEFINE L == Latest({rw.created, rw.updated, rw.updated})
  <2>1. /\ L \in {rw.created, rw.updated}
        /\ \A o \in {rw.created, rw.updated} \ {NoTime} : L \in Nat /\ o <= L
    BY <1>1, <1>2, LatestIs
  <2>2. StampOf(rw, ts, p) = L
    BY <1>4 DEF StampOf
  <2> HIDE DEF L
  <2> QED
    BY <1>1, <1>2, <1>4, <2>1, <2>2
<1> QED
  BY <1>3, <1>4

CutoffOf(vw, op, u, p, i) == Or(IF p = Dot THEN vw[u][i] ELSE op[u][p], 0)

\* Flagged before the cap: listed, and newer than the last look.
IsNewer(rw, ts, cut, p, i) == Lists(p, i, rw.status) /\ StampOf(rw, ts, p) > cut

\* Whether an item is newer than the last look, in both states, is a matter of its row, its
\* tranches and that look.
LEMMA NewerMeans ==
  ASSUME NEW u \in Users, NEW p \in Places
  PROVE  /\ RowsOK => \A i : i \in Newer(u, p) <=>
              i \in Items /\ IsNewer(row[i], tranche[i], CutoffOf(viewed, opened, u, p, i), p, i)
         /\ RowsOK' => \A i : i \in Newer(u, p)' <=>
              i \in Items
              /\ IsNewer(row'[i], tranche'[i], CutoffOf(viewed', opened', u, p, i), p, i)
<1>1. ASSUME RowsOK
      PROVE  \A i : i \in Newer(u, p) <=>
              i \in Items /\ IsNewer(row[i], tranche[i], CutoffOf(viewed, opened, u, p, i), p, i)
  <2> TAKE i
  <2>1. i \in Newer(u, p) <=> i \in Listed(p) /\ Stamp(p, i) > Cutoff(u, p, i)
    BY DEF Newer
  <2>2. i \in Listed(p) <=> i \in Items /\ Lists(p, i, row[i].status)
    BY <1>1, ListedMeans
  <2>3. Stamp(p, i) = StampOf(row[i], tranche[i], p)
    BY StampMeans
  <2>4. Cutoff(u, p, i) = CutoffOf(viewed, opened, u, p, i)
    BY DEF Cutoff, CutoffOf
  <2> QED
    BY <2>1, <2>2, <2>3, <2>4 DEF IsNewer
<1>2. ASSUME RowsOK'
      PROVE  \A i : i \in Newer(u, p)' <=>
              i \in Items
              /\ IsNewer(row'[i], tranche'[i], CutoffOf(viewed', opened', u, p, i), p, i)
  <2> TAKE i
  <2>1. i \in Newer(u, p)' <=> i \in Listed(p)' /\ Stamp(p, i)' > Cutoff(u, p, i)'
    BY DEF Newer
  <2>2. i \in Listed(p)' <=> i \in Items /\ Lists(p, i, row'[i].status)
    BY <1>2, ListedMeans
  <2>3. Stamp(p, i)' = StampOf(row'[i], tranche'[i], p)
    BY StampMeans
  <2>4. Cutoff(u, p, i)' = CutoffOf(viewed', opened', u, p, i)
    BY DEF Cutoff, CutoffOf
  <2> QED
    BY <2>1, <2>2, <2>3, <2>4 DEF IsNewer
<1> QED
  BY <1>1, <1>2

\* What the two invariants say of a listed item, now and after a step.
Agrees(rw, ts, cut, p, i, new, hidden) ==
  Lists(p, i, rw.status) =>
    /\ StampOf(rw, ts, p) > cut => new
    /\ new /\ ~hidden => StampOf(rw, ts, p) > cut

\* In a state of the invariant, marker and history agree on each item.
LEMMA AgreesNow ==
  ASSUME IndInv, NEW u \in Users, NEW p \in Places, NEW i \in Items
  PROVE  Agrees(row[i], tranche[i], CutoffOf(viewed, opened, u, p, i), p, i,
                <<i, p>> \in fresh[u], <<i, p>> \in late[u])
<1>1. RowsOK
  BY DEF IndInv, TypeOK
<1>2. i \in Newer(u, p) <=>
        IsNewer(row[i], tranche[i], CutoffOf(viewed, opened, u, p, i), p, i)
  BY <1>1, NewerMeans
<1>3. i \in Listed(p) <=> Lists(p, i, row[i].status)
  BY <1>1, ListedMeans
<1>4. i \in Newer(u, p) => <<i, p>> \in fresh[u]
  BY DEF IndInv, NewerIsFresh
<1>5. <<i, p>> \in fresh[u] \ late[u] /\ i \in Listed(p) => i \in Newer(u, p)
  BY DEF IndInv, FreshIsNewer
<1> QED
  BY <1>2, <1>3, <1>4, <1>5 DEF Agrees, IsNewer

\* If marker and history agree on each item after a step, the invariant's two halves hold.
LEMMA AgreesNext ==
  ASSUME RowsOK',
         \A u \in Users, p \in Places, i \in Items :
           Agrees(row'[i], tranche'[i], CutoffOf(viewed', opened', u, p, i), p, i,
                  <<i, p>> \in fresh'[u], <<i, p>> \in late'[u])
  PROVE  NewerIsFresh' /\ FreshIsNewer'
<1>1. ASSUME NEW u \in Users, NEW p \in Places, NEW i \in Newer(u, p)'
      PROVE  <<i, p>> \in fresh'[u]
  <2>1. i \in Items /\ IsNewer(row'[i], tranche'[i], CutoffOf(viewed', opened', u, p, i), p, i)
    BY NewerMeans
  <2> QED
    BY <2>1 DEF IsNewer, Agrees
<1>2. ASSUME NEW u \in Users, NEW i \in Items, NEW p \in Places,
             <<i, p>> \in fresh'[u] \ late'[u], i \in Listed(p)'
      PROVE  i \in Newer(u, p)'
  <2>1. Lists(p, i, row'[i].status)
    BY <1>2, ListedMeans
  <2>2. IsNewer(row'[i], tranche'[i], CutoffOf(viewed', opened', u, p, i), p, i)
    BY <1>2, <2>1 DEF IsNewer, Agrees
  <2> QED
    BY <2>2, NewerMeans
<1> QED
  BY <1>1, <1>2 DEF NewerIsFresh, FreshIsNewer

--------------------------------------------------------------------------------
\* The writers.  What a step writes about one item in places with a transaction's stamp.

\* The last look is a moment of the past.
LEMMA CutoffType ==
  ASSUME LooksOK, now \in Nat \ {0}, NEW u \in Users, NEW p \in Places, NEW i \in Items,
         p = Dot => i \in Requests
  PROVE  CutoffOf(viewed, opened, u, p, i) \in 0 .. now - 1
<1>1. (IF p = Dot THEN viewed[u][i] ELSE opened[u][p]) \in Time(now)
  BY DEF LooksOK, Places
<1> QED
  BY <1>1, PresenceAssumption DEF CutoffOf, Or, Time, Before

\* A stamp that no look has makes the item new, unless somebody looked after the
\* transaction began or the stamp it replaces is newer.
LEMMA ChangedKeeps ==
  ASSUME IndInv, RowsOK', UNCHANGED looks, now' \in Nat,
         NEW i \in Items, NEW places \in SUBSET Places, NEW at \in Nat, Changed(i, places, at),
         \A o \in Items \ {i} : row'[o] = row[o],
         \A o \in Requests \ {i} : tranche'[o] = tranche[o],
         \A u \in Users, p \in places : at # CutoffOf(viewed, opened, u, p, i),
         \A p \in places : Lists(p, i, row'[i].status) =>
           StampOf(row'[i], tranche'[i], p) \in Nat /\ at <= StampOf(row'[i], tranche'[i], p),
         \A p \in Places \ places : Lists(p, i, row'[i].status) =>
           /\ Lists(p, i, row[i].status)
           /\ StampOf(row'[i], tranche'[i], p) = StampOf(row[i], tranche[i], p)
  PROVE  NewerIsFresh' /\ FreshIsNewer'
<1> SUFFICES ASSUME NEW u \in Users, NEW p \in Places, NEW o \in Items,
                    Lists(p, o, row'[o].status)
             PROVE  LET cut == CutoffOf(viewed, opened, u, p, o)
                        stamp == StampOf(row'[o], tranche'[o], p)
                    IN /\ stamp > cut => <<o, p>> \in fresh'[u]
                       /\ <<o, p>> \in fresh'[u] /\ <<o, p>> \notin late'[u] => stamp > cut
  BY AgreesNext DEF Agrees, looks
<1> DEFINE cut == CutoffOf(viewed, opened, u, p, o)
           stamp == StampOf(row'[o], tranche'[o], p)
<1>0. /\ p = Dot => o \in Requests
      /\ cut \in Nat
  <2>1. p = Dot => o \in Requests
    BY DEF Lists, Dot
  <2>2. LooksOK /\ now \in Nat \ {0}
    BY DEF IndInv, TypeOK
  <2> QED
    BY <2>1, <2>2, CutoffType
<1>1. /\ fresh'[u] = fresh[u] \cup ({i} \X places)
      /\ late'[u] = (late[u] \ ({i} \X places))
                      \cup ({i} \X {q \in places : Superseded(u, q, i, at)})
  BY DEF Changed
<1>2. CASE o = i /\ p \in places
  <2>1. <<o, p>> \in fresh'[u]
    BY <1>1, <1>2
  <2>2. <<o, p>> \notin late'[u] => ~(at < cut)
    BY <1>1, <1>2 DEF Superseded, Cutoff, CutoffOf
  <2>3. stamp \in Nat /\ at <= stamp /\ at # cut
    BY <1>2
  <2> QED
    BY <1>0, <2>1, <2>2, <2>3
<1>3. CASE ~(o = i /\ p \in places)
  <2>1. /\ (<<o, p>> \in fresh'[u]) <=> (<<o, p>> \in fresh[u])
        /\ (<<o, p>> \in late'[u]) <=> (<<o, p>> \in late[u])
    BY <1>1, <1>3
  <2>2. /\ Lists(p, o, row[o].status) /\ stamp = StampOf(row[o], tranche[o], p)
    <3>1. CASE o = i
      BY <1>3, <3>1
    <3>2. CASE o # i
      BY <1>0, <3>2 DEF StampOf
    <3> QED
      BY <3>1, <3>2
  <2>3. Agrees(row[o], tranche[o], cut, p, o, <<o, p>> \in fresh[u], <<o, p>> \in late[u])
    BY AgreesNow
  <2> QED
    BY <2>1, <2>2, <2>3 DEF Agrees
<1> QED
  BY <1>2, <1>3

\* Where nothing that is listed moves, nothing has to.
LEMMA NothingNew ==
  ASSUME IndInv, RowsOK', UNCHANGED looks,
         \A u \in Users, p \in Places, i \in Items :
           Lists(p, i, row'[i].status) =>
             /\ Lists(p, i, row[i].status)
             /\ \/ StampOf(row'[i], tranche'[i], p) = StampOf(row[i], tranche[i], p)
                \/ <<i, p>> \in fresh'[u] /\ <<i, p>> \in late'[u]
             /\ <<i, p>> \in fresh[u] => <<i, p>> \in fresh'[u]
             /\ <<i, p>> \in late[u] => <<i, p>> \in late'[u]
             /\ <<i, p>> \in fresh'[u] /\ <<i, p>> \notin late'[u] => <<i, p>> \in fresh[u]
  PROVE  NewerIsFresh' /\ FreshIsNewer'
<1> SUFFICES ASSUME NEW u \in Users, NEW p \in Places, NEW i \in Items
             PROVE  Agrees(row'[i], tranche'[i], CutoffOf(viewed, opened, u, p, i), p, i,
                           <<i, p>> \in fresh'[u], <<i, p>> \in late'[u])
  BY AgreesNext DEF looks
<1>1. Agrees(row[i], tranche[i], CutoffOf(viewed, opened, u, p, i), p, i,
             <<i, p>> \in fresh[u], <<i, p>> \in late[u])
  BY AgreesNow
<1> QED
  BY <1>1 DEF Agrees

\* The stamps after a write: the transaction's is spent, on one request at most.
LEMMA StampsAfterWrite ==
  ASSUME IndInv, NEW s \in Sessions, begun[s] # NoTime, UNCHANGED looks,
         begun' = [begun EXCEPT ![s] = NoTime], NEW r \in Requests \cup Remarks,
         \A q \in Requests \ {r} : row'[q].updated = row[q].updated /\ tranche'[q] = tranche[q],
         r \in Requests =>
           {row'[r].updated, tranche'[r][1], tranche'[r][2]}
             \subseteq Stamps(r) \cup {begun[s], NoTime}
  PROVE  StampsAreOwned' /\ LooksApart'
<1>1. \A o \in Sessions : begun'[o] = IF o = s THEN NoTime ELSE begun[o]
  BY DEF IndInv, TypeOK
<1>2. ASSUME NEW q \in Requests
      PROVE  Stamps(q)' \subseteq Stamps(q) \cup (IF q = r THEN {begun[s]} ELSE {})
  BY DEF Stamps
<1>3. \A q \in Requests : Stamps(q)' = {row'[q].updated, tranche'[q][1], tranche'[q][2]} \ {NoTime}
  BY DEF Stamps
<1> DEFINE after(q) == {row'[q].updated, tranche'[q][1], tranche'[q][2]} \ {NoTime}
<1>4. \A q \in Requests : after(q) \subseteq Stamps(q) \cup (IF q = r THEN {begun[s]} ELSE {})
  BY <1>2, <1>3
<1>5. \A q \in Requests : NoTime \notin after(q)
  OBVIOUS
<1> HIDE DEF after
<1>6. StampsAreOwned
  BY DEF IndInv
<1>7. \A p, q \in Requests : p # q => after(p) \cap after(q) = {}
  BY <1>4, <1>6 DEF StampsAreOwned
<1>8. \A o \in Sessions, q \in Requests : begun'[o] \notin after(q)
  BY <1>1, <1>4, <1>5, <1>6 DEF StampsAreOwned
<1>9. \A o, q \in Sessions : o # q /\ begun'[o] # NoTime => begun'[o] # begun'[q]
  BY <1>1, <1>6 DEF StampsAreOwned
<1>10. StampsAreOwned'
  BY <1>7, <1>8, <1>9 DEF StampsAreOwned, Stamps, after
<1>11. LooksApart'
  BY <1>1 DEF IndInv, LooksApart, looks
<1> QED
  BY <1>10, <1>11

\* A transaction's stamp is older than the clock, and nobody looked at that moment.
LEMMA BegunApart ==
  ASSUME IndInv, NEW s \in Sessions, begun[s] # NoTime
  PROVE  /\ begun[s] \in Before(now) /\ begun[s] \in Nat \ {0}
         /\ \A u \in Users, i \in Requests :
              begun[s] # CutoffOf(viewed, opened, u, Dot, i)
         /\ \A u \in Users, p \in SidebarSections, i \in Items :
              begun[s] # CutoffOf(viewed, opened, u, p, i)
<1>1. begun[s] \in Before(now) /\ begun[s] \in Nat \ {0}
  BY DEF IndInv, TypeOK, Time, Before
<1>2. \A p \in SidebarSections : p # Dot
  BY DEF SidebarSections, Dot
<1> QED
  BY <1>1, <1>2 DEF IndInv, LooksApart, CutoffOf, Or

\* What every commit leaves in order.
LEMMA CommitTyped ==
  ASSUME IndInv, NEW s \in Sessions, Commit(s)
  PROVE  /\ now' = now /\ UNCHANGED <<looks, page>> /\ LooksOK' /\ PageOK'
         /\ begun[s] # NoTime /\ begun' = [begun EXCEPT ![s] = NoTime]
         /\ begun' \in [Sessions -> Time(now')] /\ now' \in Nat \ {0}
<1>1. now' = now /\ UNCHANGED <<looks, page>> /\ begun[s] # NoTime
      /\ begun' = [begun EXCEPT ![s] = NoTime] /\ TypeOK
  BY DEF Commit, Ends, IndInv
<1>2. LooksOK' /\ PageOK' /\ now' \in Nat \ {0}
  BY <1>1, StillTyped
<1>3. begun' \in [Sessions -> Time(now')]
  BY <1>1 DEF TypeOK, Time
<1> QED
  BY <1>1, <1>2, <1>3

\* Recording a change keeps the history a set of items and places.
LEMMA ChangedTyped ==
  ASSUME HistoryOK, NEW i \in Items, NEW places \in SUBSET Places, NEW at, Changed(i, places, at)
  PROVE  HistoryOK'
<1> DEFINE pairs == {i} \X places
           hidden(u) == {i} \X {p \in places : Superseded(u, p, i, at)}
<1>1. pairs \subseteq Items \X Places /\ \A u : hidden(u) \subseteq Items \X Places
  OBVIOUS
<1>2. /\ fresh' = [u \in Users |-> fresh[u] \cup pairs]
      /\ late' = [u \in Users |-> (late[u] \ pairs) \cup hidden(u)]
  BY DEF Changed
<1> HIDE DEF pairs, hidden
<1> QED
  BY <1>1, <1>2 DEF HistoryOK

\* A request shows only at the places of its status.
LEMMA PlacesOfRequest ==
  ASSUME NEW r \in Requests, NEW status
  PROVE  /\ PlacesOf(r, status) \in SUBSET Places
         /\ \A p \in Places \ PlacesOf(r, status) : ~Lists(p, r, status)
BY PresenceAssumption DEF PlacesOf, Places, SidebarSections, Lists, Dot

\* A call that writes the row of a request, and a tranche of it or none.
LEMMA RequestWrite ==
  ASSUME IndInv, NEW s \in Sessions, Commit(s), NEW r \in Requests,
         row' \in [Items -> RequestRows(now) \cup RemarkRows(now)],
         row'[r] \in RequestRows(now), row'[r].updated = begun[s],
         \A o \in Items \ {r} : row'[o] = row[o],
         tranche' \in [Requests -> [{1, 2} -> Time(now)]],
         \A o \in Requests \ {r} : tranche'[o] = tranche[o],
         \A n \in {1, 2} : tranche'[r][n] # tranche[r][n] => tranche'[r][n] \in {begun[s], NoTime},
         Changed(r, PlacesOf(r, row'[r].status), begun[s])
  PROVE  IndInv'
<1> DEFINE at == begun[s]
           new == row'[r]
           places == PlacesOf(r, new.status)
<1>0. /\ now' = now /\ UNCHANGED <<looks, page>> /\ LooksOK' /\ PageOK'
      /\ begun[s] # NoTime /\ begun' = [begun EXCEPT ![s] = NoTime]
      /\ begun' \in [Sessions -> Time(now')] /\ now' \in Nat \ {0}
  BY CommitTyped
<1>1. /\ row \in [Items -> RequestRows(now) \cup RemarkRows(now)] /\ r \in Items
      /\ tranche \in [Requests -> [{1, 2} -> Time(now)]]
      /\ HistoryOK /\ RowsOK /\ now \in Nat \ {0} /\ r \notin Remarks
  BY PresenceAssumption DEF IndInv, TypeOK, RowsOK, Items
<1>2. /\ \A o \in Items \ {r} : row'[o] = row[o]
      /\ \A o \in Requests \ {r} : tranche'[o] = tranche[o]
  OBVIOUS
<1>3. RowsOK'
  <2>1. row' \in [Items -> RequestRows(now') \cup RemarkRows(now')]
        /\ tranche' \in [Requests -> [{1, 2} -> Time(now')]]
    BY <1>0, <1>1
  <2>2. \A q \in Requests : row'[q] \in RequestRows(now')
    BY <1>0, <1>1, <1>2 DEF RowsOK, Items
  <2>3. \A m \in Remarks : row'[m] \in RemarkRows(now')
    BY <1>0, <1>1, <1>2 DEF RowsOK, Items
  <2> QED
    BY <2>1, <2>2, <2>3 DEF RowsOK
<1>4. places \in SUBSET Places /\ \A p \in Places \ places : ~Lists(p, r, new.status)
  BY PlacesOfRequest
<1>5. HistoryOK'
  BY <1>1, <1>4, ChangedTyped
<1>6. StampsAreOwned' /\ LooksApart'
  <2>1. {row'[r].updated, tranche'[r][1], tranche'[r][2]}
          \subseteq Stamps(r) \cup {begun[s], NoTime}
    BY <1>2 DEF Stamps
  <2>2. r \in Requests \cup Remarks
    OBVIOUS
  <2>3. \A q \in Requests \ {r} : row'[q].updated = row[q].updated /\ tranche'[q] = tranche[q]
    BY <1>2 DEF Items
  <2>4. UNCHANGED looks
    BY <1>0
  <2> QED
    BY <1>0, <2>1, <2>2, <2>3, <2>4, StampsAfterWrite
<1>7. NewerIsFresh' /\ FreshIsNewer'
  <2>1. at \in Nat /\ at \in Before(now)
        /\ \A u \in Users, p \in places : at # CutoffOf(viewed, opened, u, p, r)
    BY <1>0, <1>1, <1>4, BegunApart DEF Places
  <2>2. \A p \in places : Lists(p, r, row'[r].status) =>
          StampOf(row'[r], tranche'[r], p) \in Nat /\ at <= StampOf(row'[r], tranche'[r], p)
    <3>1. Before(now) \subseteq Nat
      BY <1>1 DEF Before
    <3> QED
      BY <1>0, <1>1, <1>2, <1>4, <3>1, StampBounds
  <2> HIDE DEF at, places
  <2> QED
    BY <1>0, <1>1, <1>2, <1>3, <1>4, <2>1, <2>2, ChangedKeeps DEF at, places
<1> QED
  BY <1>0, <1>3, <1>5, <1>6, <1>7 DEF IndInv, TypeOK

\* The row of a request that is there.
LEMMA LiveRow ==
  ASSUME RowsOK, NEW r \in Requests, Live(r)
  PROVE  row[r] \in [created : Before(now), updated : Before(now),
                     status : {"pending_payment", "pending_hom_approval", "on_hold"}]
BY DEF RowsOK, RequestRows, Live, Stored

\* A transaction that creates a request keeps the invariant.
LEMMA CreateKeeps ==
  ASSUME IndInv, NEW s \in Sessions, NEW r \in Requests, Create(s, r)
  PROVE  IndInv'
<1> DEFINE at == begun[s]
           ts == [tranche[r] EXCEPT ![1] = at]
<1>1. PICK status \in {"pending_payment", "pending_hom_approval"} :
        /\ row' = [row EXCEPT ![r] = RequestRow(at, at, status)]
        /\ Changed(r, PlacesOf(r, status), at)
  BY DEF Create
<1> DEFINE new == RequestRow(at, at, status)
<1>2. Commit(s) /\ tranche' = [tranche EXCEPT ![r][1] = at]
  BY DEF Create
<1>3. /\ at \in Before(now) /\ tranche[r] \in [{1, 2} -> Time(now)]
      /\ tranche \in [Requests -> [{1, 2} -> Time(now)]]
      /\ row \in [Items -> RequestRows(now) \cup RemarkRows(now)]
  BY <1>2, BegunApart DEF Commit, IndInv, TypeOK, RowsOK
<1>4. new \in RequestRows(now) /\ new.updated = begun[s] /\ new.status = status
  BY <1>3 DEF RequestRow, RequestRows
<1>5. ts \in [{1, 2} -> Time(now)] /\ tranche' = [tranche EXCEPT ![r] = ts]
      /\ \A n \in {1, 2} : ts[n] # tranche[r][n] => ts[n] \in {begun[s], NoTime}
  BY <1>2, <1>3 DEF Time
<1>6. row' = [row EXCEPT ![r] = new] /\ Changed(r, PlacesOf(r, new.status), begun[s])
  BY <1>1, <1>4
<1> HIDE DEF new, ts
<1>7. /\ row' \in [Items -> RequestRows(now) \cup RemarkRows(now)]
      /\ row'[r] = new /\ \A o \in Items \ {r} : row'[o] = row[o]
      /\ tranche' \in [Requests -> [{1, 2} -> Time(now)]]
      /\ tranche'[r] = ts /\ \A o \in Requests \ {r} : tranche'[o] = tranche[o]
  BY <1>3, <1>4, <1>5, <1>6 DEF Items
<1> QED
  BY <1>2, <1>4, <1>5, <1>6, <1>7, RequestWrite

\* A transaction that changes a request keeps the invariant.
LEMMA ChangeRequestKeeps ==
  ASSUME IndInv, NEW s \in Sessions, NEW r \in Requests, ChangeRequest(s, r)
  PROVE  IndInv'
<1> DEFINE at == begun[s]
           ts == tranche[r]
<1>1. PICK status \in {row[r].status, "pending_payment", "on_hold"} :
        /\ row' = [row EXCEPT ![r].updated = at, ![r].status = status]
        /\ Changed(r, PlacesOf(r, status), at)
  BY DEF ChangeRequest
<1> DEFINE new == [row[r] EXCEPT !.updated = at, !.status = status]
<1>2. Commit(s) /\ tranche' = tranche /\ Live(r)
  BY DEF ChangeRequest
<1>3. /\ at \in Before(now) /\ tranche[r] \in [{1, 2} -> Time(now)]
      /\ tranche \in [Requests -> [{1, 2} -> Time(now)]] /\ RowsOK
      /\ row \in [Items -> RequestRows(now) \cup RemarkRows(now)] /\ r \in Items
  BY <1>2, BegunApart DEF Commit, IndInv, TypeOK, RowsOK, Items
<1>4. row[r] \in [created : Before(now), updated : Before(now),
                  status : {"pending_payment", "pending_hom_approval", "on_hold"}]
  BY <1>2, <1>3, LiveRow
<1>5. new \in RequestRows(now) /\ new.updated = begun[s] /\ new.status = status
  BY <1>3, <1>4 DEF RequestRows
<1>6. ts \in [{1, 2} -> Time(now)] /\ tranche' = [tranche EXCEPT ![r] = ts]
      /\ \A n \in {1, 2} : ts[n] # tranche[r][n] => ts[n] \in {begun[s], NoTime}
  BY <1>2, <1>3
<1>7. row' = [row EXCEPT ![r] = new] /\ Changed(r, PlacesOf(r, new.status), begun[s])
  BY <1>1, <1>3, <1>5
<1> HIDE DEF new, ts
<1>8. /\ row' \in [Items -> RequestRows(now) \cup RemarkRows(now)]
      /\ row'[r] = new /\ \A o \in Items \ {r} : row'[o] = row[o]
      /\ tranche' \in [Requests -> [{1, 2} -> Time(now)]]
      /\ tranche'[r] = ts /\ \A o \in Requests \ {r} : tranche'[o] = tranche[o]
  BY <1>3, <1>5, <1>6, <1>7 DEF Items
<1> QED
  BY <1>2, <1>5, <1>6, <1>7, <1>8, RequestWrite

\* A write to a tranche that changes the total writes the request row too.
LEMMA TotalChanges ==
  ASSUME IndInv, NEW s \in Sessions, Commit(s), NEW r \in Requests, Live(r),
         NEW n \in {1, 2}, NEW stamp \in {begun[s], NoTime},
         tranche' = [tranche EXCEPT ![r][n] = stamp],
         row' = [row EXCEPT ![r].updated = begun[s]],
         Changed(r, PlacesOf(r, row[r].status), begun[s])
  PROVE  IndInv'
<1> DEFINE ts == [tranche[r] EXCEPT ![n] = stamp]
           new == [row[r] EXCEPT !.updated = begun[s]]
<1>1. /\ begun[s] \in Before(now) /\ tranche[r] \in [{1, 2} -> Time(now)]
      /\ tranche \in [Requests -> [{1, 2} -> Time(now)]] /\ RowsOK
      /\ row \in [Items -> RequestRows(now) \cup RemarkRows(now)] /\ r \in Items
  BY BegunApart DEF Commit, IndInv, TypeOK, RowsOK, Items
<1>2. row[r] \in [created : Before(now), updated : Before(now),
                  status : {"pending_payment", "pending_hom_approval", "on_hold"}]
  BY <1>1, LiveRow
<1>3. new \in RequestRows(now) /\ new.updated = begun[s] /\ new.status = row[r].status
  BY <1>1, <1>2 DEF RequestRows
<1>4. ts \in [{1, 2} -> Time(now)] /\ tranche' = [tranche EXCEPT ![r] = ts]
      /\ \A m \in {1, 2} : ts[m] # tranche[r][m] => ts[m] \in {begun[s], NoTime}
  BY <1>1 DEF Time
<1>5. row' = [row EXCEPT ![r] = new] /\ Changed(r, PlacesOf(r, new.status), begun[s])
  BY <1>1, <1>3
<1> HIDE DEF new, ts
<1>6. /\ row' \in [Items -> RequestRows(now) \cup RemarkRows(now)]
      /\ row'[r] = new /\ \A o \in Items \ {r} : row'[o] = row[o]
      /\ tranche' \in [Requests -> [{1, 2} -> Time(now)]]
      /\ tranche'[r] = ts /\ \A o \in Requests \ {r} : tranche'[o] = tranche[o]
  BY <1>1, <1>3, <1>4, <1>5 DEF Items
<1> QED
  BY <1>3, <1>4, <1>5, <1>6, RequestWrite

\* A write to a tranche alone.
LEMMA TrancheTyped ==
  ASSUME IndInv, NEW s \in Sessions, Commit(s), NEW r \in Requests,
         NEW n \in {1, 2}, NEW stamp \in {begun[s], NoTime},
         tranche' = [tranche EXCEPT ![r][n] = stamp], UNCHANGED row
  PROVE  /\ RowsOK' /\ tranche'[r][n] = stamp
         /\ \A q \in Requests \ {r} : tranche'[q] = tranche[q]
         /\ StampsAreOwned' /\ LooksApart'
<1>1. /\ begun[s] \in Before(now) /\ tranche \in [Requests -> [{1, 2} -> Time(now)]]
      /\ now' = now /\ UNCHANGED looks /\ begun[s] # NoTime
      /\ begun' = [begun EXCEPT ![s] = NoTime] /\ RowsOK
  BY BegunApart, CommitTyped DEF Commit, IndInv, TypeOK, RowsOK
<1>2. /\ tranche'[r][n] = stamp /\ \A m \in {1, 2} \ {n} : tranche'[r][m] = tranche[r][m]
      /\ \A q \in Requests \ {r} : tranche'[q] = tranche[q]
      /\ tranche' \in [Requests -> [{1, 2} -> Time(now)]]
  BY <1>1 DEF Time
<1>3. RowsOK'
  BY <1>1, <1>2 DEF RowsOK
<1>4. {row'[r].updated, tranche'[r][1], tranche'[r][2]} \subseteq Stamps(r) \cup {begun[s], NoTime}
  BY <1>2 DEF Stamps
<1>5. r \in Requests \cup Remarks
      /\ \A q \in Requests \ {r} : row'[q].updated = row[q].updated /\ tranche'[q] = tranche[q]
  BY <1>2
<1>6. StampsAreOwned' /\ LooksApart'
  BY <1>1, <1>4, <1>5, StampsAfterWrite
<1> QED
  BY <1>2, <1>3, <1>6

\* A transaction that stamps a tranche keeps the invariant.
LEMMA ChangeTrancheKeeps ==
  ASSUME IndInv, NEW s \in Sessions, NEW r \in Requests, NEW n \in {1, 2},
         ChangeTranche(s, r, n)
  PROVE  IndInv'
<1>1. Commit(s) /\ Live(r) /\ tranche' = [tranche EXCEPT ![r][n] = begun[s]]
  BY DEF ChangeTranche
<1>2. CASE row' = [row EXCEPT ![r].updated = begun[s]]
           /\ Changed(r, PlacesOf(r, row[r].status), begun[s])
  BY <1>1, <1>2, TotalChanges
<1>3. CASE Changed(r, {Dot}, begun[s]) /\ UNCHANGED row
  <2>1. /\ RowsOK' /\ tranche'[r][n] = begun[s] /\ StampsAreOwned' /\ LooksApart'
        /\ \A q \in Requests \ {r} : tranche'[q] = tranche[q]
    BY <1>1, <1>3, TrancheTyped
  <2>2. /\ now' = now /\ UNCHANGED <<looks, page>> /\ LooksOK' /\ PageOK'
        /\ begun[s] # NoTime /\ begun' \in [Sessions -> Time(now')] /\ now' \in Nat \ {0}
    BY <1>1, CommitTyped
  <2>3. {Dot} \in SUBSET Places /\ r \in Items /\ HistoryOK
    BY DEF Places, Items, IndInv, TypeOK
  <2>4. HistoryOK'
    BY <1>3, <2>3, ChangedTyped
  <2>5. begun[s] \in Nat /\ begun[s] # NoTime
        /\ \A u \in Users, p \in {Dot} : begun[s] # CutoffOf(viewed, opened, u, p, r)
    BY <2>2, BegunApart
  <2>6. \A p \in {Dot} : Lists(p, r, row'[r].status) =>
          StampOf(row'[r], tranche'[r], p) \in Nat
          /\ begun[s] <= StampOf(row'[r], tranche'[r], p)
    <3>1. row'[r] \in RequestRows(now') /\ tranche'[r] \in [{1, 2} -> Time(now')] /\ Dot \in Places
          /\ r \notin Remarks
      BY <2>1, <2>3, PresenceAssumption DEF RowsOK
    <3>2. Before(now') \subseteq Nat
      BY <2>2 DEF Before
    <3> QED
      BY <2>1, <2>2, <2>5, <3>1, <3>2, StampBounds
  <2>7. \A p \in Places \ {Dot} :
          StampOf(row'[r], tranche'[r], p) = StampOf(row[r], tranche[r], p)
    BY <1>3 DEF StampOf
  <2>8. UNCHANGED looks /\ now' \in Nat
    BY <2>2
  <2>9. NewerIsFresh' /\ FreshIsNewer'
    BY <1>3, <2>1, <2>3, <2>5, <2>6, <2>7, <2>8, ChangedKeeps
  <2> QED
    BY <2>1, <2>2, <2>4, <2>9 DEF IndInv, TypeOK
<1> QED
  BY <1>2, <1>3 DEF ChangeTranche

\* A deletion may take the newest stamp away: it is late for everybody.
LEMMA DeleteTrancheKeeps ==
  ASSUME IndInv, NEW s \in Sessions, NEW r \in Requests, DeleteTranche(s, r)
  PROVE  IndInv'
<1>1. Commit(s) /\ Live(r) /\ tranche' = [tranche EXCEPT ![r][2] = NoTime]
  BY DEF DeleteTranche
<1>2. CASE row' = [row EXCEPT ![r].updated = begun[s]]
           /\ Changed(r, PlacesOf(r, row[r].status), begun[s])
  BY <1>1, <1>2, TotalChanges
<1>3. CASE /\ fresh' = [u \in Users |-> fresh[u] \cup {<<r, Dot>>}]
           /\ late' = [u \in Users |-> late[u] \cup {<<r, Dot>>}]
           /\ UNCHANGED row
  <2>1. /\ RowsOK' /\ StampsAreOwned' /\ LooksApart'
        /\ \A q \in Requests \ {r} : tranche'[q] = tranche[q]
    BY <1>1, <1>3, TrancheTyped
  <2>2. /\ now' = now /\ UNCHANGED <<looks, page>> /\ LooksOK' /\ PageOK'
        /\ begun' \in [Sessions -> Time(now')] /\ now' \in Nat \ {0}
    BY <1>1, CommitTyped
  <2>3. HistoryOK'
    BY <1>3 DEF IndInv, TypeOK, HistoryOK, Items, Places
  <2>4. ASSUME NEW u \in Users, NEW p \in Places, NEW i \in Items,
               Lists(p, i, row'[i].status)
        PROVE  \/ StampOf(row'[i], tranche'[i], p) = StampOf(row[i], tranche[i], p)
               \/ <<i, p>> \in fresh'[u] /\ <<i, p>> \in late'[u]
    <3>0. row' = row
      BY <1>3
    <3>1. CASE p # Dot
      BY <3>0, <3>1 DEF StampOf
    <3>2. CASE p = Dot /\ i = r
      BY <1>3, <3>2
    <3>3. CASE p = Dot /\ i # r
      <4>1. i \in Requests
        BY <2>4, <3>3 DEF Lists, Dot
      <4> QED
        BY <2>1, <3>0, <3>3, <4>1
    <3> QED
      BY <3>1, <3>2, <3>3
  <2>5. \A u \in Users, p \in Places, i \in Items :
          /\ <<i, p>> \in fresh[u] => <<i, p>> \in fresh'[u]
          /\ <<i, p>> \in late[u] => <<i, p>> \in late'[u]
          /\ <<i, p>> \in fresh'[u] /\ <<i, p>> \notin late'[u] => <<i, p>> \in fresh[u]
    BY <1>3
  <2>6. UNCHANGED looks
    BY <2>2
  <2>7. NewerIsFresh' /\ FreshIsNewer'
    BY <1>3, <2>1, <2>4, <2>5, <2>6, NothingNew
  <2> QED
    BY <2>1, <2>2, <2>3, <2>7 DEF IndInv, TypeOK
<1> QED
  BY <1>2, <1>3 DEF DeleteTranche

\* A deleted request is listed nowhere.
LEMMA SoftDeleteKeeps ==
  ASSUME IndInv, NEW s \in Sessions, NEW r \in Requests, SoftDelete(s, r)
  PROVE  IndInv'
<1> DEFINE new == [row[r] EXCEPT !.updated = begun[s], !.status = "deleted"]
<1>0. /\ now' = now /\ UNCHANGED <<looks, page>> /\ LooksOK' /\ PageOK'
      /\ begun[s] # NoTime /\ begun' = [begun EXCEPT ![s] = NoTime]
      /\ begun' \in [Sessions -> Time(now')] /\ now' \in Nat \ {0}
  BY CommitTyped DEF SoftDelete
<1>1. /\ row' = [row EXCEPT ![r].updated = begun[s], ![r].status = "deleted"]
      /\ fresh' = [u \in Users |-> fresh[u] \ ({r} \X Places)]
      /\ UNCHANGED <<tranche, late>> /\ Live(r)
  BY DEF SoftDelete
<1>2. /\ begun[s] \in Before(now) /\ RowsOK /\ HistoryOK
      /\ row \in [Items -> RequestRows(now) \cup RemarkRows(now)] /\ r \in Items
      /\ r \notin Remarks
  BY <1>0, BegunApart, PresenceAssumption DEF IndInv, TypeOK, RowsOK, Items
<1>3. row[r] \in [created : Before(now), updated : Before(now),
                  status : {"pending_payment", "pending_hom_approval", "on_hold"}]
  BY <1>1, <1>2, LiveRow
<1>4. /\ new \in RequestRows(now) /\ new.updated = begun[s] /\ new.status = "deleted"
  BY <1>2, <1>3 DEF RequestRows
<1>5. /\ row' \in [Items -> RequestRows(now) \cup RemarkRows(now)]
      /\ row'[r] = new /\ \A o \in Items \ {r} : row'[o] = row[o]
  BY <1>1, <1>2, <1>4
<1> HIDE DEF new
<1>6. RowsOK'
  BY <1>0, <1>1, <1>2, <1>4, <1>5 DEF RowsOK, Items
<1>7. HistoryOK'
  BY <1>1, <1>2 DEF HistoryOK
<1>8. StampsAreOwned' /\ LooksApart'
  <2>1. {row'[r].updated, tranche'[r][1], tranche'[r][2]}
          \subseteq Stamps(r) \cup {begun[s], NoTime}
    BY <1>1, <1>4, <1>5 DEF Stamps
  <2>2. r \in Requests \cup Remarks /\ UNCHANGED looks
    BY <1>0
  <2>3. \A q \in Requests \ {r} : row'[q].updated = row[q].updated /\ tranche'[q] = tranche[q]
    BY <1>1, <1>5 DEF Items
  <2> QED
    BY <1>0, <2>1, <2>2, <2>3, StampsAfterWrite
<1>9. NewerIsFresh' /\ FreshIsNewer'
  <2>1. ASSUME NEW u \in Users, NEW p \in Places, NEW i \in Items,
               Lists(p, i, row'[i].status)
        PROVE  /\ row'[i] = row[i] /\ tranche'[i] = tranche[i]
               /\ <<i, p>> \in fresh'[u] <=> <<i, p>> \in fresh[u]
               /\ late'[u] = late[u]
    <3>1. i # r
      BY <1>2, <1>4, <1>5, <2>1 DEF Lists
    <3> QED
      BY <1>1, <1>5, <3>1
  <2>2. UNCHANGED looks
    BY <1>0
  <2> QED
    BY <1>6, <2>1, <2>2, NothingNew
<1> QED
  BY <1>0, <1>6, <1>7, <1>8, <1>9 DEF IndInv, TypeOK

\* A call that writes a remark.
LEMMA RemarkWrite ==
  ASSUME IndInv, NEW s \in Sessions, begun[s] # NoTime, begun' = [begun EXCEPT ![s] = NoTime],
         now' \in {now, now + 1}, UNCHANGED <<looks, page, tranche>>, NEW m \in Remarks,
         NEW at \in Before(now'),
         \A u \in Users : at # CutoffOf(viewed, opened, u, "file_remarks", m),
         NEW new \in RemarkRows(now'), new.created = at \/ new.updated = at,
         row' = [row EXCEPT ![m] = new], Changed(m, {"file_remarks"}, at)
  PROVE  IndInv'
<1>0. TypeOK /\ UNCHANGED looks
  BY DEF IndInv
<1>1. now' \in Nat \ {0} /\ LooksOK' /\ PageOK'
  BY <1>0, StillTyped
<1>2. /\ Time(now) \subseteq Time(now') /\ RequestRows(now) \subseteq RequestRows(now')
      /\ RemarkRows(now) \subseteq RemarkRows(now')
  BY <1>0, ClockGrows DEF TypeOK
<1>3. /\ row'[m] = new /\ \A o \in Items \ {m} : row'[o] = row[o]
      /\ m \in Items /\ m \notin Requests
      /\ row' \in [Items -> RequestRows(now') \cup RemarkRows(now')]
  BY <1>0, <1>2, PresenceAssumption DEF TypeOK, RowsOK, Items
<1>4. RowsOK'
  <2>1. tranche' \in [Requests -> [{1, 2} -> Time(now')]]
    BY <1>0, <1>2 DEF TypeOK, RowsOK
  <2>2. \A r \in Requests : row'[r] \in RequestRows(now')
    BY <1>0, <1>2, <1>3 DEF TypeOK, RowsOK, Items
  <2>3. \A o \in Remarks : row'[o] \in RemarkRows(now')
    BY <1>0, <1>2, <1>3 DEF TypeOK, RowsOK, Items
  <2> QED
    BY <1>3, <2>1, <2>2, <2>3 DEF RowsOK
<1>5. {"file_remarks"} \in SUBSET Places /\ "file_remarks" \in Places /\ Dot # "file_remarks"
  BY DEF Places, SidebarSections, Dot
<1>6. HistoryOK'
  BY <1>0, <1>3, <1>5, ChangedTyped DEF TypeOK
<1>7. begun' \in [Sessions -> Time(now')]
  BY <1>0, <1>2 DEF TypeOK, Time
<1>8. StampsAreOwned' /\ LooksApart'
  <2>1. m \in Requests \cup Remarks
        /\ \A q \in Requests \ {m} : row'[q].updated = row[q].updated /\ tranche'[q] = tranche[q]
    BY <1>3 DEF Items
  <2> QED
    BY <1>0, <1>3, <2>1, StampsAfterWrite
<1>9. NewerIsFresh' /\ FreshIsNewer'
  <2>1. at \in Nat
    BY <1>1 DEF Before
  <2>2. \A u \in Users, p \in {"file_remarks"} : at # CutoffOf(viewed, opened, u, p, m)
    OBVIOUS
  <2>3. \A p \in {"file_remarks"} : Lists(p, m, row'[m].status) =>
          StampOf(row'[m], tranche'[m], p) \in Nat /\ at <= StampOf(row'[m], tranche'[m], p)
    <3>0. at # NoTime
      BY <2>1, PresenceAssumption
    <3>1. Before(now') \subseteq Nat
      BY <1>1, BeforeIsNat
    <3>2. ASSUME Lists("file_remarks", m, new.status)
          PROVE  /\ StampOf(new, tranche'[m], "file_remarks") \in Before(now')
                 /\ new.updated # NoTime
                      => new.updated <= StampOf(new, tranche'[m], "file_remarks")
                 /\ new.created <= StampOf(new, tranche'[m], "file_remarks")
      BY <1>1, <1>3, <1>5, <3>2, StampBounds
    <3> QED
      BY <1>3, <3>0, <3>1, <3>2
  <2>4. \A p \in Places \ {"file_remarks"} : ~Lists(p, m, row'[m].status)
    BY <1>3 DEF Lists
  <2>5. \A o \in Requests \ {m} : tranche'[o] = tranche[o]
    OBVIOUS
  <2> QED
    BY <1>0, <1>1, <1>3, <1>4, <1>5, <2>1, <2>2, <2>3, <2>4, <2>5, ChangedKeeps
<1> QED
  BY <1>1, <1>4, <1>6, <1>7, <1>8, <1>9 DEF IndInv, TypeOK

\* A transaction that raises or decides a remark keeps the invariant.
LEMMA RemarkKeeps ==
  ASSUME IndInv, NEW s \in Sessions, NEW m \in Remarks, RaiseRemark(s, m) \/ DecideRemark(s, m)
  PROVE  IndInv'
<1>0. \A status : PlacesOf(m, status) = {"file_remarks"}
  BY DEF PlacesOf
<1>1. "file_remarks" \in SidebarSections /\ m \in Items
  BY DEF SidebarSections, Items
<1>2. CASE RaiseRemark(s, m)
  <2> DEFINE new == [created |-> begun[s], updated |-> NoTime, status |-> "open"]
  <2>1. /\ begun[s] # NoTime /\ begun' = [begun EXCEPT ![s] = NoTime] /\ now' = now
        /\ UNCHANGED <<looks, page, tranche>>
        /\ row' = [row EXCEPT ![m] = new] /\ Changed(m, {"file_remarks"}, begun[s])
    BY <1>0, <1>2 DEF RaiseRemark, Commit, Ends
  <2>2. begun[s] \in Before(now')
        /\ \A u \in Users : begun[s] # CutoffOf(viewed, opened, u, "file_remarks", m)
    BY <1>1, <2>1, BegunApart
  <2>3. new \in RemarkRows(now') /\ new.created = begun[s]
    BY <2>2 DEF RemarkRows, Time
  <2> HIDE DEF new
  <2> QED
    BY <2>1, <2>2, <2>3, RemarkWrite
<1>3. CASE DecideRemark(s, m)
  <2> DEFINE new == [row[m] EXCEPT !.updated = now, !.status = "decided"]
  <2>1. /\ begun[s] # NoTime /\ begun' = [begun EXCEPT ![s] = NoTime] /\ now' = now + 1
        /\ UNCHANGED <<looks, page, tranche>> /\ row[m].status = "open"
        /\ row' = [row EXCEPT ![m].updated = now, ![m].status = "decided"]
        /\ Changed(m, {"file_remarks"}, now)
    BY <1>0, <1>3 DEF DecideRemark, Clocked, Ends
  <2>2. TypeOK /\ now \in Nat \ {0} /\ LooksOK
    BY DEF IndInv, TypeOK
  <2>3. now \in Before(now')
        /\ \A u \in Users : now # CutoffOf(viewed, opened, u, "file_remarks", m)
    <3>1. "file_remarks" \in Places /\ "file_remarks" # Dot
      BY DEF Places, SidebarSections, Dot
    <3>2. \A u \in Users : CutoffOf(viewed, opened, u, "file_remarks", m) \in 0 .. now - 1
      BY <1>1, <2>2, <3>1, CutoffType
    <3> QED
      BY <2>1, <2>2, <3>2 DEF Before
  <2>4. row[m] \in [created : Before(now), updated : Time(now), status : {"open", "decided"}]
    BY <2>1, <2>2 DEF TypeOK, RowsOK, RemarkRows, NoRow
  <2>5. new \in RemarkRows(now') /\ new.updated = now
    <3>1. Before(now) \subseteq Before(now')
      BY <2>1, <2>2, ClockGrows
    <3> QED
      BY <2>3, <2>4, <3>1 DEF RemarkRows, Time
  <2>6. row' = [row EXCEPT ![m] = new]
    BY <1>1, <2>1, <2>2 DEF TypeOK, RowsOK
  <2> HIDE DEF new
  <2>7. now' \in {now, now + 1}
    BY <2>1
  <2> QED
    BY <2>1, <2>3, <2>5, <2>6, <2>7, RemarkWrite
<1> QED
  BY <1>2, <1>3

\* A rollback spends the stamp.
LEMMA RollbackKeeps ==
  ASSUME IndInv, NEW s \in Sessions, Rollback(s)
  PROVE  IndInv'
<1>1. /\ now' = now /\ UNCHANGED <<looks, page, row, tranche, fresh, late>>
      /\ LooksOK' /\ PageOK' /\ begun[s] # NoTime /\ begun' = [begun EXCEPT ![s] = NoTime]
      /\ begun' \in [Sessions -> Time(now')] /\ now' \in Nat \ {0}
  BY CommitTyped DEF Rollback
<1>2. RowsOK' /\ HistoryOK'
  BY <1>1, StillTyped DEF IndInv
<1>3. UNCHANGED looks /\ row' = row /\ tranche' = tranche /\ fresh' = fresh /\ late' = late
  BY <1>1
<1>4. NewerIsFresh' /\ FreshIsNewer'
  BY <1>2, <1>3, NothingNew
<1>5. \A o \in Sessions : begun'[o] = IF o = s THEN NoTime ELSE begun[o]
  BY <1>1 DEF IndInv, TypeOK
<1>6. StampsAreOwned'
  <2>1. \A r \in Requests : Stamps(r)' = Stamps(r)
    BY <1>3 DEF Stamps
  <2>2. \A r \in Requests : NoTime \notin Stamps(r)
    BY DEF Stamps
  <2>3. StampsAreOwned
    BY DEF IndInv
  <2>4. \A r, q \in Requests : r # q => Stamps(r)' \cap Stamps(q)' = {}
    BY <2>1, <2>3 DEF StampsAreOwned
  <2>5. \A o \in Sessions, r \in Requests : begun'[o] \notin Stamps(r)'
    BY <1>5, <2>1, <2>2, <2>3 DEF StampsAreOwned
  <2>6. \A o, q \in Sessions : o # q /\ begun'[o] # NoTime => begun'[o] # begun'[q]
    BY <1>5, <2>3 DEF StampsAreOwned
  <2> QED
    BY <2>4, <2>5, <2>6 DEF StampsAreOwned
<1>7. LooksApart'
  BY <1>3, <1>5 DEF IndInv, LooksApart, looks
<1> QED
  BY <1>1, <1>2, <1>4, <1>6, <1>7 DEF IndInv, TypeOK

\* A transaction that begins takes a stamp nobody has.
LEMMA BeginKeeps ==
  ASSUME IndInv, NEW s \in Sessions, Begin(s)
  PROVE  IndInv'
<1>1. /\ now' = now + 1 /\ UNCHANGED <<row, tranche, looks, page, fresh, late>>
      /\ begun' = [begun EXCEPT ![s] = now] /\ begun[s] = NoTime
      /\ TypeOK /\ now \in Nat \ {0}
  BY DEF Begin, Clocked, IndInv, TypeOK
<1>2. RowsOK' /\ LooksOK' /\ PageOK' /\ HistoryOK' /\ now' \in Nat \ {0}
  BY <1>1, StillTyped
<1>3. now \in Before(now') /\ Time(now) \subseteq Time(now') /\ now \notin Time(now)
  <2>1. Time(now) \subseteq Time(now')
    BY <1>1, ClockGrows
  <2>2. now \in Before(now') /\ now \notin Before(now)
    BY <1>1 DEF Before
  <2>3. now # NoTime
    BY <1>1, PresenceAssumption
  <2> QED
    BY <2>1, <2>2, <2>3 DEF Time
<1>4. begun' \in [Sessions -> Time(now')]
  BY <1>1, <1>3 DEF TypeOK, Time
<1>5. /\ \A o \in Sessions : begun'[o] = IF o = s THEN now ELSE begun[o]
      /\ \A o \in Sessions : begun[o] # now
  BY <1>1, <1>3 DEF TypeOK
<1>6. StampsAreOwned'
  <2>1. \A r \in Requests : Stamps(r)' = Stamps(r)
    BY <1>1 DEF Stamps
  <2>2. ASSUME NEW r \in Requests PROVE now \notin Stamps(r)
    <3>1. row[r].updated \in Time(now) \cup {NoTime}
      BY <1>1 DEF TypeOK, RowsOK, RequestRows, NoRow, Time
    <3>2. tranche[r][1] \in Time(now) /\ tranche[r][2] \in Time(now)
      BY <1>1 DEF TypeOK, RowsOK
    <3> QED
      BY <1>3, <3>1, <3>2 DEF Stamps
  <2>3. StampsAreOwned
    BY DEF IndInv
  <2>4. \A r, q \in Requests : r # q => Stamps(r)' \cap Stamps(q)' = {}
    BY <2>1, <2>3 DEF StampsAreOwned
  <2>5. \A o \in Sessions, r \in Requests : begun'[o] \notin Stamps(r)'
    BY <1>5, <2>1, <2>2, <2>3 DEF StampsAreOwned
  <2>6. \A o, q \in Sessions : o # q /\ begun'[o] # NoTime => begun'[o] # begun'[q]
    BY <1>5, <2>3 DEF StampsAreOwned
  <2> QED
    BY <2>4, <2>5, <2>6 DEF StampsAreOwned
<1>7. LooksApart'
  <2>1. /\ \A u \in Users, r \in Requests : now # viewed[u][r]
        /\ \A u \in Users, p \in SidebarSections : now # opened[u][p]
    BY <1>1, <1>3 DEF TypeOK, LooksOK
  <2>2. viewed' = viewed /\ opened' = opened
    BY <1>1 DEF looks
  <2> QED
    BY <1>5, <2>1, <2>2 DEF IndInv, LooksApart
<1>8. row' = row /\ tranche' = tranche /\ fresh' = fresh /\ late' = late /\ UNCHANGED looks
  BY <1>1
<1>9. NewerIsFresh' /\ FreshIsNewer'
  BY <1>2, <1>8, NothingNew
<1> QED
  BY <1>2, <1>4, <1>6, <1>7, <1>9 DEF IndInv, TypeOK

\* A step of the page alone: time may pass.
LEMMA PageKeeps ==
  ASSUME IndInv, now' \in {now, now + 1},
         UNCHANGED <<row, tranche, begun, looks, fresh, late>>, TypeOK => PageOK'
  PROVE  IndInv'
<1>1. TypeOK /\ UNCHANGED looks
      /\ row' = row /\ tranche' = tranche /\ begun' = begun /\ fresh' = fresh /\ late' = late
  BY DEF IndInv
<1>2. RowsOK' /\ LooksOK' /\ HistoryOK' /\ now' \in Nat \ {0}
      /\ begun' \in [Sessions -> Time(now')] /\ PageOK'
  BY <1>1, StillTyped
<1>3. StampsAreOwned'
  <2>1. \A r \in Requests : Stamps(r)' = Stamps(r)
    BY <1>1 DEF Stamps
  <2> QED
    BY <1>1, <2>1 DEF IndInv, StampsAreOwned
<1>4. LooksApart'
  BY <1>1 DEF IndInv, LooksApart, looks
<1>5. NewerIsFresh' /\ FreshIsNewer'
  BY <1>1, <1>2, NothingNew
<1> QED
  BY <1>2, <1>3, <1>4, <1>5 DEF IndInv, TypeOK

\* The clock is ahead of every stamp and every look that it has given.
LEMMA AheadOfPage ==
  ASSUME TypeOK, now' = now + 1
  PROVE  /\ now \in Time(now') /\ now \in 0 .. now' - 1
         /\ seen \in [Users -> Time(now')] /\ hid \in [Users -> 0 .. now' - 1]
<1>1. now \in Nat \ {0} /\ now \in Time(now') /\ now \in 0 .. now' - 1
  BY DEF TypeOK, Time, Before
<1>2. Time(now) \subseteq Time(now') /\ 0 .. now - 1 \subseteq 0 .. now' - 1
  BY <1>1, ClockGrows
<1> QED
  BY <1>1, <1>2 DEF TypeOK, PageOK

\* The page's own steps look at nothing and change no row.
LEMMA PageStepKeeps ==
  ASSUME IndInv, NEW u \in Users, Heartbeat(u) \/ Hide(u) \/ Return(u) \/ BeatAfter(u)
  PROVE  IndInv'
<1>1. now' = now + 1 /\ UNCHANGED <<row, tranche, begun, looks, fresh, late>>
  BY DEF Heartbeat, Hide, Return, BeatAfter, Clocked
<1>2. ASSUME TypeOK PROVE PageOK'
  <2>1. /\ now \in Time(now') /\ now \in 0 .. now' - 1
        /\ seen \in [Users -> Time(now')] /\ hid \in [Users -> 0 .. now' - 1]
    BY <1>1, <1>2, AheadOfPage
  <2>2. /\ tab \in [Users -> {"hidden", "visible"}] /\ checking \subseteq Users
        /\ summary \in [Users -> SUBSET (Requests \cup Failed)]
    BY <1>2 DEF TypeOK, PageOK
  <2>3. CASE Heartbeat(u)
    BY <2>1, <2>2, <2>3 DEF Heartbeat, Touch, PageOK
  <2>4. CASE Hide(u)
    BY <2>1, <2>2, <2>4 DEF Hide, PageOK
  <2>5. CASE Return(u)
    <3>1. summary' \in [Users -> SUBSET (Requests \cup Failed)]
      <4>1. Arrivals(seen[u]) \subseteq Requests
        BY DEF Arrivals, Listed
      <4> QED
        BY <2>2, <2>5, <4>1 DEF Return, SummaryFirst, Answer
    <3> QED
      BY <2>1, <2>2, <2>5, <3>1 DEF Return, SummaryFirst, PageOK
  <2>6. CASE BeatAfter(u)
    BY <2>1, <2>2, <2>6 DEF BeatAfter, Touch, PageOK
  <2> QED
    BY <2>3, <2>4, <2>5, <2>6
<1> QED
  BY <1>1, <1>2, PageKeeps

\* A look: what it covers is not fresh any more, and older than the look.
LEMMA LookKeeps ==
  ASSUME IndInv, now' = now + 1, UNCHANGED <<row, tranche, begun, page>>, LooksOK', LooksApart',
         NEW u \in Users, NEW pairs, LookedAt(u, pairs),
         \A v \in Users, p \in Places, i \in Items : (p = Dot => i \in Requests) =>
           CutoffOf(viewed', opened', v, p, i) =
             IF v = u /\ <<i, p>> \in pairs THEN now ELSE CutoffOf(viewed, opened, v, p, i)
  PROVE  IndInv'
<1>1. TypeOK /\ row' = row /\ tranche' = tranche /\ begun' = begun /\ now \in Nat \ {0}
      /\ UNCHANGED page
  BY DEF IndInv, TypeOK
<1>2. RowsOK' /\ PageOK' /\ now' \in Nat \ {0} /\ begun' \in [Sessions -> Time(now')]
  BY <1>1, StillTyped
<1>3. /\ fresh' = [fresh EXCEPT ![u] = @ \ pairs] /\ late' = [late EXCEPT ![u] = @ \ pairs]
  BY DEF LookedAt
<1>4. HistoryOK'
  BY <1>1, <1>3 DEF TypeOK, HistoryOK
<1>5. StampsAreOwned'
  <2>1. \A r \in Requests : Stamps(r)' = Stamps(r)
    BY <1>1 DEF Stamps
  <2> QED
    BY <1>1, <2>1 DEF IndInv, StampsAreOwned
<1>6. NewerIsFresh' /\ FreshIsNewer'
  <2> SUFFICES ASSUME NEW v \in Users, NEW p \in Places, NEW i \in Items,
                      Lists(p, i, row[i].status)
               PROVE  LET cut == CutoffOf(viewed', opened', v, p, i)
                          stamp == StampOf(row[i], tranche[i], p)
                      IN /\ stamp > cut => <<i, p>> \in fresh'[v]
                         /\ <<i, p>> \in fresh'[v] /\ <<i, p>> \notin late'[v] => stamp > cut
    BY <1>1, <1>2, AgreesNext DEF Agrees
  <2>1. p = Dot => i \in Requests
    BY DEF Lists, Dot
  <2>2. CutoffOf(viewed', opened', v, p, i) =
          IF v = u /\ <<i, p>> \in pairs THEN now ELSE CutoffOf(viewed, opened, v, p, i)
    BY <2>1
  <2>3. Agrees(row[i], tranche[i], CutoffOf(viewed, opened, v, p, i), p, i,
               <<i, p>> \in fresh[v], <<i, p>> \in late[v])
    BY AgreesNow
  <2>4. CASE v = u /\ <<i, p>> \in pairs
    <3>1. <<i, p>> \notin fresh'[v]
      BY <1>1, <1>3, <2>4 DEF TypeOK, HistoryOK
    <3>2. StampOf(row[i], tranche[i], p) \in Before(now)
      <4>1. /\ i \in Requests => row[i] \in RequestRows(now)
                                 /\ tranche[i] \in [{1, 2} -> Time(now)]
            /\ i \in Remarks => row[i] \in RemarkRows(now)
        BY <1>1 DEF TypeOK, RowsOK
      <4> QED
        BY <1>1, <4>1, StampBounds
    <3>3. ~(StampOf(row[i], tranche[i], p) > now)
      BY <1>1, <3>2 DEF Before
    <3> QED
      BY <2>2, <2>4, <3>1, <3>3
  <2>5. CASE ~(v = u /\ <<i, p>> \in pairs)
    <3>1. /\ (<<i, p>> \in fresh'[v]) <=> (<<i, p>> \in fresh[v])
          /\ (<<i, p>> \in late'[v]) <=> (<<i, p>> \in late[v])
      BY <1>1, <1>3, <2>5 DEF TypeOK, HistoryOK
    <3> QED
      BY <2>2, <2>3, <2>5, <3>1 DEF Agrees
  <2> QED
    BY <2>4, <2>5
<1> QED
  BY <1>2, <1>4, <1>5, <1>6 DEF IndInv, TypeOK

\* Opening a request clears its dot alone.
LEMMA MarkViewedKeeps ==
  ASSUME IndInv, NEW u \in Users, NEW r \in Requests, MarkViewed(u, r)
  PROVE  IndInv'
<1> DEFINE pairs == {<<r, Dot>>}
<1>1. /\ now' = now + 1 /\ UNCHANGED <<row, tranche, begun, page>> /\ opened' = opened
      /\ begun' = begun /\ viewed' = [viewed EXCEPT ![u][r] = now] /\ LookedAt(u, pairs)
  BY DEF MarkViewed, Clocked
<1>2. TypeOK /\ now \in Nat \ {0} /\ now # NoTime /\ now \notin Time(now) /\ now \in Time(now')
      /\ Time(now) \subseteq Time(now')
  <2>1. TypeOK /\ now \in Nat \ {0}
    BY DEF IndInv, TypeOK
  <2>2. now # NoTime
    BY <2>1, PresenceAssumption
  <2>3. now \notin Time(now) /\ now \in Time(now')
    BY <1>1, <2>1, <2>2 DEF Time, Before
  <2> QED
    BY <1>1, <2>1, <2>2, <2>3, ClockGrows
<1>3. \A v \in Users, i \in Requests :
        viewed'[v][i] = IF v = u /\ i = r THEN now ELSE viewed[v][i]
  BY <1>1, <1>2 DEF TypeOK, LooksOK
<1>4. LooksOK'
  BY <1>1, <1>2 DEF TypeOK, LooksOK
<1>5. LooksApart'
  <2>1. \A s \in Sessions : begun[s] # now
    BY <1>2 DEF TypeOK
  <2> QED
    BY <1>1, <1>3, <2>1 DEF IndInv, LooksApart
<1>6. ASSUME NEW v \in Users, NEW p \in Places, NEW i \in Items, p = Dot => i \in Requests
      PROVE  CutoffOf(viewed', opened', v, p, i) =
               IF v = u /\ <<i, p>> \in pairs THEN now ELSE CutoffOf(viewed, opened, v, p, i)
  BY <1>1, <1>2, <1>3, <1>6 DEF CutoffOf, Or
<1> HIDE DEF pairs
<1>7. now' = now + 1 /\ UNCHANGED <<row, tranche, begun, page>> /\ LookedAt(u, pairs)
  BY <1>1
<1>8. \A v \in Users, p \in Places, i \in Items : (p = Dot => i \in Requests) =>
        CutoffOf(viewed', opened', v, p, i) =
          IF v = u /\ <<i, p>> \in pairs THEN now ELSE CutoffOf(viewed, opened, v, p, i)
  BY <1>6
<1> QED
  BY <1>4, <1>5, <1>7, <1>8, LookKeeps

\* Opening a section clears that section's marks alone.
LEMMA MarkSectionKeeps ==
  ASSUME IndInv, NEW u \in Users, NEW section \in SidebarSections, MarkSectionViewed(u, section)
  PROVE  IndInv'
<1> DEFINE pairs == Items \X {section}
<1>1. /\ now' = now + 1 /\ UNCHANGED <<row, tranche, begun, page>> /\ viewed' = viewed
      /\ begun' = begun /\ opened' = [opened EXCEPT ![u][section] = now] /\ LookedAt(u, pairs)
  BY DEF MarkSectionViewed, Clocked
<1>2. TypeOK /\ now \in Nat \ {0} /\ now # NoTime /\ now \notin Time(now) /\ now \in Time(now')
      /\ Time(now) \subseteq Time(now')
  <2>1. TypeOK /\ now \in Nat \ {0}
    BY DEF IndInv, TypeOK
  <2>2. now # NoTime
    BY <2>1, PresenceAssumption
  <2>3. now \notin Time(now) /\ now \in Time(now')
    BY <1>1, <2>1, <2>2 DEF Time, Before
  <2> QED
    BY <1>1, <2>1, <2>2, <2>3, ClockGrows
<1>3. \A v \in Users, p \in SidebarSections :
        opened'[v][p] = IF v = u /\ p = section THEN now ELSE opened[v][p]
  BY <1>1, <1>2 DEF TypeOK, LooksOK
<1>4. LooksOK'
  BY <1>1, <1>2 DEF TypeOK, LooksOK
<1>5. LooksApart'
  <2>1. \A s \in Sessions : begun[s] # now
    BY <1>2 DEF TypeOK
  <2> QED
    BY <1>1, <1>3, <2>1 DEF IndInv, LooksApart
<1>6. ASSUME NEW v \in Users, NEW p \in Places, NEW i \in Items, p = Dot => i \in Requests
      PROVE  CutoffOf(viewed', opened', v, p, i) =
               IF v = u /\ <<i, p>> \in pairs THEN now ELSE CutoffOf(viewed, opened, v, p, i)
  <2>1. section # Dot /\ (p # Dot => p \in SidebarSections)
    BY DEF Places, SidebarSections, Dot
  <2> QED
    BY <1>1, <1>2, <1>3, <2>1 DEF CutoffOf, Or
<1> HIDE DEF pairs
<1>7. now' = now + 1 /\ UNCHANGED <<row, tranche, begun, page>> /\ LookedAt(u, pairs)
  BY <1>1
<1>8. \A v \in Users, p \in Places, i \in Items : (p = Dot => i \in Requests) =>
        CutoffOf(viewed', opened', v, p, i) =
          IF v = u /\ <<i, p>> \in pairs THEN now ELSE CutoffOf(viewed, opened, v, p, i)
  BY <1>6
<1> QED
  BY <1>4, <1>5, <1>7, <1>8, LookKeeps

--------------------------------------------------------------------------------
\* The invariant.

\* At the start there is nothing to mark.
LEMMA InitIndInv ==
  ASSUME Init PROVE IndInv
<1>1. now = 1 /\ now \in Nat \ {0} /\ NoTime \in Time(now) /\ 0 \in 0 .. now - 1
  BY DEF Init, Time
<1>2. RowsOK
  BY <1>1 DEF Init, RowsOK, RequestRows, RemarkRows, Items
<1>3. LooksOK /\ begun \in [Sessions -> Time(now)]
  BY <1>1 DEF Init, LooksOK
<1>4. PageOK
  BY <1>1 DEF Init, PageOK
<1>5. HistoryOK
  BY DEF Init, HistoryOK
<1>6. StampsAreOwned
  <2>1. \A r \in Requests : Stamps(r) = {}
    BY DEF Init, Stamps, NoRow, Items
  <2> QED
    BY <2>1 DEF Init, StampsAreOwned
<1>7. LooksApart
  BY DEF Init, LooksApart
<1>8. \A u \in Users, p \in Places : Newer(u, p) = {}
  <2>1. ASSUME NEW u \in Users, NEW p \in Places, NEW i \in Newer(u, p) PROVE FALSE
    <3>1. i \in Items /\ Lists(p, i, row[i].status)
      BY <1>2, <2>1, NewerMeans DEF IsNewer
    <3>2. row[i].status = "none"
      BY <3>1 DEF Init, NoRow
    <3> QED
      BY <3>1, <3>2 DEF Lists
  <2> QED
    BY <2>1
<1>9. NewerIsFresh
  BY <1>8 DEF NewerIsFresh
<1>10. FreshIsNewer
  BY DEF Init, FreshIsNewer
<1> QED
  BY <1>1, <1>2, <1>3, <1>4, <1>5, <1>6, <1>7, <1>9, <1>10 DEF IndInv, TypeOK

\* What the users and their pages do; the rest of a step belongs to the transactions.
UserStep(u) ==
  \/ \E r \in Requests : MarkViewed(u, r)
  \/ \E section \in SidebarSections : MarkSectionViewed(u, section)
  \/ Heartbeat(u) \/ Hide(u) \/ Return(u) \/ BeatAfter(u)
SessionStep(s) ==
  \/ Begin(s) \/ Rollback(s)
  \/ \E r \in Requests :
       \/ Create(s, r) \/ ChangeRequest(s, r) \/ SoftDelete(s, r) \/ DeleteTranche(s, r)
       \/ \E n \in {1, 2} : ChangeTranche(s, r, n)
  \/ \E m \in Remarks : RaiseRemark(s, m) \/ DecideRemark(s, m)

\* Every step keeps marker and history in agreement.
LEMMA NextIndInv ==
  ASSUME IndInv, [Next]_vars PROVE IndInv'
<1>1. CASE Next
  <2>1. (\E s \in Sessions : SessionStep(s)) \/ (\E u \in Users : UserStep(u))
    BY <1>1 DEF Next, SessionStep, UserStep
  <2>2. ASSUME NEW s \in Sessions, SessionStep(s) PROVE IndInv'
    BY <2>2, BeginKeeps, RollbackKeeps, CreateKeeps, ChangeRequestKeeps, SoftDeleteKeeps,
       DeleteTrancheKeeps, ChangeTrancheKeeps, RemarkKeeps DEF SessionStep
  <2>3. ASSUME NEW u \in Users, UserStep(u) PROVE IndInv'
    BY <2>3, MarkViewedKeeps, MarkSectionKeeps, PageStepKeeps DEF UserStep
  <2> QED
    BY <2>1, <2>2, <2>3
<1>2. CASE UNCHANGED vars
  <2>1. now' \in {now, now + 1} /\ UNCHANGED <<row, tranche, begun, looks, fresh, late>>
        /\ UNCHANGED page
    BY <1>2 DEF vars
  <2>2. TypeOK => PageOK'
    BY <2>1, StillTyped
  <2> QED
    BY <2>1, <2>2, PageKeeps
<1> QED
  BY <1>1, <1>2

\* Stamps, looks and markers belong together in every reachable state: a stamp stands
\* on one request, and what is newer than the last look is what changed since, or was
\* hidden by a transaction that began before it.
THEOREM MarkersMatchStamps == Spec => []IndInv
<1>1. Init => IndInv
  BY InitIndInv
<1>2. IndInv /\ [Next]_vars => IndInv'
  BY NextIndInv
<1> QED
  BY <1>1, <1>2, PTL DEF Spec

\* Every row, view and page stays well formed, and no stamp is ahead of the clock.
THEOREM TypeCorrect == Spec => []TypeOK
<1>1. IndInv => TypeOK
  BY DEF IndInv
<1> QED
  BY <1>1, MarkersMatchStamps, PTL

\* Nothing is flagged that has not changed since the user looked there, whatever
\* transactions were open at that moment.
THEOREM NoFalseMarker == Spec => []QuietWhenSeen
<1>1. ASSUME IndInv PROVE QuietWhenSeen
  <2>1. \A u \in Users, p \in Places : Flagged(u, p) \subseteq Newer(u, p)
    BY DEF Flagged, Unseen
  <2> QED
    BY <1>1, <2>1 DEF IndInv, NewerIsFresh, QuietWhenSeen
<1> QED
  BY <1>1, MarkersMatchStamps, PTL

--------------------------------------------------------------------------------
\* The summary: a return reads it before the beat moves last_seen_at.

\* A page that comes back reports every file that arrived while it was hidden.
LEMMA ReturnReports ==
  ASSUME IndInv, [Next]_vars, NEW u \in Users,
         tab[u] = "hidden", tab'[u] = "visible", u \notin checking,
         seen[u] # NoTime, seen[u] <= hid[u], now - hid[u] >= Away, summary'[u] # Failed
  PROVE  {r \in Listed("accounts") : row[r].created > hid[u]} \subseteq summary'[u]
<1>1. TypeOK /\ PageOK /\ RowsOK /\ now \in Nat \ {0}
  BY DEF IndInv, TypeOK
<1>2. Return(u)
  <2>1. tab'[u] # tab[u]
    OBVIOUS
  <2>2. CASE Next
    <3>1. (\E s \in Sessions : SessionStep(s)) \/ (\E v \in Users : UserStep(v))
      BY <2>2 DEF Next, SessionStep, UserStep
    <3>2. ASSUME NEW s \in Sessions, SessionStep(s) PROVE tab' = tab
      BY <3>2 DEF SessionStep, Begin, Rollback, Create, ChangeRequest, SoftDelete,
         DeleteTranche, ChangeTranche, RaiseRemark, DecideRemark, Commit, page
    <3>3. ASSUME NEW v \in Users, UserStep(v) PROVE tab' = tab \/ Hide(v) \/ Return(v)
      BY <3>3 DEF UserStep, MarkViewed, MarkSectionViewed, Heartbeat, BeatAfter, page
    <3>4. ASSUME NEW v \in Users, Hide(v) PROVE tab'[u] \in {tab[u], "hidden"}
      BY <1>1, <3>4 DEF Hide, PageOK
    <3>5. ASSUME NEW v \in Users, Return(v), v # u PROVE tab'[u] = tab[u]
      BY <1>1, <3>5 DEF Return, PageOK
    <3> QED
      BY <2>1, <3>1, <3>2, <3>3, <3>4, <3>5
  <2>3. CASE UNCHANGED vars
    BY <2>1, <2>3 DEF vars, page
  <2> QED
    BY <2>2, <2>3
<1>3. summary'[u] = Arrivals(seen[u])
  BY <1>1, <1>2 DEF Return, SummaryFirst, Answer, PageOK
<1>4. seen[u] \in Nat /\ hid[u] \in Nat
  BY <1>1 DEF PageOK, Time, Before
<1>5. ~(now - seen[u] < Away)
  BY <1>1, <1>4, PresenceAssumption
<1>6. Arrivals(seen[u]) = {r \in Listed("accounts") : row[r].created > seen[u]}
  BY <1>5 DEF Arrivals
<1>7. ASSUME NEW r \in Listed("accounts"), row[r].created > hid[u]
      PROVE  row[r].created > seen[u]
  <2>1. r \in Requests /\ row[r].status = "pending_payment"
    BY DEF Listed
  <2>2. row[r].created \in Before(now)
    BY <1>1, <2>1 DEF RowsOK, RequestRows, NoRow
  <2> QED
    BY <1>1, <1>4, <1>7, <2>2, BeforeIsNat
<1> QED
  BY <1>3, <1>6, <1>7

\* A summary read on the return from a real absence counts every request raised in it
\* that still waits for Accounts.
THEOREM NothingMissedWhileAway == Spec => AwayReportsArrivals
<1>1. IndInv /\ [Next]_vars =>
        [\A u \in Users :
           LET reads == tab[u] = "hidden" /\ tab'[u] = "visible" /\ u \notin checking
               away == seen[u] # NoTime /\ seen[u] <= hid[u] /\ now - hid[u] >= Away
           IN reads /\ away /\ summary'[u] # Failed
              => {r \in Listed("accounts") : row[r].created > hid[u]} \subseteq summary'[u]]_vars
  BY ReturnReports
<1> QED
  BY <1>1, MarkersMatchStamps, PTL DEF Spec, AwayReportsArrivals

--------------------------------------------------------------------------------
\* The cap: with distinct stamps the K newest of a finite set are K.

\* Of a finite set with distinct stamps, the K newest are K: those with fewer than K above them.
LEMMA NewestAreCounted ==
  ASSUME NEW A, IsFiniteSet(A), NEW st, \A q \in A : st[q] \in Nat,
         \A p, q \in A : p # q => st[p] # st[q], NEW K \in Nat, K <= Cardinality(A)
  PROVE  Cardinality({q \in A : Cardinality({p \in A : st[p] > st[q]}) < K}) = K
<1> DEFINE above(q) == {p \in A : st[p] > st[q]}
           n == Cardinality(A)
           rank == [q \in A |-> Cardinality(above(q))]
           top == {q \in A : rank[q] < K}
<1>1. n \in Nat /\ n = Cardinality(A)
  BY FS_CardinalityType
<1>2. \A q \in A : IsFiniteSet(above(q)) /\ rank[q] \in 0 .. n - 1
  <2> TAKE q \in A
  <2>1. above(q) \in SUBSET A /\ q \notin above(q)
    OBVIOUS
  <2> HIDE DEF above
  <2>2. IsFiniteSet(above(q)) /\ Cardinality(above(q)) <= n /\ Cardinality(above(q)) # n
    BY <2>1, FS_Subset
  <2>3. Cardinality(above(q)) \in Nat
    BY <2>2, FS_CardinalityType
  <2> QED
    BY <1>1, <2>2, <2>3
<1>3. ASSUME NEW p \in A, NEW q \in A, st[p] > st[q] PROVE rank[p] < rank[q]
  <2>1. above(p) \in SUBSET above(q) /\ p \in above(q) /\ p \notin above(p)
    BY <1>3
  <2> HIDE DEF above
  <2>2. Cardinality(above(p)) <= Cardinality(above(q))
        /\ Cardinality(above(p)) # Cardinality(above(q))
    BY <1>2, <2>1, FS_Subset
  <2> QED
    BY <1>2, <2>2
<1>4. \A p, q \in A : rank[p] = rank[q] => p = q
  <2> SUFFICES ASSUME NEW p \in A, NEW q \in A, p # q PROVE rank[p] # rank[q]
    OBVIOUS
  <2>1. st[p] > st[q] \/ st[q] > st[p]
    OBVIOUS
  <2>2. rank[p] \in 0 .. n - 1 /\ rank[q] \in 0 .. n - 1
    BY <1>2
  <2> HIDE DEF rank
  <2> QED
    BY <1>3, <2>1, <2>2
<1>5. rank \in [A -> 0 .. n - 1]
  BY <1>2
<1> HIDE DEF rank, n
<1>6. rank \in Injection(A, 0 .. n - 1)
  BY <1>4, <1>5 DEF Injection, IsInjective
<1>7. IsFiniteSet(0 .. n - 1) /\ Cardinality(0 .. n - 1) = n
  <2>1. 0 \in Int /\ n - 1 \in Int
    BY <1>1
  <2>2. Cardinality(0 .. n - 1) = IF 0 > n - 1 THEN 0 ELSE n - 1 - 0 + 1
    BY <2>1, FS_Interval
  <2> QED
    BY <1>1, <2>1, <2>2, FS_Interval
<1>8. rank \in Surjection(A, 0 .. n - 1)
  BY <1>1, <1>6, <1>7, FS_Injection
<1>9. \A t \in 0 .. K - 1 : \E q \in top : rank[q] = t
  BY <1>1, <1>8 DEF Surjection
<1> DEFINE onTop == [q \in top |-> rank[q]]
<1>10. onTop \in [top -> 0 .. K - 1]
  BY <1>1, <1>5
<1>11. onTop \in Injection(top, 0 .. K - 1) /\ onTop \in Surjection(top, 0 .. K - 1)
  BY <1>4, <1>9, <1>10 DEF Injection, IsInjective, Surjection
<1>12. IsFiniteSet(0 .. K - 1) /\ Cardinality(0 .. K - 1) = K
  BY FS_Interval
<1>13. Cardinality(top) = K
  BY <1>11, <1>12, FS_Injection
<1>14. top = {q \in A : Cardinality({p \in A : st[p] > st[q]}) < K}
  BY DEF rank
<1> QED
  BY <1>13, <1>14

\* Two listed requests never show the same stamp.
LEMMA DotsApart ==
  ASSUME IndInv, NEW p \in Requests, NEW q \in Requests, p # q,
         p \in Listed(Dot), q \in Listed(Dot)
  PROVE  Stamp(Dot, p) # Stamp(Dot, q)
<1>1. RowsOK /\ now \in Nat \ {0} /\ Dot \in Places
  BY DEF IndInv, TypeOK, Places
<1>2. ASSUME NEW r \in Requests, r \in Listed(Dot) PROVE Stamp(Dot, r) \in Stamps(r)
  <2>1. Lists(Dot, r, row[r].status)
    BY <1>1, <1>2, ListedMeans
  <2>2. /\ row[r] \in RequestRows(now) /\ tranche[r] \in [{1, 2} -> Time(now)]
        /\ r \notin Remarks
    BY <1>1, PresenceAssumption DEF RowsOK
  <2>3. /\ StampOf(row[r], tranche[r], Dot) \in Before(now)
        /\ StampOf(row[r], tranche[r], Dot) \in {row[r].updated, tranche[r][1], tranche[r][2]}
    BY <1>1, <2>1, <2>2, StampBounds
  <2>4. NoTime \notin Before(now)
    BY <1>1, BeforeIsNat, PresenceAssumption
  <2>5. Stamp(Dot, r) = StampOf(row[r], tranche[r], Dot)
    BY StampMeans
  <2> QED
    BY <2>3, <2>4, <2>5 DEF Stamps
<1> QED
  BY <1>2 DEF IndInv, StampsAreOwned

\* The dots of a user are on listed requests, each with a stamp of its own.
LEMMA DotsAreStamped ==
  ASSUME IndInv, NEW u \in Users
  PROVE  /\ IsFiniteSet(Newer(u, Dot))
         /\ \A q \in Newer(u, Dot) : Stamp(Dot, q) \in Nat
         /\ \A p, q \in Newer(u, Dot) : p # q => Stamp(Dot, p) # Stamp(Dot, q)
<1>1. RowsOK /\ now \in Nat \ {0} /\ Dot \in Places
  BY DEF IndInv, TypeOK, Places
<1>2. \A q \in Newer(u, Dot) : q \in Requests /\ q \in Listed(Dot) /\ Lists(Dot, q, row[q].status)
  <2> TAKE q \in Newer(u, Dot)
  <2>1. q \in Items /\ Lists(Dot, q, row[q].status)
    BY <1>1, NewerMeans DEF IsNewer
  <2> QED
    BY <1>1, <2>1, ListedMeans DEF Lists, Dot
<1>3. IsFiniteSet(Newer(u, Dot))
  BY <1>2, FS_Subset, PresenceAssumption
<1>4. \A q \in Newer(u, Dot) : Stamp(Dot, q) \in Nat
  <2> TAKE q \in Newer(u, Dot)
  <2>1. /\ row[q] \in RequestRows(now) /\ tranche[q] \in [{1, 2} -> Time(now)] /\ q \notin Remarks
    BY <1>1, <1>2, PresenceAssumption DEF RowsOK
  <2>2. StampOf(row[q], tranche[q], Dot) \in Before(now)
    BY <1>1, <1>2, <2>1, StampBounds
  <2> QED
    BY <1>1, <2>2, BeforeIsNat, StampMeans
<1> QED
  BY <1>2, <1>3, <1>4, DotsApart

\* A request that is newer and not flagged has as many newer ones flagged as fit.
LEMMA CapIsFilled ==
  ASSUME IndInv, NEW u \in Users, NEW i \in Newer(u, Dot), i \notin Unseen(u)
  PROVE  Unseen_Max = Cardinality({q \in Unseen(u) : Stamp(Dot, q) > Stamp(Dot, i)})
<1> DEFINE N == Newer(u, Dot)
           st == [q \in N |-> Stamp(Dot, q)]
           A == {q \in N : st[q] > st[i]}
<1>1. /\ IsFiniteSet(N) /\ \A q \in N : st[q] \in Nat
      /\ \A p, q \in N : p # q => st[p] # st[q]
  BY DotsAreStamped
<1>2. Unseen(u) = {r \in N : Cardinality({q \in N : st[q] > st[r]}) < Unseen_Max}
  BY DEF Unseen
<1>3. {q \in Unseen(u) : Stamp(Dot, q) > Stamp(Dot, i)} = {q \in Unseen(u) : st[q] > st[i]}
  BY DEF Unseen
<1>4. i \in N /\ Unseen_Max \in Nat
  BY PresenceAssumption
<1> HIDE DEF N, st
<1>5. IsFiniteSet(A) /\ Cardinality(A) \in Nat
  <2>1. IsFiniteSet(A)
    BY <1>1, FS_Subset
  <2> QED
    BY <2>1, FS_CardinalityType
<1>6. Unseen_Max <= Cardinality(A)
  BY <1>2, <1>4, <1>5
<1>7. \A q \in A : {p \in N : st[p] > st[q]} = {p \in A : st[p] > st[q]}
  BY <1>1, <1>4
<1>8. /\ \A q \in A : st[q] \in Nat
      /\ \A p, q \in A : p # q => st[p] # st[q]
  BY <1>1
<1>9. {q \in Unseen(u) : st[q] > st[i]} =
        {q \in A : Cardinality({p \in A : st[p] > st[q]}) < Unseen_Max}
  BY <1>2, <1>7
<1> HIDE DEF A
<1>10. Cardinality({q \in A : Cardinality({p \in A : st[p] > st[q]}) < Unseen_Max}) = Unseen_Max
  BY <1>4, <1>5, <1>6, <1>8, NewestAreCounted
<1> QED
  BY <1>3, <1>9, <1>10

\* A change is flagged to everybody who may see it and has not looked since, unless
\* another transaction hid it or the answer is full of newer ones.
THEOREM ChangesReachEverybody == Spec => []ChangesAreFlagged
<1>1. ASSUME IndInv PROVE ChangesAreFlagged
  <2> SUFFICES ASSUME NEW u \in Users, NEW pair \in fresh[u] \ late[u],
                      pair[1] \in Listed(pair[2])
               PROVE  \/ pair[1] \in Flagged(u, pair[2])
                      \/ /\ pair[2] = Dot
                         /\ Unseen_Max =
                              Cardinality({q \in Unseen(u) : Stamp(Dot, q) > Stamp(Dot, pair[1])})
    BY DEF ChangesAreFlagged
  <2>1. PICK i \in Items, p \in Places : pair = <<i, p>>
    BY <1>1 DEF IndInv, TypeOK, HistoryOK
  <2>2. pair[1] = i /\ pair[2] = p
    BY <2>1
  <2>3. i \in Newer(u, p)
    BY <1>1, <2>1, <2>2 DEF IndInv, FreshIsNewer
  <2>4. CASE p # Dot
    BY <2>2, <2>3, <2>4 DEF Flagged
  <2>5. CASE p = Dot
    <3>1. CASE i \in Unseen(u)
      BY <2>2, <2>5, <3>1 DEF Flagged
    <3>2. CASE i \notin Unseen(u)
      BY <1>1, <2>2, <2>3, <2>5, <3>2, CapIsFilled
    <3> QED
      BY <3>1, <3>2
  <2> QED
    BY <2>4, <2>5
<1> QED
  BY <1>1, MarkersMatchStamps, PTL

================================================================================
