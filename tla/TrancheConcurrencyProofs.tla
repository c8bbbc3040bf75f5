------------------------ MODULE TrancheConcurrencyProofs ------------------------
(***************************************************************************)
(* Theorems about TrancheConcurrency, for any number of sessions, tranches *)
(* and amounts.  The argument: the place of a session in its handler says  *)
(* which row locks it owns; what it checked under a lock still holds when  *)
(* it commits, because only the owner of a lock commits to the row.        *)
(***************************************************************************)
EXTENDS TrancheConcurrency, Sums

\* A request row but for its deposit, which nothing here depends on.
IsRequest(r) ==
  r \in [status : RequestStatus, locked : BOOLEAN, deposit : {r.deposit}, marked : BOOLEAN]

Places ==
  {"idle", "read", "touched", "lockRequest", "lockRow", "count", "pick", "ceiling",
   "number", "insert", "reopen", "rows", "sum", "update", "siblings", "finish",
   "guard", "setStatus", "commit"}

\* The places of each handler.
PlacesOf(op) ==
  CASE op = "none" -> {"idle"}
    [] op = "pay" -> {"lockRequest", "lockRow", "count", "commit"}
    [] op = "bulk" -> {"read", "pick", "lockRow", "lockRequest", "count", "commit"}
    [] op = "edit" -> {"read", "touched", "lockRow", "ceiling", "sum", "update", "commit"}
    [] op = "add" -> {"read", "touched", "ceiling", "number", "insert", "reopen", "sum",
                      "update", "commit"}
    [] op = "delete" -> {"read", "touched", "lockRow", "rows", "sum", "update", "siblings",
                         "finish", "commit"}
    [] op \in {"reject", "cancel"} -> {"read", "lockRow", "sum", "update", "commit"}
    [] op = "details" -> {"read", "lockRow", "commit"}
    [] op = "transition" -> {"read", "guard", "setStatus", "commit"}

IsSession(me) ==
  /\ me \in [pc : Places, op : Ops \cup {"none"}, n : Nums, amount : Nat,
             target : RequestStatus \ {"payment_processed"},
             seen : {me.seen}, sum : {me.sum}, out : {me.out}]
  /\ IsRequest(me.seen) /\ IsRequest(me.out)
  /\ me.pc \in PlacesOf(me.op)
  /\ me.op = "transition" => me.target \in Targets

Types ==
  /\ TypeOK
  /\ IsRequest(req)
  /\ DOMAIN sess = Sessions
  /\ \A s \in Sessions : IsSession(sess[s])

\* Where a handler owns its tranche row (the key it inserts, for an add), and
\* what it knows of the row: bulk payments look at a stale object.
HoldsRow(me) ==
  \/ me.op = "pay" /\ me.pc \in {"count", "commit"}
  \/ me.op = "bulk" /\ me.pc \in {"lockRequest", "count", "commit"}
  \/ me.op = "edit" /\ me.pc \in {"ceiling", "sum", "update", "commit"}
  \/ me.op = "add" /\ me.pc \in {"reopen", "sum", "update", "commit"}
  \/ me.op = "delete" /\ me.pc \notin {"read", "touched", "lockRow"}
  \/ me.op \in {"reject", "cancel"} /\ me.pc \notin {"read", "lockRow"}
  \/ me.op = "details" /\ me.pc = "commit"

StatusesOf(op) ==
  CASE op = "add" -> {"none"}
    [] op = "bulk" -> {"unpaid", "paid", "rejected", "cancelled"}
    [] op = "cancel" -> {"unpaid"}
    [] OTHER -> {"unpaid", "cancelled"}

RowsHeld ==
  \A s \in Sessions : HoldsRow(sess[s]) =>
    /\ rowOwner[sess[s].n] = s
    /\ tr[sess[s].n].status \in StatusesOf(sess[s].op)

\* Where a handler owns the request row.
HoldsRequest(me) ==
  \/ me.op = "pay" /\ me.pc # "lockRequest"
  \/ me.op = "bulk" /\ me.pc \in {"count", "commit"}
  \/ me.op = "transition" /\ me.pc = "commit"

\* What a handler that owns the request row is going to make of it.
SameStanding(out) == out.status = req.status /\ out.locked = req.locked
Completes(out) ==
  out.status = "payment_processed" /\ out.locked /\ TriggerAllows(req.status, out.status)

OutOf(me) ==
  CASE me.op \in {"pay", "bulk"} ->
         /\ SameStanding(me.out) \/ (me.pc = "commit" /\ Completes(me.out))
         /\ me.op = "pay" => me.seen.status = req.status
    [] me.op = "delete" ->
         SameStanding(me.out) \/ (me.pc = "commit" /\ Completes(me.out))
    [] me.op \in {"edit", "reject", "cancel"} -> SameStanding(me.out)
    [] me.op = "add" ->
         \/ SameStanding(me.out)
         \/ /\ me.out.status = "pending_payment" /\ ~me.out.locked
            /\ TriggerAllows(req.status, "pending_payment")
    [] me.op = "transition" ->
         /\ me.pc = "commit"
         /\ me.out.status = me.target /\ me.out.locked = req.locked
         /\ TriggerAllows(req.status, me.target)
    [] OTHER -> FALSE

RequestHeld ==
  \A s \in Sessions :
    /\ HoldsRequest(sess[s]) => reqOwner = s
    /\ reqOwner = s => OutOf(sess[s])

\* A payment past its checks found the request in the queue.
PaysFromQueue ==
  \A s \in Sessions :
    sess[s].op = "pay" /\ sess[s].pc \in {"count", "commit"} =>
      sess[s].seen.status = "pending_payment"

IndInv == Types /\ RowsHeld /\ RequestHeld /\ PaysFromQueue /\ ProcessedIsLocked

--------------------------------------------------------------------------------
\* Strengthenings that hold for some of the calls only.

\* A committed payment is on the row, which no later one may then lock.
PaysOnce == \A n \in Nums : pays[n] <= 1 /\ (pays[n] = 1 => tr[n].status = "paid")

\* A tranche that is still to be dealt with keeps its file from being completed.
ToPay(t) == {n \in Nums : t[n].status \in {"unpaid", "rejected"}}
OpenHasToPay ==
  /\ req.status # "payment_processed" => ToPay(tr) # {}
  /\ \A n \in Nums : /\ tr[n].status # "cancelled"
                     /\ "bulk" \in Ops => tr[n].status # "rejected"
  /\ \A s \in Sessions :
       sess[s].op \in {"pay", "bulk"} /\ sess[s].pc = "commit"
         /\ sess[s].out.status # "payment_processed" => ToPay(tr) \ {sess[s].n} # {}

--------------------------------------------------------------------------------
\* The sums never matter here: LiveSum stays unexpanded.

\* Initially every session is idle and no lock is taken.
LEMMA InitIndInv == Init => IndInv
<1> SUFFICES ASSUME Init PROVE IndInv
  OBVIOUS
<1> USE DEF Init
<1>1. PICK k \in Nums, a \in [Nums -> Amounts], ready \in [Nums -> BOOLEAN] :
        tr = [n \in Nums |-> IF n <= k THEN [NewRow(a[n]) EXCEPT !.ready = ready[n]]
                                       ELSE NoRow]
  OBVIOUS
<1>2. \A n \in Nums : a[n] \in Nat
  BY ConstantsOK
<1>3. tr \in [Nums -> Row]
  BY <1>1, <1>2 DEF Row, NewRow, NoRow
<1>4. IsRequest(NoRequest) /\ IsRequest(req)
  BY DEF IsRequest, NoRequest, RequestStatus
<1>5. 1 \in Nums
  BY ConstantsOK DEF Nums
<1>6. IsSession(Idle)
  BY <1>4, <1>5 DEF IsSession, Idle, Places, PlacesOf, RequestStatus
<1>7. Types
  BY <1>3, <1>4, <1>5, <1>6 DEF Types, TypeOK, NoRequest, RequestStatus, Idle
<1>8. \A s \in Sessions : ~HoldsRow(sess[s]) /\ ~HoldsRequest(sess[s]) /\ reqOwner # s
  BY ConstantsOK DEF HoldsRow, HoldsRequest, Idle
<1> QED
  BY <1>7, <1>8 DEF IndInv, RowsHeld, RequestHeld, PaysFromQueue, ProcessedIsLocked,
                    Idle, NoRequest

\* A session that is idle is known to own nothing.
LEMMA IdleOwnsNothing ==
  /\ ~HoldsRow(Idle) /\ ~HoldsRequest(Idle) /\ Idle.op = "none" /\ Idle.pc = "idle"
  /\ 1 \in Nums => IsSession(Idle)
<1>1. IsRequest(NoRequest)
  BY DEF IsRequest, NoRequest, RequestStatus
<1> QED
  BY <1>1 DEF HoldsRow, HoldsRequest, Idle, IsSession, Places, PlacesOf, RequestStatus

\* A rollback gives everything back.
LEMMA RollbackIndInv ==
  ASSUME IndInv, NEW s \in Sessions, Rollback(s)
  PROVE  IndInv'
<1> USE DEF Rollback, Release
<1>1. 1 \in Nums
  BY ConstantsOK DEF Nums
<1>2. \A u \in Sessions : sess'[u] = IF u = s THEN Idle ELSE sess[u]
  BY DEF IndInv, Types
<1>3. Types'
  BY <1>1, <1>2, IdleOwnsNothing DEF IndInv, Types, TypeOK, IsSession
<1>4. RowsHeld'
  <2> SUFFICES ASSUME NEW u \in Sessions, HoldsRow(sess[u])'
               PROVE  /\ rowOwner'[sess'[u].n] = u
                      /\ tr'[sess'[u].n].status \in StatusesOf(sess'[u].op)
    BY DEF RowsHeld
  <2>1. u # s /\ sess'[u] = sess[u]
    BY <1>2, IdleOwnsNothing DEF HoldsRow
  <2>2. HoldsRow(sess[u])
    BY <2>1 DEF HoldsRow
  <2>3. rowOwner[sess[u].n] = u /\ tr[sess[u].n].status \in StatusesOf(sess[u].op)
    BY <2>2 DEF IndInv, RowsHeld
  <2> QED
    BY <2>1, <2>3 DEF IndInv, Types, TypeOK
<1>5. RequestHeld'
  <2> SUFFICES ASSUME NEW u \in Sessions
               PROVE  /\ HoldsRequest(sess[u])' => reqOwner' = u
                      /\ reqOwner' = u => OutOf(sess[u])'
    BY DEF RequestHeld
  <2>1. CASE u = s
    BY <2>1, <1>2, IdleOwnsNothing, ConstantsOK DEF HoldsRequest
  <2>2. CASE u # s
    <3>1. sess'[u] = sess[u]
      BY <2>2, <1>2
    <3>2. HoldsRequest(sess[u]) => reqOwner = u
      BY DEF IndInv, RequestHeld
    <3>3. reqOwner = u => OutOf(sess[u])
      BY DEF IndInv, RequestHeld
    <3>4. HoldsRequest(sess[u])' => reqOwner' = u
      BY <2>2, <3>1, <3>2 DEF HoldsRequest
    <3>5. OutOf(sess[u])' <=> OutOf(sess[u])
      BY <3>1 DEF OutOf, SameStanding, Completes
    <3> QED
      BY <2>2, <3>3, <3>4, <3>5, ConstantsOK
  <2> QED
    BY <2>1, <2>2
<1>6. PaysFromQueue'
  BY <1>2, IdleOwnsNothing DEF IndInv, PaysFromQueue
<1> QED
  BY <1>3, <1>4, <1>5, <1>6 DEF IndInv, ProcessedIsLocked

\* What a session must see to that it writes nothing but its own state, and
\* perhaps takes one free lock, without disturbing the others.
TakesRequest(s) == reqOwner' = reqOwner \/ (FreeToUpdate(s) /\ reqOwner' = s)
TakesRow(s) ==
  \/ rowOwner' = rowOwner
  \/ \E n \in Nums : RowFree(n) /\ rowOwner' = [rowOwner EXCEPT ![n] = s]
Fits(s, me, owner, owners) ==
  /\ IsSession(me)
  /\ HoldsRow(me) => /\ owners[me.n] = s
                     /\ tr[me.n].status \in StatusesOf(me.op)
  /\ HoldsRequest(me) => owner = s
  /\ owner = s => OutOf(me)
  /\ me.op = "pay" /\ me.pc \in {"count", "commit"} => me.seen.status = "pending_payment"

\* Such a step keeps the invariant.
LEMMA LocalStep ==
  ASSUME IndInv, NEW s \in Sessions, NEW me, Fits(s, me, reqOwner', rowOwner'),
         sess' = [sess EXCEPT ![s] = me], UNCHANGED <<req, tr, pays>>,
         TakesRequest(s), TakesRow(s)
  PROVE  IndInv'
<1>1. \A u \in Sessions : sess'[u] = IF u = s THEN me ELSE sess[u]
  BY DEF IndInv, Types
<1>2. reqOwner' \in Sessions \cup {NoSession}
      /\ rowOwner' \in [Nums -> Sessions \cup {NoSession}]
  BY DEF IndInv, Types, TypeOK, TakesRequest, TakesRow
<1>3. Types'
  <2>1. \A u \in Sessions : IsSession(sess'[u])
    BY <1>1 DEF IndInv, Types, Fits
  <2>2. \A u \in Sessions : sess'[u].n \in Nums
    BY <2>1 DEF IsSession
  <2> QED
    BY <1>2, <2>1, <2>2 DEF IndInv, Types, TypeOK
<1>4. RowsHeld'
  <2> SUFFICES ASSUME NEW u \in Sessions, HoldsRow(sess[u])'
               PROVE  /\ rowOwner'[sess'[u].n] = u
                      /\ tr'[sess'[u].n].status \in StatusesOf(sess'[u].op)
    BY DEF RowsHeld
  <2>1. CASE u = s
    <3>1. sess'[u] = me
      BY <2>1, <1>1
    <3>2. HoldsRow(me)
      BY <3>1 DEF HoldsRow
    <3> QED
      BY <2>1, <3>1, <3>2 DEF Fits
  <2>2. CASE u # s
    <3>1. sess'[u] = sess[u]
      BY <2>2, <1>1
    <3>2. HoldsRow(sess[u])
      BY <3>1 DEF HoldsRow
    <3>3. rowOwner[sess[u].n] = u /\ tr[sess[u].n].status \in StatusesOf(sess[u].op)
      BY <3>2 DEF IndInv, RowsHeld
    <3>4. sess[u].n \in Nums /\ u # NoSession
      BY ConstantsOK DEF IndInv, Types, TypeOK
    <3>5. rowOwner'[sess[u].n] = u
      BY <3>3, <3>4 DEF TakesRow, RowFree, IndInv, Types, TypeOK
    <3> QED
      BY <3>1, <3>3, <3>5
  <2> QED
    BY <2>1, <2>2
<1>5. RequestHeld'
  <2> SUFFICES ASSUME NEW u \in Sessions
               PROVE  /\ HoldsRequest(sess[u])' => reqOwner' = u
                      /\ reqOwner' = u => OutOf(sess[u])'
    BY DEF RequestHeld
  <2>1. CASE u = s
    <3>1. sess'[u] = me
      BY <2>1, <1>1
    <3>2. HoldsRequest(sess[u])' <=> HoldsRequest(me)
      BY <3>1 DEF HoldsRequest
    <3>3. OutOf(sess[u])' <=> OutOf(me)
      BY <3>1 DEF OutOf, SameStanding, Completes
    <3> QED
      BY <2>1, <3>2, <3>3 DEF Fits
  <2>2. CASE u # s
    <3>1. sess'[u] = sess[u]
      BY <2>2, <1>1
    <3>2. HoldsRequest(sess[u]) => reqOwner = u
      BY DEF IndInv, RequestHeld
    <3>3. reqOwner = u => OutOf(sess[u])
      BY DEF IndInv, RequestHeld
    <3>4. HoldsRequest(sess[u])' => reqOwner' = u
      BY <2>2, <3>1, <3>2, ConstantsOK DEF HoldsRequest, TakesRequest, FreeToUpdate
    <3>5. OutOf(sess[u])' <=> OutOf(sess[u])
      BY <3>1 DEF OutOf, SameStanding, Completes
    <3> QED
      BY <2>2, <3>3, <3>4, <3>5 DEF TakesRequest
  <2> QED
    BY <2>1, <2>2
<1>6. PaysFromQueue'
  BY <1>1 DEF IndInv, PaysFromQueue, Fits
<1> QED
  BY <1>3, <1>4, <1>5, <1>6 DEF IndInv, ProcessedIsLocked

\* A step that goes on without taking a lock.
LEMMA ContinueIndInv ==
  ASSUME IndInv, NEW s \in Sessions, NEW ok \in BOOLEAN, NEW me, Continue(s, ok, me),
         ok => Fits(s, me, reqOwner, rowOwner)
  PROVE  IndInv'
BY LocalStep, RollbackIndInv DEF Continue, TakesRequest, TakesRow

\* The same with the request row locked.
LEMMA WithRequestIndInv ==
  ASSUME IndInv, NEW s \in Sessions, NEW ok \in BOOLEAN, NEW me, WithRequest(s, ok, me),
         FreeToUpdate(s), ok => Fits(s, me, s, rowOwner)
  PROVE  IndInv'
BY LocalStep, RollbackIndInv DEF WithRequest, TakesRequest, TakesRow

\* What a session is, spelled out once for the steps below.
LEMMA SessionFacts ==
  ASSUME IndInv, NEW s \in Sessions
  PROVE  /\ IsSession(sess[s]) /\ IsRequest(req) /\ s # NoSession
         /\ Fits(s, sess[s], reqOwner, rowOwner)
         /\ tr[sess[s].n] \in Row /\ sess[s].n \in Nums
BY ConstantsOK DEF IndInv, Types, TypeOK, RowsHeld, RequestHeld, PaysFromQueue, Fits

\* A set of tranche numbers has a lowest one, which the bulk payment picks.
LEMMA LowestUnpaid ==
  ASSUME Unpaid(tr) # {}
  PROVE  (CHOOSE n \in Unpaid(tr) : \A m \in Unpaid(tr) : n <= m) \in Nums
<1>1. PICK k \in Unpaid(tr) : TRUE
  OBVIOUS
<1>2. Unpaid(tr) \subseteq Nat
  BY DEF Unpaid, Nums
<1>3. \A a, b \in Unpaid(tr) : <<a, b>> \in OpToRel(<, Nat) <=> a < b
  BY <1>2 DEF OpToRel
<1>4. PICK n \in Unpaid(tr) : \A m \in Unpaid(tr) : <<m, n>> \notin OpToRel(<, Nat)
  BY <1>1, <1>2, NatLessThanWellFounded, WFMin
<1>5. \A m \in Unpaid(tr) : n <= m
  <2> TAKE m \in Unpaid(tr)
  <2>1. ~ (m < n)
    BY <1>3, <1>4
  <2> QED
    BY <1>2, <2>1
<1> QED
  BY <1>4, <1>5 DEF Unpaid

\* A call comes in.
LEMMA BeginIndInv ==
  ASSUME IndInv, NEW s \in Sessions, Begin(s)
  PROVE  IndInv'
<1>1. PICK c \in Calls :
        sess' = [sess EXCEPT ![s] =
          [Idle EXCEPT !.op = c.op, !.n = c.n, !.amount = c.amount, !.target = c.target,
                       !.pc = IF c.op = "pay" THEN "lockRequest" ELSE "read"]]
  BY DEF Begin
<1> DEFINE me == [Idle EXCEPT !.op = c.op, !.n = c.n, !.amount = c.amount,
                   !.target = c.target,
                   !.pc = IF c.op = "pay" THEN "lockRequest" ELSE "read"]
<1>2. /\ c.op \in Ops /\ c.n \in Nums /\ c.amount \in Nat
      /\ c.target \in RequestStatus \ {"payment_processed"}
      /\ c.op = "transition" => c.target \in Targets
  <2>1. 1 \in Nums /\ "pending_payment" \in RequestStatus \ {"payment_processed"}
    BY ConstantsOK DEF Nums, RequestStatus
  <2>2. Amounts \cup {0} \subseteq Nat /\ Targets \subseteq RequestStatus \ {"payment_processed"}
    BY ConstantsOK
  <2>3. CASE c \in [op : Ops \cap {"transition"}, n : {1}, amount : {0}, target : Targets]
    BY <2>1, <2>2, <2>3
  <2>4. CASE c.op # "transition" /\
             c \in [op : Ops, n : Nums, amount : Amounts \cup {0}, target : {"pending_payment"}]
    <3>1. /\ c.op \in Ops /\ c.n \in Nums /\ c.amount \in Amounts \cup {0}
          /\ c.target = "pending_payment" /\ c.op # "transition"
      BY <2>4
    <3> QED
      BY <2>1, <2>2, <3>1
  <2> QED
    BY <2>1, <2>3, <2>4 DEF Calls
<1>3. IsRequest(NoRequest)
  BY DEF IsRequest, NoRequest, RequestStatus
<1>4. me.pc = (IF c.op = "pay" THEN "lockRequest" ELSE "read")
      /\ me.op = c.op /\ me.n = c.n /\ me.amount = c.amount /\ me.target = c.target
      /\ me.seen = NoRequest /\ me.out = NoRequest
      /\ me \in [pc : {me.pc}, op : {me.op}, n : {me.n}, amount : {me.amount},
                 target : {me.target}, seen : {me.seen}, sum : {me.sum}, out : {me.out}]
  BY DEF Idle
<1> HIDE DEF me
<1>5. IsSession(me)
  BY <1>2, <1>3, <1>4, ConstantsOK DEF IsSession, Places, PlacesOf
<1>6. sess[s].op = "none"
  BY SessionFacts, ConstantsOK DEF Begin, IsSession, PlacesOf
<1>7. reqOwner # s
  BY <1>6, SessionFacts DEF Fits, OutOf
<1>8. ~HoldsRow(me) /\ ~HoldsRequest(me)
  BY <1>2, <1>4 DEF HoldsRow, HoldsRequest
<1>9. Fits(s, me, reqOwner, rowOwner)
  BY <1>4, <1>5, <1>7, <1>8 DEF Fits
<1> QED
  BY <1>1, <1>9, LocalStep DEF Begin, TakesRequest, TakesRow, me

\* The statements that read, compute and go on without a lock.
LEMMA ReadsIndInv ==
  ASSUME IndInv, NEW s \in Sessions,
         \/ ReadRequest(s) \/ CheckTouched(s) \/ CheckCeiling(s) \/ NextNumber(s)
         \/ CountRows(s) \/ SumTranches(s) \/ CheckSiblings(s) \/ CountUnpaid(s)
         \/ PickTranche(s) \/ CheckTranches(s)
  PROVE  IndInv'
<1> DEFINE me == sess[s]
<1>0. /\ IsSession(me) /\ IsRequest(req) /\ Fits(s, me, reqOwner, rowOwner)
      /\ me.n \in Nums /\ tr[me.n] \in Row
  BY SessionFacts
<1> HIDE DEF me
<1>1. CASE ReadRequest(s)
  <2> DEFINE next == CASE me.op \in {"edit", "delete"} -> "touched"
                       [] me.op = "add" ->
                            IF req.status = "payment_processed" THEN "ceiling" ELSE "touched"
                       [] me.op \in {"reject", "cancel", "details"} -> "lockRow"
                       [] me.op = "transition" -> "guard"
                       [] me.op = "bulk" -> "pick"
             new == [me EXCEPT !.pc = next, !.seen = req]
  <2>1. me.pc = "read" /\ Continue(s, MayStart(me, req), new)
    BY <1>1 DEF ReadRequest, me
  <2>2. me.op \in {"edit", "delete", "add", "reject", "cancel", "details", "transition", "bulk"}
    BY <1>0, <2>1, ConstantsOK DEF IsSession, PlacesOf
  <2>3. MayStart(me, req) \in BOOLEAN
    BY <2>2 DEF MayStart
  <2>4. Fits(s, new, reqOwner, rowOwner)
    <3>1. next \in PlacesOf(me.op) /\ next \in Places /\ next # "commit"
      BY <2>2 DEF Places, PlacesOf
    <3>2. /\ me.op \in {"edit", "delete"} => next = "touched"
          /\ me.op \in {"reject", "cancel"} => next = "lockRow"
          /\ me.op \in {"add", "bulk"} => next \in {"touched", "ceiling", "pick"}
          /\ me.op # "pay"
      BY <2>2
    <3> HIDE DEF next
    <3>3. IsSession(new)
      BY <1>0, <3>1 DEF IsSession
    <3>4. new.op = me.op /\ new.pc = next /\ new.out = me.out
      BY <1>0 DEF IsSession
    <3>5. ~HoldsRow(new) /\ ~HoldsRequest(new)
      BY <3>1, <3>2, <3>4 DEF HoldsRow, HoldsRequest
    <3>6. reqOwner = s => OutOf(new)
      BY <1>0, <2>1, <2>2, <3>4 DEF Fits, OutOf
    <3> QED
      BY <3>2, <3>3, <3>4, <3>5, <3>6 DEF Fits
  <2> QED
    BY <2>1, <2>3, <2>4, ContinueIndInv
<1>2. CASE CheckTouched(s)
  <2> DEFINE new == [me EXCEPT !.pc = IF me.op = "add" THEN "ceiling" ELSE "lockRow"]
  <2>1. me.pc = "touched" /\ \E ok \in BOOLEAN : Continue(s, ok, new)
    BY <1>2 DEF CheckTouched, me
  <2>2. me.op \in {"edit", "delete", "add"}
    BY <1>0, <2>1, ConstantsOK DEF IsSession, PlacesOf
  <2>3. IsSession(new)
    BY <1>0, <2>2 DEF IsSession, Places, PlacesOf
  <2>4. Fits(s, new, reqOwner, rowOwner)
    BY <1>0, <2>1, <2>2, <2>3 DEF Fits, IsSession, HoldsRow, HoldsRequest, OutOf
  <2> QED
    BY <2>1, <2>4, ContinueIndInv
<1>3. CASE CheckCeiling(s)
  <2> DEFINE new == [me EXCEPT !.pc = IF me.op = "edit" THEN "sum" ELSE "number"]
  <2>1. me.pc = "ceiling" /\ \E ok \in BOOLEAN : Continue(s, ok, new)
    <3> DEFINE before == IF me.op = "edit" THEN tr[me.n].amount ELSE 0
               fits == LiveSum(tr) + me.amount <= Total + before
    <3>1. me.pc = "ceiling" /\ Continue(s, fits, new)
      BY <1>3 DEF CheckCeiling, me
    <3>2. Continue(s, TRUE, new) \/ Continue(s, FALSE, new)
      BY <3>1, Zenon DEF Continue
    <3> QED
      BY <3>1, <3>2
  <2>2. me.op \in {"edit", "add"}
    BY <1>0, <2>1, ConstantsOK DEF IsSession, PlacesOf
  <2>3. IsSession(new)
    BY <1>0, <2>2 DEF IsSession, Places, PlacesOf
  <2>4. Fits(s, new, reqOwner, rowOwner)
    BY <1>0, <2>1, <2>2, <2>3 DEF Fits, IsSession, HoldsRow, HoldsRequest, OutOf
  <2> QED
    BY <2>1, <2>4, ContinueIndInv
<1>4. CASE NextNumber(s)
  <2>1. PICK n \in 1..(MaxTranches + 1) :
          me.pc = "number" /\ Continue(s, n <= MaxTranches, [me EXCEPT !.pc = "insert", !.n = n])
    BY <1>4 DEF NextNumber, me
  <2> DEFINE new == [me EXCEPT !.pc = "insert", !.n = n]
  <2>2. me.op = "add"
    BY <1>0, <2>1, ConstantsOK DEF IsSession, PlacesOf
  <2>3. ASSUME n <= MaxTranches PROVE Fits(s, new, reqOwner, rowOwner)
    <3>1. n \in Nums
      BY <2>3, ConstantsOK DEF Nums
    <3>2. IsSession(new)
      BY <1>0, <2>2, <3>1 DEF IsSession, Places, PlacesOf
    <3> QED
      BY <1>0, <2>1, <2>2, <3>2 DEF Fits, IsSession, HoldsRow, HoldsRequest, OutOf
  <2>4. (n <= MaxTranches) \in BOOLEAN
    BY ConstantsOK
  <2> QED
    BY <2>1, <2>3, <2>4, ContinueIndInv
<1>5. CASE CountRows(s)
  <2> DEFINE new == [me EXCEPT !.pc = "sum"]
  <2>1. me.pc = "rows" /\ \E ok \in BOOLEAN : Continue(s, ok, new)
    BY <1>5 DEF CountRows, me
  <2>2. me.op = "delete"
    BY <1>0, <2>1, ConstantsOK DEF IsSession, PlacesOf
  <2>3. IsSession(new)
    BY <1>0, <2>2 DEF IsSession, Places, PlacesOf
  <2>4. Fits(s, new, reqOwner, rowOwner)
    BY <1>0, <2>1, <2>2, <2>3 DEF Fits, IsSession, HoldsRow, HoldsRequest, OutOf
  <2> QED
    BY <2>1, <2>4, ContinueIndInv
<1>6. CASE SumTranches(s)
  <2> DEFINE total == LiveSum(View(s))
             next == IF me.op = "delete" THEN "siblings" ELSE "commit"
             new == [me EXCEPT !.sum = total,
                               !.pc = IF total = me.seen.deposit THEN next ELSE "update"]
  <2>1. me.pc = "sum" /\ Continue(s, TRUE, new)
    BY <1>6 DEF SumTranches, me
  <2> HIDE DEF total
  <2>2. me.op \in {"edit", "add", "delete", "reject", "cancel"}
    BY <1>0, <2>1, ConstantsOK DEF IsSession, PlacesOf
  <2>3. IsSession(new)
    BY <1>0, <2>2 DEF IsSession, Places, PlacesOf
  <2>4. Fits(s, new, reqOwner, rowOwner)
    BY <1>0, <2>1, <2>2, <2>3 DEF Fits, IsSession, HoldsRow, HoldsRequest, OutOf
  <2> QED
    BY <2>1, <2>4, ContinueIndInv
<1>7. CASE CheckSiblings(s)
  <2>1. me.pc = "siblings" /\ \E p \in {"finish", "commit"} : Continue(s, TRUE, [me EXCEPT !.pc = p])
    BY <1>7 DEF CheckSiblings, me
  <2>2. PICK p \in {"finish", "commit"} : Continue(s, TRUE, [me EXCEPT !.pc = p])
    BY <2>1
  <2> DEFINE new == [me EXCEPT !.pc = p]
  <2>3. me.op = "delete"
    BY <1>0, <2>1, ConstantsOK DEF IsSession, PlacesOf
  <2>4. IsSession(new)
    BY <1>0, <2>3 DEF IsSession, Places, PlacesOf
  <2>5. Fits(s, new, reqOwner, rowOwner)
    BY <1>0, <2>1, <2>3, <2>4 DEF Fits, IsSession, HoldsRow, HoldsRequest, OutOf
  <2> QED
    BY <2>2, <2>5, ContinueIndInv
<1>8. CASE CountUnpaid(s)
  <2> DEFINE final == \E n \in Nums : Unpaid(tr) = {n}
             out == IF final THEN Completed(me.out) ELSE me.out
             new == [me EXCEPT !.pc = "commit", !.out = out]
             ok == final => TriggerAllows(me.out.status, "payment_processed")
  <2>1. me.pc = "count" /\ Continue(s, ok, new)
    BY <1>8 DEF CountUnpaid, me
  <2>2. me.op \in {"pay", "bulk"}
    BY <1>0, <2>1, ConstantsOK DEF IsSession, PlacesOf
  <2>3. reqOwner = s /\ SameStanding(me.out) /\ IsRequest(me.out)
    BY <1>0, <2>1, <2>2 DEF Fits, HoldsRequest, OutOf, IsSession
  <2>4. IsRequest(Completed(me.out)) /\ Completed(me.out).status = "payment_processed"
        /\ Completed(me.out).locked
    BY <2>3 DEF IsRequest, Completed, RequestStatus
  <2>5. ok => SameStanding(out) \/ Completes(out)
    BY <2>3, <2>4 DEF SameStanding, Completes
  <2>6. IsRequest(out)
    BY <2>3, <2>4
  <2>7. ok \in BOOLEAN
    OBVIOUS
  <2> HIDE DEF out, ok
  <2>8. IsSession(new)
    BY <1>0, <2>2, <2>6 DEF IsSession, Places, PlacesOf
  <2>9. ok => Fits(s, new, reqOwner, rowOwner)
    BY <1>0, <2>1, <2>2, <2>3, <2>5, <2>8
       DEF Fits, IsSession, HoldsRow, HoldsRequest, OutOf
  <2> QED
    BY <2>1, <2>7, <2>9, ContinueIndInv
<1>9. CASE PickTranche(s)
  <2> DEFINE first == CHOOSE n \in Unpaid(tr) : \A m \in Unpaid(tr) : n <= m
             found == Unpaid(tr) # {}
             n0 == IF found THEN first ELSE 1
             new == [me EXCEPT !.pc = "lockRow", !.n = n0]
  <2>1. me.pc = "pick" /\ \E ok \in BOOLEAN : (ok => found) /\ Continue(s, ok, new)
    BY <1>9 DEF PickTranche, me
  <2>2. PICK ok \in BOOLEAN : (ok => found) /\ Continue(s, ok, new)
    BY <2>1
  <2>3. me.op = "bulk"
    BY <1>0, <2>1, ConstantsOK DEF IsSession, PlacesOf
  <2>4. found => n0 \in Nums
    BY LowestUnpaid
  <2> HIDE DEF n0
  <2>5. found => IsSession(new)
    BY <1>0, <2>3, <2>4 DEF IsSession, Places, PlacesOf
  <2>6. found => Fits(s, new, reqOwner, rowOwner)
    BY <1>0, <2>1, <2>3, <2>5 DEF Fits, IsSession, HoldsRow, HoldsRequest, OutOf
  <2> QED
    BY <2>2, <2>6, ContinueIndInv
<1>10. CASE CheckTranches(s)
  <2> DEFINE new == [me EXCEPT !.pc = "setStatus"]
  <2>1. me.pc = "guard" /\ \E ok \in BOOLEAN : Continue(s, ok, new)
    BY <1>10 DEF CheckTranches, me
  <2>2. me.op = "transition"
    BY <1>0, <2>1, ConstantsOK DEF IsSession, PlacesOf
  <2>3. IsSession(new)
    BY <1>0, <2>2 DEF IsSession, Places, PlacesOf
  <2>4. Fits(s, new, reqOwner, rowOwner)
    BY <1>0, <2>1, <2>2, <2>3 DEF Fits, IsSession, HoldsRow, HoldsRequest, OutOf
  <2> QED
    BY <2>1, <2>4, ContinueIndInv
<1> QED
  BY <1>1, <1>2, <1>3, <1>4, <1>5, <1>6, <1>7, <1>8, <1>9, <1>10

\* The statements that lock the request row, or write it.
LEMMA RequestStepsIndInv ==
  ASSUME IndInv, NEW s \in Sessions,
         LockRequest(s) \/ Reopen(s) \/ UpdateTotals(s) \/ Finish(s) \/ SetStatus(s)
  PROVE  IndInv'
<1> DEFINE me == sess[s]
<1>0. /\ IsSession(me) /\ IsRequest(req) /\ Fits(s, me, reqOwner, rowOwner)
      /\ me.n \in Nums /\ tr[me.n] \in Row /\ s # NoSession
  BY SessionFacts
<1> HIDE DEF me
<1>1. CASE LockRequest(s) /\ me.op = "pay"
  <2> DEFINE new == [me EXCEPT !.pc = "lockRow", !.seen = req, !.out = req]
  <2>1. me.pc = "lockRequest" /\ FreeToUpdate(s) /\ WithRequest(s, TRUE, new)
    BY <1>1 DEF LockRequest, me, FreeToLock, FreeToUpdate
  <2>2. IsSession(new)
    BY <1>0, <1>1 DEF IsSession, Places, PlacesOf
  <2>3. Fits(s, new, s, rowOwner)
    BY <1>0, <1>1, <2>1, <2>2
       DEF Fits, IsSession, HoldsRow, HoldsRequest, OutOf, SameStanding
  <2> QED
    BY <2>1, <2>3, WithRequestIndInv
<1>2. CASE LockRequest(s) /\ me.op # "pay"
  <2> DEFINE new == [me EXCEPT !.pc = "count", !.out = req]
  <2>1. me.pc = "lockRequest" /\ FreeToUpdate(s)
        /\ \E ok \in BOOLEAN : WithRequest(s, ok, new)
    BY <1>2 DEF LockRequest, me, FreeToLock, FreeToUpdate
  <2>2. me.op = "bulk"
    BY <1>0, <1>2, <2>1, ConstantsOK DEF IsSession, PlacesOf
  <2>3. IsSession(new)
    BY <1>0, <2>2 DEF IsSession, Places, PlacesOf
  <2>4. Fits(s, new, s, rowOwner)
    BY <1>0, <2>1, <2>2, <2>3
       DEF Fits, IsSession, HoldsRow, HoldsRequest, OutOf, SameStanding
  <2> QED
    BY <2>1, <2>4, WithRequestIndInv
<1>3. CASE Reopen(s)
  <2> DEFINE out == [req EXCEPT !.status = "pending_payment", !.locked = FALSE,
                                !.marked = FALSE]
             new == [me EXCEPT !.pc = "sum", !.out = out]
             ok == TriggerAllows(req.status, "pending_payment")
  <2>1. me.pc = "reopen" /\ FreeToUpdate(s) /\ WithRequest(s, ok, new)
    BY <1>3 DEF Reopen, me
  <2>2. me.op = "add"
    BY <1>0, <2>1, ConstantsOK DEF IsSession, PlacesOf
  <2>3. IsRequest(out) /\ out.status = "pending_payment" /\ ~out.locked
    BY <1>0 DEF IsRequest, RequestStatus
  <2>4. ok \in BOOLEAN
    BY DEF TriggerAllows
  <2> HIDE DEF out
  <2>5. IsSession(new)
    BY <1>0, <2>2, <2>3 DEF IsSession, Places, PlacesOf
  <2>6. ok => Fits(s, new, s, rowOwner)
    BY <1>0, <2>1, <2>2, <2>3, <2>5 DEF Fits, IsSession, HoldsRow, HoldsRequest, OutOf
  <2> QED
    BY <2>1, <2>4, <2>6, WithRequestIndInv
<1>4. CASE UpdateTotals(s)
  <2> DEFINE out == [Current(s) EXCEPT !.deposit = me.sum]
             new == [me EXCEPT !.pc = IF me.op = "delete" THEN "siblings" ELSE "commit",
                               !.out = out]
  <2>1. me.pc = "update" /\ FreeToUpdate(s) /\ WithRequest(s, TRUE, new)
    BY <1>4 DEF UpdateTotals, me
  <2>2. me.op \in {"edit", "add", "delete", "reject", "cancel"}
    BY <1>0, <2>1, ConstantsOK DEF IsSession, PlacesOf
  <2>3. Current(s) = (IF reqOwner = s THEN me.out ELSE req) /\ IsRequest(Current(s))
    BY <1>0 DEF Current, IsSession, me
  <2>4. /\ IsRequest(out) /\ out.status = Current(s).status
        /\ out.locked = Current(s).locked
    BY <2>3 DEF IsRequest
  <2>5. SameStanding(req)
    BY DEF SameStanding
  <2>6. SameStanding(out) \/ (me.op = "add" /\ out.status = "pending_payment" /\ ~out.locked
                               /\ TriggerAllows(req.status, "pending_payment"))
    BY <1>0, <2>1, <2>2, <2>3, <2>4 DEF Fits, OutOf, SameStanding
  <2> HIDE DEF out
  <2>7. IsSession(new)
    BY <1>0, <2>2, <2>4 DEF IsSession, Places, PlacesOf
  <2>8. Fits(s, new, s, rowOwner)
    BY <1>0, <2>1, <2>2, <2>6, <2>7 DEF Fits, IsSession, HoldsRow, HoldsRequest, OutOf
  <2> QED
    BY <2>1, <2>8, WithRequestIndInv
<1>5. CASE Finish(s)
  <2> DEFINE out == Completed(Current(s))
             new == [me EXCEPT !.pc = "commit", !.out = out]
             ok == TriggerAllows(Current(s).status, "payment_processed")
  <2>1. me.pc = "finish" /\ FreeToUpdate(s) /\ WithRequest(s, ok, new)
    BY <1>5 DEF Finish, me
  <2>2. me.op = "delete"
    BY <1>0, <2>1, ConstantsOK DEF IsSession, PlacesOf
  <2>3. Current(s) = (IF reqOwner = s THEN me.out ELSE req) /\ IsRequest(Current(s))
    BY <1>0 DEF Current, IsSession, me
  <2>4. IsRequest(out) /\ out.status = "payment_processed" /\ out.locked
    BY <2>3 DEF IsRequest, Completed, RequestStatus
  <2>5. Current(s).status = req.status
    BY <1>0, <2>1, <2>2, <2>3 DEF Fits, OutOf, SameStanding
  <2>6. ok \in BOOLEAN
    BY DEF TriggerAllows
  <2>7. ok => Completes(out)
    BY <2>4, <2>5 DEF Completes
  <2> HIDE DEF out, ok
  <2>8. IsSession(new)
    BY <1>0, <2>2, <2>4 DEF IsSession, Places, PlacesOf
  <2>9. ok => Fits(s, new, s, rowOwner)
    BY <1>0, <2>1, <2>2, <2>7, <2>8 DEF Fits, IsSession, HoldsRow, HoldsRequest, OutOf
  <2> QED
    BY <2>1, <2>6, <2>9, WithRequestIndInv
<1>6. CASE SetStatus(s)
  <2> DEFINE out == [req EXCEPT !.status = me.target]
             new == [me EXCEPT !.pc = "commit", !.out = out]
             ok == TriggerAllows(req.status, me.target)
  <2>1. me.pc = "setStatus" /\ FreeToUpdate(s) /\ WithRequest(s, ok, new)
    BY <1>6 DEF SetStatus, me
  <2>2. me.op = "transition"
    BY <1>0, <2>1, ConstantsOK DEF IsSession, PlacesOf
  <2>3. IsRequest(out) /\ out.status = me.target /\ out.locked = req.locked
    BY <1>0 DEF IsRequest, IsSession
  <2>4. ok \in BOOLEAN
    BY DEF TriggerAllows
  <2> HIDE DEF out
  <2>5. IsSession(new)
    BY <1>0, <2>2, <2>3 DEF IsSession, Places, PlacesOf
  <2>6. ok => Fits(s, new, s, rowOwner)
    BY <1>0, <2>1, <2>2, <2>3, <2>5 DEF Fits, IsSession, HoldsRow, HoldsRequest, OutOf
  <2> QED
    BY <2>1, <2>4, <2>6, WithRequestIndInv
<1> QED
  BY <1>1, <1>2, <1>3, <1>4, <1>5, <1>6

\* The statements that lock a tranche row or insert its key.
LEMMA RowStepsIndInv ==
  ASSUME IndInv, NEW s \in Sessions, LockRow(s) \/ Insert(s)
  PROVE  IndInv'
<1> DEFINE me == sess[s]
<1>0. /\ IsSession(me) /\ IsRequest(req) /\ Fits(s, me, reqOwner, rowOwner)
      /\ me.n \in Nums /\ tr[me.n] \in Row
  BY SessionFacts
<1>T. TypeOK /\ s \in DOMAIN sess
  BY DEF IndInv, Types
<1> HIDE DEF me
<1>1. CASE LockRow(s)
  <2> DEFINE next == CASE me.op = "pay" -> "count"
                       [] me.op = "bulk" -> "lockRequest"
                       [] me.op = "edit" -> "ceiling"
                       [] me.op = "delete" -> "rows"
                       [] me.op \in {"reject", "cancel"} -> "sum"
                       [] me.op = "details" -> "commit"
             new == [me EXCEPT !.pc = next]
  <2>1. CASE Rollback(s)
    BY <2>1, RollbackIndInv
  <2>2. CASE ~Rollback(s)
    <3>1. /\ me.pc = "lockRow" /\ RowFree(me.n) /\ RowAllows(me, tr[me.n])
          /\ rowOwner' = [rowOwner EXCEPT ![me.n] = s]
          /\ sess' = [sess EXCEPT ![s] = new]
          /\ UNCHANGED <<req, tr, pays, reqOwner>>
      BY <1>1, <2>2, <1>T DEF LockRow, me
    <3>2. me.op \in {"pay", "bulk", "edit", "delete", "reject", "cancel", "details"}
      BY <1>0, <3>1, ConstantsOK DEF IsSession, PlacesOf
    <3>3. IsSession(new)
      BY <1>0, <3>2 DEF IsSession, Places, PlacesOf
    <3>4. tr[me.n].status \in StatusesOf(me.op)
      BY <1>0, <3>1, <3>2 DEF RowAllows, StatusesOf, Row
    <3>5. rowOwner'[me.n] = s
      BY <1>0, <3>1, <1>T DEF TypeOK
    <3>6. me.op = "pay" => me.seen.status = "pending_payment"
      BY <3>1 DEF RowAllows
    <3>7. Fits(s, new, reqOwner', rowOwner')
      BY <1>0, <3>1, <3>2, <3>3, <3>4, <3>5, <3>6
         DEF Fits, IsSession, HoldsRow, HoldsRequest, OutOf
    <3>8. TakesRequest(s) /\ TakesRow(s)
      BY <1>0, <3>1 DEF TakesRequest, TakesRow
    <3> QED
      BY <3>1, <3>7, <3>8, LocalStep
  <2> QED
    BY <2>1, <2>2
<1>2. CASE Insert(s)
  <2> DEFINE new == [me EXCEPT !.pc =
                       IF me.seen.status = "payment_processed" THEN "reopen" ELSE "sum"]
  <2>1. CASE Rollback(s)
    BY <2>1, RollbackIndInv
  <2>2. CASE ~Rollback(s)
    <3>1. /\ me.pc = "insert" /\ RowFree(me.n) /\ tr[me.n].status = "none"
          /\ rowOwner' = [rowOwner EXCEPT ![me.n] = s]
          /\ sess' = [sess EXCEPT ![s] = new]
          /\ UNCHANGED <<req, tr, pays, reqOwner>>
      BY <1>2, <2>2, <1>T DEF Insert, RowFree, me
    <3>2. me.op = "add"
      BY <1>0, <3>1, ConstantsOK DEF IsSession, PlacesOf
    <3>3. IsSession(new)
      BY <1>0, <3>2 DEF IsSession, Places, PlacesOf
    <3>4. tr[me.n].status \in StatusesOf(me.op)
      BY <3>1, <3>2 DEF StatusesOf
    <3>5. rowOwner'[me.n] = s
      BY <1>0, <3>1, <1>T DEF TypeOK
    <3>6. Fits(s, new, reqOwner', rowOwner')
      BY <1>0, <3>1, <3>2, <3>3, <3>4, <3>5 DEF Fits, IsSession, HoldsRow, HoldsRequest, OutOf
    <3>7. TakesRequest(s) /\ TakesRow(s)
      BY <1>0, <3>1 DEF TakesRequest, TakesRow
    <3> QED
      BY <3>1, <3>6, <3>7, LocalStep
  <2> QED
    BY <2>1, <2>2
<1> QED
  BY <1>1, <1>2

\* What a commit does to the rows: nothing for a transition, else it replaces the
\* row whose lock it owns and whose status it knows.
StatusWritten(op, old) ==
  CASE op \in {"pay", "bulk"} -> "paid"
    [] op = "add" -> "unpaid"
    [] op = "delete" -> "none"
    [] op = "reject" -> "rejected"
    [] op = "cancel" -> "cancelled"
    [] OTHER -> old

\* A commit writes the status of the file if it owned that row, and otherwise one tranche row:
\* the row its session has locked, in a status the operation accepts.
LEMMA CommitWrites ==
  ASSUME IndInv, NEW s \in Sessions, Commit(s)
  PROVE  /\ req' = IF reqOwner = s THEN sess[s].out ELSE req
         /\ sess[s].op = "transition" => tr' = tr
         /\ sess[s].op # "transition" =>
              /\ sess[s].op \in Ops
              /\ rowOwner[sess[s].n] = s
              /\ tr[sess[s].n].status \in StatusesOf(sess[s].op)
              /\ WrittenRow(s) \in Row
              /\ tr' = [tr EXCEPT ![sess[s].n] = WrittenRow(s)]
              /\ WrittenRow(s).status = StatusWritten(sess[s].op, tr[sess[s].n].status)
              /\ sess[s].op \in {"pay", "bulk", "reject", "cancel", "details"} =>
                   WrittenRow(s).amount = tr[sess[s].n].amount
<1> DEFINE me == sess[s]
<1>0. /\ IsSession(me) /\ Fits(s, me, reqOwner, rowOwner)
      /\ me.n \in Nums /\ tr[me.n] \in Row
  BY SessionFacts
<1> HIDE DEF me
<1>1. me.pc = "commit" /\ req' = (IF reqOwner = s THEN me.out ELSE req) /\ tr' = View(s)
  BY DEF Commit, Current, me
<1>2. me.op \in {"pay", "bulk", "edit", "add", "delete", "reject", "cancel", "details",
                 "transition"}
      /\ me.op \in Ops
  BY <1>0, <1>1, ConstantsOK DEF IsSession, PlacesOf
<1>3. CASE me.op = "transition"
  BY <1>1, <1>3 DEF View, Written, me
<1>4. CASE me.op # "transition"
  <2>1. tr' = [tr EXCEPT ![me.n] = WrittenRow(s)]
    BY <1>1, <1>4 DEF View, Written, me
  <2>2. HoldsRow(me)
    BY <1>1, <1>2, <1>4 DEF HoldsRow
  <2>3. rowOwner[me.n] = s /\ tr[me.n].status \in StatusesOf(me.op)
    BY <1>0, <2>2 DEF Fits
  <2>4. me.amount \in Nat
    BY <1>0 DEF IsSession
  <2>5. /\ WrittenRow(s) \in Row
        /\ WrittenRow(s).status = StatusWritten(me.op, tr[me.n].status)
        /\ me.op \in {"pay", "bulk", "reject", "cancel", "details"} =>
             WrittenRow(s).amount = tr[me.n].amount
    BY <1>0, <1>2, <1>4, <2>4 DEF WrittenRow, StatusWritten, Row, NewRow, NoRow, me
  <2> QED
    BY <1>1, <1>2, <1>4, <2>1, <2>3, <2>5 DEF me
<1> QED
  BY <1>1, <1>3, <1>4 DEF me

\* A commit, which releases every row of its session, keeps the invariant.
LEMMA CommitIndInv ==
  ASSUME IndInv, NEW s \in Sessions, Commit(s)
  PROVE  IndInv'
<1> DEFINE me == sess[s]
<1>0. /\ IsSession(me) /\ IsRequest(req) /\ Fits(s, me, reqOwner, rowOwner)
      /\ me.n \in Nums /\ tr[me.n] \in Row
  BY SessionFacts
<1>1. /\ me.pc = "commit"
      /\ reqOwner' = IF reqOwner = s THEN NoSession ELSE reqOwner
      /\ rowOwner' = [n \in Nums |-> IF rowOwner[n] = s THEN NoSession ELSE rowOwner[n]]
  BY DEF Commit, Release
<1>2. \A u \in Sessions : sess'[u] = IF u = s THEN Idle ELSE sess[u]
  BY DEF Commit, Release, IndInv, Types
<1>3. req' = IF reqOwner = s THEN me.out ELSE req
  BY CommitWrites
<1>4. Types'
  <2>1. tr' \in [Nums -> Row]
    BY <1>0, CommitWrites DEF IndInv, Types, TypeOK
  <2>2. IsRequest(req')
    BY <1>0, <1>3 DEF IsSession
  <2>3. pays' \in [Nums -> 0..2]
    <3>1. ASSUME NEW n \in Nums
          PROVE  [pays EXCEPT ![n] = IF @ = 2 THEN 2 ELSE @ + 1] \in [Nums -> 0..2]
      BY DEF IndInv, Types, TypeOK
    <3>2. ASSUME NEW n \in Nums PROVE [pays EXCEPT ![n] = 0] \in [Nums -> 0..2]
      BY DEF IndInv, Types, TypeOK
    <3> QED
      BY <1>0, <3>1, <3>2 DEF Commit, IndInv, Types, TypeOK
  <2>4. 1 \in Nums
    BY ConstantsOK DEF Nums
  <2>5. DOMAIN sess' = Sessions /\ \A u \in Sessions : IsSession(sess'[u])
    BY <1>2, <2>4, IdleOwnsNothing DEF Commit, Release, IndInv, Types
  <2>6. \A u \in Sessions : sess'[u].n \in Nums
    BY <2>5 DEF IsSession
  <2>7. reqOwner' \in Sessions \cup {NoSession}
        /\ rowOwner' \in [Nums -> Sessions \cup {NoSession}]
    BY <1>1 DEF IndInv, Types, TypeOK
  <2>8. IsRequest(req)'
    BY <2>2 DEF IsRequest
  <2>9. \A u \in Sessions : IsSession(sess[u])'
    BY <2>5 DEF IsSession, IsRequest
  <2> QED
    BY <2>1, <2>2, <2>3, <2>5, <2>6, <2>7, <2>8, <2>9 DEF Types, TypeOK, IsRequest
<1>5. RowsHeld'
  <2> SUFFICES ASSUME NEW u \in Sessions, HoldsRow(sess[u])'
               PROVE  /\ rowOwner'[sess'[u].n] = u
                      /\ tr'[sess'[u].n].status \in StatusesOf(sess'[u].op)
    BY DEF RowsHeld
  <2>1. u # s /\ sess'[u] = sess[u]
    BY <1>2, IdleOwnsNothing DEF HoldsRow
  <2>2. HoldsRow(sess[u])
    BY <2>1 DEF HoldsRow
  <2>3. rowOwner[sess[u].n] = u /\ tr[sess[u].n].status \in StatusesOf(sess[u].op)
    BY <2>2 DEF IndInv, RowsHeld
  <2>4. sess[u].n \in Nums
    BY SessionFacts
  <2>5. tr'[sess[u].n] = tr[sess[u].n]
    BY <1>0, <2>1, <2>3, <2>4, CommitWrites DEF IndInv, Types, TypeOK
  <2> QED
    BY <1>1, <2>1, <2>3, <2>4, <2>5
<1>6. RequestHeld'
  <2> SUFFICES ASSUME NEW u \in Sessions
               PROVE  /\ HoldsRequest(sess[u])' => reqOwner' = u
                      /\ reqOwner' = u => OutOf(sess[u])'
    BY DEF RequestHeld
  <2>1. CASE u = s
    BY <2>1, <1>1, <1>2, IdleOwnsNothing, ConstantsOK DEF HoldsRequest
  <2>2. CASE u # s
    <3>1. sess'[u] = sess[u]
      BY <2>2, <1>2
    <3>2. /\ HoldsRequest(sess[u]) => reqOwner = u
          /\ reqOwner = u => OutOf(sess[u])
      BY DEF IndInv, RequestHeld
    <3>3. HoldsRequest(sess[u])' => reqOwner' = u
      BY <1>1, <2>2, <3>1, <3>2 DEF HoldsRequest
    <3>4. reqOwner' = u => reqOwner = u /\ req' = req
      BY <1>1, <1>3, <2>2, SessionFacts
    <3>5. req' = req => (OutOf(sess[u])' <=> OutOf(sess[u]))
      BY <3>1 DEF OutOf, SameStanding, Completes
    <3> QED
      BY <3>2, <3>3, <3>4, <3>5
  <2> QED
    BY <2>1, <2>2
<1>7. PaysFromQueue'
  BY <1>2, IdleOwnsNothing DEF IndInv, PaysFromQueue
<1>8. ProcessedIsLocked'
  <2>1. CASE reqOwner # s
    BY <2>1, <1>3 DEF IndInv, ProcessedIsLocked
  <2>2. CASE reqOwner = s
    <3>1. OutOf(me) /\ me.target # "payment_processed"
      BY <2>2, <1>0 DEF Fits, IsSession
    <3> QED
      BY <2>2, <3>1, <1>3 DEF IndInv, ProcessedIsLocked, OutOf, SameStanding, Completes
  <2> QED
    BY <2>1, <2>2
<1> QED
  BY <1>4, <1>5, <1>6, <1>7, <1>8 DEF IndInv

\* Every step keeps the locks and what the sessions remember of the locked rows.
LEMMA NextIndInv == IndInv /\ [Next]_vars => IndInv'
<1> SUFFICES ASSUME IndInv, [Next]_vars PROVE IndInv'
  OBVIOUS
<1>1. CASE UNCHANGED vars
  BY <1>1 DEF vars, IndInv, Types, TypeOK, IsSession, IsRequest, RowsHeld, HoldsRow,
              RequestHeld, HoldsRequest, OutOf, SameStanding, Completes, PaysFromQueue,
              ProcessedIsLocked
<1>2. ASSUME NEW s \in Sessions, Begin(s) \/ Statement(s) \/ Fails(s) \/ DeadlockVictim(s)
      PROVE  IndInv'
  <2>1. CASE Begin(s)
    BY <2>1, BeginIndInv
  <2>2. CASE Fails(s) \/ DeadlockVictim(s)
    BY <2>2, RollbackIndInv DEF Fails, DeadlockVictim
  <2>3. CASE Statement(s)
    BY <2>3, ReadsIndInv, RequestStepsIndInv, RowStepsIndInv, CommitIndInv DEF Statement
  <2> QED
    BY <1>2, <2>1, <2>2, <2>3
<1> QED
  BY <1>1, <1>2 DEF Next

--------------------------------------------------------------------------------
\* The invariant of the locks: a session past a lock owns it, and what it checked
\* under the lock still holds, because the others commit to other rows only.
THEOREM LocksAreHeld == Spec => []IndInv
BY InitIndInv, NextIndInv, PTL DEF Spec

\* Type correctness of the committed rows, the sessions and the locks.
THEOREM TypeCorrect == Spec => []TypeOK
BY LocksAreHeld, PTL DEF IndInv, Types

\* A completed file is locked, whichever of the concurrent handlers completed it
\* or reopened it last (pay_tranche, the bulk payment, delete_tranche, add_tranche).
THEOREM CompletedStaysLocked == Spec => []ProcessedIsLocked
BY LocksAreHeld, PTL DEF IndInv

\* Statements before the commit are not visible to other sessions.
LEMMA OnlyCommitsWrite ==
  [Next]_vars => UNCHANGED <<req, tr, pays>> \/ \E s \in Sessions : Commit(s)
<1> SUFFICES ASSUME NEW s \in Sessions,
                    Begin(s) \/ Statement(s) \/ Fails(s) \/ DeadlockVictim(s)
             PROVE  UNCHANGED <<req, tr, pays>> \/ Commit(s)
  BY DEF Next, vars
<1> USE DEF Rollback, Continue, WithRequest
<1>1. CASE Begin(s) \/ Fails(s) \/ DeadlockVictim(s)
  BY <1>1 DEF Begin, Fails, DeadlockVictim
<1>2. CASE \/ ReadRequest(s) \/ CheckTouched(s) \/ CheckCeiling(s) \/ NextNumber(s)
           \/ CountRows(s) \/ SumTranches(s) \/ CheckSiblings(s) \/ CountUnpaid(s)
           \/ PickTranche(s) \/ CheckTranches(s)
  BY <1>2, Zenon DEF ReadRequest, CheckTouched, CheckCeiling, NextNumber, CountRows,
       SumTranches, CheckSiblings, CountUnpaid, PickTranche, CheckTranches
<1>3. CASE LockRequest(s) \/ Reopen(s) \/ UpdateTotals(s) \/ Finish(s) \/ SetStatus(s)
  BY <1>3, Zenon DEF LockRequest, Reopen, UpdateTotals, Finish, SetStatus
<1>4. CASE LockRow(s) \/ Insert(s)
  BY <1>4, Zenon DEF LockRow, Insert
<1> QED
  BY <1>1, <1>2, <1>3, <1>4 DEF Statement

\* A paid row stays paid with its amount through any interleaving of the handlers:
\* the edit, delete, reject or cancel that read it as unpaid waits for the row lock
\* of the payment and then finds it paid.
THEOREM PaidStaysPaid == Spec => PaidIsFinal
<1>1. IndInv /\ [Next]_vars => [PaidRowKept]_vars
  <2> SUFFICES ASSUME IndInv, [Next]_vars, NEW n \in Paid(tr)
               PROVE  n \in Paid(tr)' /\ tr'[n].amount = tr[n].amount
    BY DEF PaidRowKept
  <2>1. n \in Nums /\ tr[n].status = "paid"
    BY DEF Paid
  <2>2. CASE tr' = tr
    BY <2>1, <2>2 DEF Paid
  <2>3. ASSUME NEW s \in Sessions, Commit(s)
        PROVE  tr'[n].status = "paid" /\ tr'[n].amount = tr[n].amount
    <3>1. tr \in [Nums -> Row]
      BY DEF IndInv, Types, TypeOK
    <3>2. CASE sess[s].op = "transition" \/ sess[s].n # n
      BY <2>1, <2>3, <3>1, <3>2, CommitWrites
    <3>3. CASE sess[s].op # "transition" /\ sess[s].n = n
      <4>1. sess[s].op = "bulk"
        BY <2>1, <2>3, <3>3, CommitWrites DEF StatusesOf
      <4> QED
        BY <2>1, <2>3, <3>1, <3>3, <4>1, CommitWrites DEF StatusWritten
    <3> QED
      BY <3>2, <3>3
  <2> QED
    BY <2>1, <2>2, <2>3, OnlyCommitsWrite DEF Paid
<1> QED
  BY <1>1, LocksAreHeld, PTL DEF Spec, PaidIsFinal

\* Without the bulk payment no tranche is paid twice: a payment finds the row
\* unpaid or cancelled under its lock, so no payment of it was committed before.
THEOREM PaidOnce == "bulk" \notin Ops /\ Spec => []NoDoublePayment
<1> SUFFICES ASSUME "bulk" \notin Ops PROVE Spec => []NoDoublePayment
  OBVIOUS
<1>1. Init => PaysOnce
  BY DEF Init, PaysOnce
<1>2. IndInv /\ PaysOnce /\ [Next]_vars => PaysOnce'
  <2> SUFFICES ASSUME IndInv, PaysOnce, [Next]_vars PROVE PaysOnce'
    OBVIOUS
  <2>1. CASE UNCHANGED <<req, tr, pays>>
    BY <2>1 DEF PaysOnce
  <2>2. ASSUME NEW s \in Sessions, Commit(s) PROVE PaysOnce'
    <3> DEFINE me == sess[s]
    <3>1. /\ tr \in [Nums -> Row] /\ pays \in [Nums -> 0..2] /\ me.n \in Nums
          /\ me.pc = "commit" /\ me.op # "bulk"
      BY <2>2, SessionFacts DEF Commit, IndInv, Types, TypeOK, IsSession
    <3>2. pays' = CASE me.op \in {"pay", "bulk"} ->
                         [pays EXCEPT ![me.n] = IF @ = 2 THEN 2 ELSE @ + 1]
                    [] me.op = "delete" -> [pays EXCEPT ![me.n] = 0]
                    [] OTHER -> pays
      BY <2>2 DEF Commit
    <3>3. CASE me.op = "transition"
      BY <2>2, <3>2, <3>3, CommitWrites DEF PaysOnce
    <3>4. CASE me.op # "transition"
      <4>1. /\ tr[me.n].status # "paid"
            /\ tr' = [tr EXCEPT ![me.n] = WrittenRow(s)]
            /\ me.op = "pay" => WrittenRow(s).status = "paid"
        BY <2>2, <3>1, <3>4, CommitWrites DEF StatusesOf, StatusWritten
      <4>2. pays[me.n] = 0
        BY <3>1, <4>1 DEF PaysOnce
      <4>3. pays'[me.n] = IF me.op = "pay" THEN 1 ELSE 0
        BY <3>1, <3>2, <4>2
      <4>4. \A n \in Nums \ {me.n} : pays'[n] = pays[n] /\ tr'[n] = tr[n]
        BY <3>1, <3>2, <4>1
      <4> QED
        BY <3>1, <4>1, <4>3, <4>4 DEF PaysOnce
    <3> QED
      BY <3>3, <3>4
  <2> QED
    BY <2>1, <2>2, OnlyCommitsWrite
<1>3. PaysOnce => NoDoublePayment
  BY DEF PaysOnce, NoDoublePayment
<1> QED
  BY <1>1, <1>2, <1>3, LocksAreHeld, PTL DEF Spec

--------------------------------------------------------------------------------
\* A payment comes to its commit by counting the unpaid rows.
LEMMA CommitAfterCount ==
  ASSUME IndInv, [Next]_vars, NEW u \in Sessions,
         sess'[u].op \in {"pay", "bulk"}, sess'[u].pc = "commit", sess'[u] # sess[u]
  PROVE  /\ sess[u].pc = "count" /\ sess[u].op = sess'[u].op /\ sess[u].n = sess'[u].n
         /\ \/ \E n \in Nums : Unpaid(tr) = {n} /\ sess'[u].out.status = "payment_processed"
            \/ (\A n \in Nums : Unpaid(tr) # {n}) /\ sess'[u].out = sess[u].out
<1>1. PICK s \in Sessions : Begin(s) \/ Statement(s) \/ Fails(s) \/ DeadlockVictim(s)
  BY DEF Next, vars
<1> DEFINE me == sess[s]
<1>2. /\ IsSession(me) /\ DOMAIN sess = Sessions
      /\ Idle.op = "none"
  BY SessionFacts, IdleOwnsNothing DEF IndInv, Types
<1>3. u = s
  <2>1. \E new : sess' = [sess EXCEPT ![s] = new]
    <3> USE DEF Rollback, Release, Continue, WithRequest
    <3>1. CASE Begin(s) \/ Fails(s) \/ DeadlockVictim(s) \/ Commit(s)
      BY <3>1 DEF Begin, Fails, DeadlockVictim, Commit
    <3>2. CASE ReadRequest(s) \/ CheckTouched(s) \/ CheckCeiling(s)
      BY <3>2, Zenon DEF ReadRequest, CheckTouched, CheckCeiling
    <3>3. CASE NextNumber(s) \/ CountRows(s) \/ SumTranches(s)
      BY <3>3, Zenon DEF NextNumber, CountRows, SumTranches
    <3>4. CASE CheckSiblings(s) \/ CountUnpaid(s) \/ PickTranche(s) \/ CheckTranches(s)
      BY <3>4, Zenon DEF CheckSiblings, CountUnpaid, PickTranche, CheckTranches
    <3>5. CASE LockRequest(s) \/ Reopen(s) \/ UpdateTotals(s) \/ Finish(s) \/ SetStatus(s)
      BY <3>5, Zenon DEF LockRequest, Reopen, UpdateTotals, Finish, SetStatus
    <3>6. CASE LockRow(s)
      <4>1. \E p : sess' = [sess EXCEPT ![s].pc = p] \/ sess' = [sess EXCEPT ![s] = Idle]
        BY <3>6, Zenon DEF LockRow
      <4> QED
        BY <4>1
    <3>7. CASE Insert(s)
      <4>1. \E p : sess' = [sess EXCEPT ![s].pc = p] \/ sess' = [sess EXCEPT ![s] = Idle]
        BY <3>7, Zenon DEF Insert
      <4> QED
        BY <4>1
    <3> QED
      BY <1>1, <3>1, <3>2, <3>3, <3>4, <3>5, <3>6, <3>7 DEF Statement
  <2> QED
    BY <2>1, <1>2
<1>4. ~Rollback(s)
  BY <1>2, <1>3 DEF Rollback, Release
<1> USE DEF Continue, WithRequest
<1>5. CASE Begin(s) \/ Fails(s) \/ DeadlockVictim(s) \/ Commit(s)
  <2>1. ~Fails(s) /\ ~DeadlockVictim(s) /\ ~Commit(s)
    BY <1>2, <1>3, <1>4 DEF Fails, DeadlockVictim, Commit, Release
  <2>2. \E c \in Calls : sess'[s].pc = IF c.op = "pay" THEN "lockRequest" ELSE "read"
    <3>1. PICK c \in Calls : sess' = [sess EXCEPT ![s] =
            [Idle EXCEPT !.op = c.op, !.n = c.n, !.amount = c.amount, !.target = c.target,
                         !.pc = IF c.op = "pay" THEN "lockRequest" ELSE "read"]]
      BY <1>5, <2>1 DEF Begin
    <3> QED
      BY <1>2, <3>1 DEF Idle
  <2> QED
    BY <1>3, <2>2
<1>6. CASE CountUnpaid(s)
  <2> DEFINE final == \E n \in Nums : Unpaid(tr) = {n}
             out == IF final THEN Completed(me.out) ELSE me.out
             new == [me EXCEPT !.pc = "commit", !.out = out]
  <2>1. me.pc = "count" /\ sess' = [sess EXCEPT ![s] = new]
    BY <1>4, <1>6 DEF CountUnpaid
  <2>2. Completed(me.out).status = "payment_processed"
    BY <1>2 DEF IsSession, IsRequest, Completed
  <2>3. new.op = me.op /\ new.n = me.n /\ new.out = out
    BY <1>2 DEF IsSession
  <2>4. sess'[u] = new
    BY <1>2, <1>3, <2>1
  <2> QED
    BY <1>3, <2>1, <2>2, <2>3, <2>4
<1>7. CASE \/ ReadRequest(s) \/ CheckTouched(s) \/ CheckCeiling(s) \/ NextNumber(s)
           \/ CountRows(s) \/ PickTranche(s) \/ CheckTranches(s)
  <2>1. \E p \in {"touched", "ceiling", "lockRow", "guard", "pick", "sum", "number",
                  "insert", "setStatus"} :
          \E new : sess' = [sess EXCEPT ![s] = new] /\ new.pc = p
    <3>1. CASE ReadRequest(s)
      <4> DEFINE next == CASE me.op \in {"edit", "delete"} -> "touched"
                           [] me.op = "add" ->
                                IF req.status = "payment_processed" THEN "ceiling" ELSE "touched"
                           [] me.op \in {"reject", "cancel", "details"} -> "lockRow"
                           [] me.op = "transition" -> "guard"
                           [] me.op = "bulk" -> "pick"
                 new == [me EXCEPT !.pc = next, !.seen = req]
      <4>1. me.pc = "read" /\ sess' = [sess EXCEPT ![s] = new]
        BY <1>4, <3>1 DEF ReadRequest
      <4>2. new.pc = next
        BY <1>2 DEF IsSession
      <4>3. me.op \in {"edit", "delete", "add", "reject", "cancel", "details", "transition",
                       "bulk"}
        BY <1>2, <4>1, ConstantsOK DEF IsSession, PlacesOf
      <4>4. next \in {"touched", "ceiling", "lockRow", "guard", "pick"}
        BY <4>3
      <4> HIDE DEF next
      <4> QED
        BY <4>1, <4>2, <4>4
    <3>2. CASE CheckTouched(s) \/ CheckCeiling(s)
      <4>1. CASE CheckTouched(s)
        BY <1>2, <1>4, <4>1 DEF CheckTouched, IsSession
      <4>2. CASE CheckCeiling(s)
        BY <1>2, <1>4, <4>2 DEF CheckCeiling, IsSession
      <4> QED
        BY <3>2, <4>1, <4>2
    <3>3. CASE NextNumber(s) \/ CountRows(s)
      <4>1. CASE NextNumber(s)
        BY <1>2, <1>4, <4>1 DEF NextNumber, IsSession
      <4>2. CASE CountRows(s)
        BY <1>2, <1>4, <4>2 DEF CountRows, IsSession
      <4> QED
        BY <3>3, <4>1, <4>2
    <3>4. CASE PickTranche(s)
      <4> DEFINE n == IF Unpaid(tr) # {}
                        THEN CHOOSE n \in Unpaid(tr) : \A m \in Unpaid(tr) : n <= m ELSE 1
                 new == [me EXCEPT !.pc = "lockRow", !.n = n]
      <4>1. sess' = [sess EXCEPT ![s] = new]
        BY <1>4, <3>4 DEF PickTranche
      <4> HIDE DEF n
      <4>2. new.pc = "lockRow"
        BY <1>2 DEF IsSession
      <4> QED
        BY <4>1, <4>2
    <3>5. CASE CheckTranches(s)
      <4> DEFINE new == [me EXCEPT !.pc = "setStatus"]
      <4>1. sess' = [sess EXCEPT ![s] = new]
        BY <1>4, <3>5 DEF CheckTranches
      <4>2. new.pc = "setStatus"
        BY <1>2 DEF IsSession
      <4> QED
        BY <4>1, <4>2
    <3> QED
      BY <1>7, <3>1, <3>2, <3>3, <3>4, <3>5
  <2> QED
    BY <1>2, <1>3, <2>1
<1>8. CASE \/ SumTranches(s) \/ CheckSiblings(s) \/ Reopen(s) \/ UpdateTotals(s)
           \/ Finish(s) \/ SetStatus(s)
  <2>1. me.op \in {"edit", "add", "delete", "reject", "cancel", "transition"}
    BY <1>2, <1>8, ConstantsOK
       DEF SumTranches, CheckSiblings, Reopen, UpdateTotals, Finish, SetStatus, IsSession,
           PlacesOf
  <2>2. sess'[s].op = me.op
    <3>1. CASE SumTranches(s) \/ CheckSiblings(s)
      <4>1. CASE SumTranches(s)
        <5>1. \E p, sum : sess' = [sess EXCEPT ![s] = [me EXCEPT !.sum = sum, !.pc = p]]
          BY <1>4, <4>1 DEF SumTranches
        <5> QED
          BY <1>2, <5>1 DEF IsSession
      <4>2. CASE CheckSiblings(s)
        BY <1>2, <1>4, <4>2 DEF CheckSiblings, IsSession
      <4> QED
        BY <3>1, <4>1, <4>2
    <3>2. CASE Reopen(s)
      BY <1>2, <1>4, <3>2 DEF Reopen, IsSession
    <3>3. CASE UpdateTotals(s)
      BY <1>2, <1>4, <3>3 DEF UpdateTotals, IsSession
    <3>4. CASE Finish(s)
      BY <1>2, <1>4, <3>4 DEF Finish, IsSession
    <3>5. CASE SetStatus(s)
      BY <1>2, <1>4, <3>5 DEF SetStatus, IsSession
    <3> QED
      BY <1>8, <3>1, <3>2, <3>3, <3>4, <3>5
  <2> QED
    BY <1>3, <2>1, <2>2
<1>9. CASE LockRow(s) \/ Insert(s) \/ LockRequest(s)
  <2>1. CASE LockRow(s)
    BY <1>2, <1>3, <1>4, <2>1 DEF LockRow, IsSession
  <2>2. CASE Insert(s)
    BY <1>2, <1>3, <1>4, <2>2 DEF Insert, IsSession
  <2>3. CASE LockRequest(s)
    <3>1. sess' = [sess EXCEPT ![s] =
            IF me.op = "pay" THEN [me EXCEPT !.pc = "lockRow", !.seen = req, !.out = req]
                             ELSE [me EXCEPT !.pc = "count", !.out = req]]
      BY <1>4, <2>3 DEF LockRequest
    <3> QED
      BY <1>2, <1>3, <3>1 DEF IsSession
  <2> QED
    BY <1>9, <2>1, <2>2, <2>3
<1> QED
  BY <1>1, <1>5, <1>6, <1>7, <1>8, <1>9 DEF Statement

\* Calls that leave a tranche to be paid on every file that is not completed: no
\* delete or cancel takes the last one away, no bulk payment pays one that a reject
\* sent back, and no transition reopens the file.
KeepsToPay ==
  /\ Ops \cap {"delete", "cancel"} = {} /\ ~({"reject", "bulk"} \subseteq Ops)
  /\ "pending_payment" \notin Targets

\* The rows such calls leave to be paid.
LEMMA CommitKeepsToPay ==
  ASSUME IndInv, KeepsToPay, OpenHasToPay, NEW s \in Sessions, Commit(s)
  PROVE  /\ \A n \in Nums \ {sess[s].n} : tr'[n] = tr[n]
         /\ sess[s].op \notin {"pay", "bulk"} => ToPay(tr) \subseteq ToPay(tr')
         /\ ToPay(tr) \ {sess[s].n} \subseteq ToPay(tr')
         /\ sess[s].op = "add" => ToPay(tr') # {}
         /\ \A n \in Nums : /\ tr'[n].status # "cancelled"
                            /\ "bulk" \in Ops => tr'[n].status # "rejected"
<1> DEFINE me == sess[s]
<1>1. tr \in [Nums -> Row] /\ me.n \in Nums
  BY SessionFacts DEF IndInv, Types, TypeOK
<1>2. CASE me.op = "transition"
  BY <1>1, <1>2, CommitWrites DEF OpenHasToPay, ToPay
<1>3. CASE me.op # "transition"
  <2>1. /\ tr' = [tr EXCEPT ![me.n] = WrittenRow(s)] /\ me.op \in Ops
        /\ tr[me.n].status \in StatusesOf(me.op)
        /\ WrittenRow(s).status = StatusWritten(me.op, tr[me.n].status)
    BY <1>3, CommitWrites
  <2>2. /\ tr'[me.n].status = StatusWritten(me.op, tr[me.n].status)
        /\ \A n \in Nums \ {me.n} : tr'[n] = tr[n]
    BY <1>1, <2>1
  <2>3. /\ tr[me.n].status # "cancelled" /\ ("bulk" \in Ops => tr[me.n].status # "rejected")
        /\ \A n \in Nums : /\ tr[n].status # "cancelled"
                           /\ "bulk" \in Ops => tr[n].status # "rejected"
    BY <1>1 DEF OpenHasToPay
  <2>4. me.op \notin {"delete", "cancel"} /\ (me.op = "reject" => "bulk" \notin Ops)
    BY <2>1 DEF KeepsToPay
  <2>5. /\ tr'[me.n].status # "cancelled"
        /\ "bulk" \in Ops => tr'[me.n].status # "rejected"
        /\ me.op \notin {"pay", "bulk"} /\ me.n \in ToPay(tr) =>
             tr'[me.n].status \in {"unpaid", "rejected"}
        /\ me.op = "add" => tr'[me.n].status = "unpaid"
    BY <2>1, <2>2, <2>3, <2>4 DEF StatusWritten, StatusesOf, ToPay
  <2> QED
    BY <1>1, <2>2, <2>3, <2>5 DEF ToPay
<1> QED
  BY <1>2, <1>3

\* Where nothing is deleted, cancelled or rejected under a bulk payment, an open file keeps a
\* tranche left to pay.
LEMMA NextOpenHasToPay == KeepsToPay /\ IndInv /\ OpenHasToPay /\ [Next]_vars => OpenHasToPay'
<1> SUFFICES ASSUME KeepsToPay, IndInv, OpenHasToPay, [Next]_vars PROVE OpenHasToPay'
  OBVIOUS
<1>1. CASE UNCHANGED <<req, tr, pays>>
  <2> SUFFICES ASSUME NEW u \in Sessions, sess'[u].op \in {"pay", "bulk"},
                      sess'[u].pc = "commit", sess'[u].out.status # "payment_processed"
               PROVE  ToPay(tr) \ {sess'[u].n} # {}
    BY <1>1 DEF OpenHasToPay, ToPay
  <2>1. CASE sess'[u] = sess[u]
    BY <2>1 DEF OpenHasToPay
  <2>2. CASE sess'[u] # sess[u]
    <3> DEFINE me == sess[u]
    <3>1. /\ me.pc = "count" /\ me.op \in {"pay", "bulk"} /\ me.n = sess'[u].n
          /\ \A n \in Nums : Unpaid(tr) # {n}
          /\ me.out.status # "payment_processed"
      BY <2>2, CommitAfterCount
    <3>2. /\ Fits(u, me, reqOwner, rowOwner) /\ me.op \in Ops /\ me.n \in Nums
      BY <3>1, SessionFacts DEF IsSession
    <3>3. req.status # "payment_processed"
      BY <3>1, <3>2 DEF Fits, HoldsRequest, OutOf, SameStanding
    <3>4. PICK m \in ToPay(tr) : TRUE
      BY <3>3 DEF OpenHasToPay
    <3>5. CASE m # me.n
      BY <3>1, <3>4, <3>5
    <3>6. CASE m = me.n
      <4>1. tr[m].status = "unpaid"
        <5>1. tr[m].status \in StatusesOf(me.op)
          BY <3>1, <3>2, <3>6 DEF Fits, HoldsRow
        <5>2. tr[m].status \in {"unpaid", "rejected"} /\ m \in Nums
          BY <3>4 DEF ToPay
        <5>3. "bulk" \in Ops => tr[m].status # "rejected"
          BY <5>2 DEF OpenHasToPay
        <5> QED
          BY <3>1, <3>2, <5>1, <5>2, <5>3 DEF StatusesOf
      <4>2. m \in Unpaid(tr)
        BY <3>4, <4>1 DEF ToPay, Unpaid
      <4>3. PICK k \in Unpaid(tr) : k # m
        BY <3>1, <3>2, <3>6, <4>2
      <4> QED
        BY <3>1, <3>6, <4>3 DEF Unpaid, ToPay
    <3> QED
      BY <3>5, <3>6
  <2> QED
    BY <2>1, <2>2
<1>2. ASSUME NEW s \in Sessions, Commit(s) PROVE OpenHasToPay'
  <2> DEFINE me == sess[s]
  <2>1. /\ IsSession(me) /\ Fits(s, me, reqOwner, rowOwner) /\ s # NoSession
        /\ me.pc = "commit"
    BY <1>2, SessionFacts DEF Commit
  <2>2. req' = IF reqOwner = s THEN me.out ELSE req
    BY <1>2, CommitWrites
  <2>3. req'.status # "payment_processed" => ToPay(tr') # {}
    <3> SUFFICES ASSUME req'.status # "payment_processed" PROVE ToPay(tr') # {}
      OBVIOUS
    <3>1. CASE me.op \in {"pay", "bulk"}
      <4>1. reqOwner = s
        BY <2>1, <3>1 DEF Fits, HoldsRequest
      <4>2. ToPay(tr) \ {me.n} # {}
        BY <2>1, <2>2, <3>1, <4>1 DEF OpenHasToPay
      <4> QED
        BY <1>2, <4>2, CommitKeepsToPay
    <3>2. CASE me.op = "add"
      BY <1>2, <3>2, CommitKeepsToPay
    <3>3. CASE me.op \notin {"pay", "bulk", "add"}
      <4>1. me.op \notin {"delete", "none"}
        BY <1>2, <2>1, CommitWrites DEF KeepsToPay, IsSession, PlacesOf
      <4>2. req.status # "payment_processed"
        <5>1. CASE reqOwner # s
          BY <2>2, <5>1
        <5>2. CASE reqOwner = s
          <6>1. OutOf(me)
            BY <2>1, <5>2 DEF Fits
          <6>2. CASE me.op = "transition"
            <7>1. me.target # "pending_payment" /\ me.out.status = me.target
              BY <2>1, <6>1, <6>2 DEF KeepsToPay, IsSession, OutOf
            <7>2. TriggerAllows(req.status, me.target)
              BY <6>1, <6>2 DEF OutOf
            <7> QED
              BY <2>2, <5>2, <7>1, <7>2 DEF TriggerAllows, TriggerPairs
          <6>3. CASE me.op # "transition"
            BY <2>2, <3>3, <4>1, <5>2, <6>1, <6>3 DEF OutOf, SameStanding
          <6> QED
            BY <6>2, <6>3
        <5> QED
          BY <5>1, <5>2
      <4> QED
        BY <1>2, <3>3, <4>2, CommitKeepsToPay DEF OpenHasToPay
    <3> QED
      BY <3>1, <3>2, <3>3
  <2>4. ASSUME NEW u \in Sessions, sess'[u].op \in {"pay", "bulk"},
               sess'[u].pc = "commit", sess'[u].out.status # "payment_processed"
        PROVE  ToPay(tr') \ {sess'[u].n} # {}
    <3>1. u # s /\ sess'[u] = sess[u]
      BY <1>2, <2>4, IdleOwnsNothing DEF Commit, Release, IndInv, Types
    <3>2. reqOwner = u
      BY <2>4, <3>1, SessionFacts DEF Fits, HoldsRequest
    <3>3. me.op \notin {"pay", "bulk"}
      BY <2>1, <3>1, <3>2 DEF Fits, HoldsRequest
    <3>4. ToPay(tr) \subseteq ToPay(tr')
      BY <1>2, <3>3, CommitKeepsToPay
    <3> QED
      BY <2>4, <3>1, <3>4 DEF OpenHasToPay
  <2>5. \A n \in Nums : /\ tr'[n].status # "cancelled"
                        /\ "bulk" \in Ops => tr'[n].status # "rejected"
    BY <1>2, CommitKeepsToPay
  <2> QED
    BY <2>3, <2>4, <2>5 DEF OpenHasToPay, ToPay
<1> QED
  BY <1>1, <1>2, OnlyCommitsWrite

\* However payments, edits, adds, rejects and holds interleave, a quiet file in the
\* queue with nothing but paid tranches does not exist: the final payment completed
\* it.  The request lock of pay_tranche is what makes its count of unpaid rows hold
\* until the commit.
THEOREM CompletionFound == KeepsToPay /\ Spec => []CompletionNotMissed
<1> SUFFICES ASSUME KeepsToPay PROVE Spec => []CompletionNotMissed
  BY DEF KeepsToPay
<1>1. Init => OpenHasToPay
  <2> SUFFICES ASSUME Init PROVE OpenHasToPay
    OBVIOUS
  <2>1. PICK k \in Nums, a \in [Nums -> Amounts], ready \in [Nums -> BOOLEAN] :
          tr = [n \in Nums |-> IF n <= k THEN [NewRow(a[n]) EXCEPT !.ready = ready[n]]
                                         ELSE NoRow]
    BY DEF Init
  <2>2. 1 \in Nums /\ 1 <= k
    BY ConstantsOK DEF Nums
  <2>3. \A n \in Nums : tr[n].status = IF n <= k THEN "unpaid" ELSE "none"
    BY <2>1 DEF NewRow, NoRow
  <2> QED
    BY <2>2, <2>3 DEF Init, OpenHasToPay, ToPay, Idle
<1>2. OpenHasToPay => CompletionNotMissed
  BY DEF OpenHasToPay, CompletionNotMissed, ToPay, Rows, Paid
<1> QED
  BY <1>1, <1>2, NextOpenHasToPay, LocksAreHeld, PTL DEF Spec

--------------------------------------------------------------------------------
\* The refinement.  The promise excludes a bulk payment, which pays from a stale
\* read, and the whole-file hold and reject of Accounts, whose guard on paid
\* tranches is read before the status is written.
Promising ==
  /\ "bulk" \notin Ops
  /\ Targets \cap {"hold_by_accounts", "rejected_by_accounts"} = {}

\* A commit writes nothing but its row to the paid tranches: a payment adds it, no
\* other call touches a paid row.
LEMMA CommitPaid ==
  ASSUME Promising, IndInv, NEW s \in Sessions, Commit(s)
  PROVE  /\ sess[s].op = "pay" =>
              sess[s].n \notin Paid(tr) /\ Paid(tr)' = Paid(tr) \cup {sess[s].n}
         /\ sess[s].op # "pay" => Paid(tr)' = Paid(tr)
<1> DEFINE me == sess[s]
<1>1. tr \in [Nums -> Row] /\ me.n \in Nums
  BY SessionFacts DEF IndInv, Types, TypeOK
<1>2. CASE me.op = "transition"
  BY <1>2, CommitWrites DEF Paid
<1>3. CASE me.op # "transition"
  <2>1. /\ tr' = [tr EXCEPT ![me.n] = WrittenRow(s)] /\ me.op \in Ops
        /\ tr[me.n].status \in StatusesOf(me.op)
        /\ WrittenRow(s).status = StatusWritten(me.op, tr[me.n].status)
    BY <1>3, CommitWrites
  <2>2. me.op # "bulk"
    BY <2>1 DEF Promising
  <2>3. tr[me.n].status # "paid" /\ (WrittenRow(s).status = "paid" <=> me.op = "pay")
    BY <2>1, <2>2 DEF StatusesOf, StatusWritten
  <2>4. \A n \in Nums : tr'[n] = IF n = me.n THEN WrittenRow(s) ELSE tr[n]
    BY <1>1, <2>1
  <2> QED
    BY <1>1, <2>3, <2>4 DEF Paid
<1> QED
  BY <1>2, <1>3

\* A commit is a step of the promise: a move of the file, a payment, or the change of a row
\* that is not paid.
LEMMA CommitRefines ==
  ASSUME Promising, IndInv, NEW s \in Sessions, Commit(s)
  PROVE  [Promise!PNext]_(Promise!pvars)
<1> DEFINE me == sess[s]
<1>0. /\ IsSession(me) /\ Fits(s, me, reqOwner, rowOwner) /\ IsRequest(req)
      /\ me.pc = "commit" /\ me.n \in Nums
  BY SessionFacts DEF Commit
<1>1. req' = IF reqOwner = s THEN me.out ELSE req
  BY CommitWrites
<1>2. CASE me.op = "pay"
  <2>1. reqOwner = s /\ me.seen.status = "pending_payment"
    BY <1>0, <1>2 DEF Fits, HoldsRequest
  <2>2. req.status = "pending_payment" /\ (SameStanding(req') \/ Completes(req'))
    BY <1>0, <1>1, <1>2, <2>1 DEF Fits, OutOf
  <2>3. Promise!Completed \/ UNCHANGED <<req.status, req.locked>>
    BY <1>0, <1>1, <2>1, <2>2 DEF SameStanding, Completes, Promise!Completed, IsSession, IsRequest
  <2>4. Promise!Pay(me.n)
    BY <1>2, <2>2, <2>3, CommitPaid DEF Promise!Pay
  <2> QED
    BY <1>0, <2>4 DEF Promise!PNext
<1>3. CASE me.op # "pay"
  <2>1. Paid(tr)' = Paid(tr)
    BY <1>3, CommitPaid
  <2>2. CASE SameStanding(req')
    BY <2>1, <2>2 DEF SameStanding, Promise!pvars
  <2>3. CASE Completes(req')
    <3>1. req.status \in {"pending_payment", "payment_processed"}
      BY <2>3 DEF Completes, TriggerAllows, TriggerPairs
    <3>2. req'.locked = TRUE
      BY <1>0, <1>1, <2>3 DEF Completes, IsSession, IsRequest
    <3>3. CASE req.status = "pending_payment"
      <4>1. Promise!Finish
        BY <2>1, <2>3, <3>2, <3>3 DEF Completes, Promise!Finish, Promise!Completed
      <4> QED
        BY <4>1 DEF Promise!PNext
    <3>4. CASE req.status = "payment_processed"
      <4>1. req.locked = TRUE
        BY <1>0, <3>4 DEF IndInv, ProcessedIsLocked, IsRequest
      <4> QED
        BY <2>1, <2>3, <3>2, <3>4, <4>1 DEF Completes, Promise!pvars
    <3> QED
      BY <3>1, <3>3, <3>4
  <2>4. ASSUME NEW target \in RequestStatus \ {"payment_processed"},
               target \notin {"hold_by_accounts", "rejected_by_accounts"},
               req'.status = target, TriggerAllows(req.status, target),
               \/ req'.locked = req.locked
               \/ target = "pending_payment" /\ req'.locked = FALSE
        PROVE  [Promise!PNext]_(Promise!pvars)
    <3>1. CASE req.status = "payment_processed"
      <4>1. target = "pending_payment"
        BY <2>4, <3>1 DEF TriggerAllows, TriggerPairs
      <4>2. Promise!Reopen
        BY <2>1, <2>4, <3>1, <4>1 DEF Promise!Reopen
      <4> QED
        BY <4>2 DEF Promise!PNext
    <3>2. CASE req.status = target
      <4>1. UNCHANGED Promise!pvars \/ Promise!Unlock
        BY <2>1, <2>4, <3>2 DEF Promise!pvars, Promise!Unlock
      <4> QED
        BY <4>1 DEF Promise!PNext
    <3>3. CASE req.status \notin {"payment_processed", target}
      <4>1. <<req.status, target>> \in TriggerPairs
        BY <2>4, <3>3 DEF TriggerAllows
      <4>2. Promise!Move(target)
        BY <2>1, <2>4, <3>3, <4>1 DEF Promise!Move, Promise!TriggerPairs, TriggerPairs
      <4>3. target \in Promise!RequestStatus
        BY <2>4 DEF Promise!RequestStatus, RequestStatus
      <4> QED
        BY <4>2, <4>3 DEF Promise!PNext
    <3> QED
      BY <3>1, <3>2, <3>3
  <2>5. \/ SameStanding(req') \/ Completes(req')
        \/ /\ me.op = "transition" /\ reqOwner = s /\ me.target \in Targets
           /\ req'.status = me.target /\ req'.locked = req.locked
           /\ TriggerAllows(req.status, me.target)
        \/ /\ req'.status = "pending_payment" /\ req'.locked = FALSE
           /\ TriggerAllows(req.status, "pending_payment")
    <3>1. CASE reqOwner # s
      BY <1>1, <3>1 DEF SameStanding
    <3>2. CASE reqOwner = s
      <4>1. OutOf(me) /\ req' = me.out /\ me.out.locked \in BOOLEAN
        BY <1>0, <1>1, <3>2 DEF Fits, IsSession, IsRequest
      <4>2. me.op = "transition" => me.target \in Targets
        BY <1>0 DEF IsSession
      <4> QED
        BY <3>2, <4>1, <4>2 DEF OutOf
    <3> QED
      BY <3>1, <3>2
  <2>6. me.target \in RequestStatus \ {"payment_processed"}
        /\ "pending_payment" \in RequestStatus \ {"payment_processed"}
    BY <1>0 DEF IsSession, RequestStatus
  <2>7. \A t \in Targets : t \notin {"hold_by_accounts", "rejected_by_accounts"}
    BY DEF Promising
  <2> QED
    BY <2>2, <2>3, <2>4, <2>5, <2>6, <2>7
<1> QED
  BY <1>2, <1>3

\* The interleaved handlers implement PaymentPromise: whatever the sessions read
\* before, a committed payment is of an unpaid tranche of a file in the queue, every
\* change of status is in the trigger's graph, and completion sets the lock.
THEOREM Refinement == Promising /\ Spec => PromiseKept
<1> SUFFICES ASSUME Promising PROVE Spec => PromiseKept
  BY DEF Promising
<1>1. Init => Promise!PInit
  <2> SUFFICES ASSUME Init PROVE Promise!PInit
    OBVIOUS
  <2>1. PICK k \in Nums, a \in [Nums -> Amounts], ready \in [Nums -> BOOLEAN] :
          tr = [n \in Nums |-> IF n <= k THEN [NewRow(a[n]) EXCEPT !.ready = ready[n]]
                                         ELSE NoRow]
    BY DEF Init
  <2>2. Paid(tr) = {}
    BY <2>1 DEF Paid, NewRow, NoRow
  <2> QED
    BY <2>2 DEF Init, NoRequest, Promise!PInit
<1>2. IndInv /\ [Next]_vars => [Promise!PNext]_(Promise!pvars)
  <2> SUFFICES ASSUME IndInv, [Next]_vars PROVE [Promise!PNext]_(Promise!pvars)
    OBVIOUS
  <2>1. CASE UNCHANGED <<req, tr, pays>>
    BY <2>1 DEF Promise!pvars, Paid
  <2> QED
    BY <2>1, CommitRefines, OnlyCommitsWrite
<1> QED
  BY <1>1, <1>2, LocksAreHeld, PTL DEF Spec, PromiseKept, Promise!PSpec

--------------------------------------------------------------------------------
\* The sum of the live tranches.

\* What a tranche adds to the sum.
Weight(t, n) == IF t[n].status \in {"unpaid", "paid"} THEN t[n].amount ELSE 0

\* The live sum is a number; it falls if no tranche weighs more and one weighs less.
LEMMA LiveSumFalls ==
  ASSUME NEW t \in [Nums -> Row], NEW u \in [Nums -> Row],
         \A n \in Nums : Weight(u, n) <= Weight(t, n)
  PROVE  /\ LiveSum(t) \in Nat /\ LiveSum(u) \in Nat /\ LiveSum(u) <= LiveSum(t)
         /\ (\E n \in Nums : Weight(u, n) # Weight(t, n)) => LiveSum(u) < LiveSum(t)
<1> DEFINE f == [n \in Nums |-> Weight(u, n)]
           g == [n \in Nums |-> Weight(t, n)]
<1>1. LiveSum(u) = SumOn(f, Nums) /\ LiveSum(t) = SumOn(g, Nums)
  <2>1. /\ f = [n \in Nums |-> IF n \in Live(u) THEN u[n].amount ELSE 0]
        /\ g = [n \in Nums |-> IF n \in Live(t) THEN t[n].amount ELSE 0]
    BY DEF Weight, Live
  <2>2. LiveSum(u) = FoldFunction(+, 0, f) /\ LiveSum(t) = FoldFunction(+, 0, g)
    BY <2>1, Zenon DEF LiveSum
  <2>3. DOMAIN f = Nums /\ DOMAIN g = Nums
    OBVIOUS
  <2> HIDE DEF f, g
  <2> QED
    BY <2>2, <2>3, FoldIsSum
<1>2. \A n \in Nums : f[n] \in Nat /\ g[n] \in Nat /\ f[n] <= g[n]
  <2>1. \A n \in Nums : u[n].amount \in Nat /\ t[n].amount \in Nat
    BY DEF Row
  <2> QED
    BY <2>1 DEF Weight
<1>3. \A n \in Nums : f[n] = g[n] => Weight(u, n) = Weight(t, n)
  OBVIOUS
<1>4. IsFiniteSet(Nums)
  BY ConstantsOK, FS_Interval DEF Nums
<1> HIDE DEF f, g
<1>5. /\ SumOn(f, Nums) \in Nat /\ SumOn(g, Nums) \in Nat /\ SumOn(f, Nums) <= SumOn(g, Nums)
      /\ SumOn(f, Nums) = SumOn(g, Nums) => \A n \in Nums : f[n] = g[n]
  BY <1>2, <1>4, SumsOrdered
<1> QED
  BY <1>1, <1>3, <1>5

--------------------------------------------------------------------------------
\* Payments and deletes side by side.  A delete reads the deposit before it removes
\* its row, and deposits only shrink with the rows, so its own sum is below what it
\* read: it always updates the request, and looks at its siblings as the owner of the
\* request row, like a payment.

\* Calls that leave it at that: nothing else takes rows away or moves the request.
PaysAndDeletes == Ops \subseteq {"pay", "bulk", "details", "delete"}

\* A deposit that covers the live tranches of t.
Covers(deposit, t) == deposit \in Nat /\ LiveSum(t) <= deposit

\* The rows when the delete of a session is done.
After(me, t) == IF me.op = "delete" THEN [t EXCEPT ![me.n] = NoRow] ELSE t

\* Work that remains besides a session's own tranche.
LeavesWork(me, t) ==
  \/ Unpaid(t) \ {me.n} # {}
  \/ me.op = "delete" /\ Rows(t) \subseteq {me.n}

\* What a session knows, given whether it owns the request row.
Deduces(me, owns, t) ==
  /\ me.op = "delete" =>
       /\ me.pc # "read" => me.seen.status = "pending_payment" /\ Covers(me.seen.deposit, t)
       /\ me.pc \in {"update", "siblings", "finish", "commit"} => Covers(me.sum, After(me, t))
       /\ me.pc \in {"siblings", "finish", "commit"} => owns
  /\ owns => Covers(me.out.deposit, After(me, t))
  /\ me.pc = "commit" /\ me.op \in {"pay", "bulk", "delete"}
       /\ me.out.status # "payment_processed" => LeavesWork(me, t)

\* A file in the queue that has tranches has one to pay, and its deposit covers them.
QueueHasWork ==
  /\ \A n \in Nums : /\ tr[n].status \in {"none", "unpaid", "paid"}
                     /\ tr[n].status # "none" => tr[n].amount # 0
  /\ req.status \in {"pending_payment", "payment_processed"}
  /\ Covers(req.deposit, tr)
  /\ req.status = "pending_payment" => Rows(tr) = {} \/ Unpaid(tr) # {}
  /\ \A s \in Sessions : Deduces(sess[s], reqOwner = s, tr)

\* The sum without a row; a live row's amount is gone.
LEMMA RemovedRow ==
  ASSUME NEW t \in [Nums -> Row], NEW n \in Nums
  PROVE  /\ [t EXCEPT ![n] = NoRow] \in [Nums -> Row]
         /\ LiveSum([t EXCEPT ![n] = NoRow]) \in Nat /\ LiveSum(t) \in Nat
         /\ t[n].status = "unpaid" /\ t[n].amount # 0 =>
              LiveSum([t EXCEPT ![n] = NoRow]) < LiveSum(t)
<1> DEFINE u == [t EXCEPT ![n] = NoRow]
<1>1. u \in [Nums -> Row] /\ u[n] = NoRow /\ \A m \in Nums \ {n} : u[m] = t[m]
  BY DEF Row, NoRow
<1> HIDE DEF u
<1>2. Weight(u, n) = 0 /\ \A m \in Nums \ {n} : Weight(u, m) = Weight(t, m)
  BY <1>1 DEF Weight, NoRow
<1>3. \A m \in Nums : Weight(t, m) \in Nat
  BY DEF Weight, Row
<1>4. \A m \in Nums : Weight(u, m) <= Weight(t, m)
  BY <1>2, <1>3
<1>5. t[n].status = "unpaid" /\ t[n].amount # 0 => Weight(u, n) # Weight(t, n)
  BY <1>2 DEF Weight
<1>6. /\ LiveSum(u) \in Nat /\ LiveSum(t) \in Nat
      /\ (\E m \in Nums : Weight(u, m) # Weight(t, m)) => LiveSum(u) < LiveSum(t)
  BY <1>1, <1>4, LiveSumFalls
<1> QED
  BY <1>1, <1>5, <1>6 DEF u

\* What covers the rows still covers them when they weigh less.
LEMMA StillCovers ==
  ASSUME NEW t \in [Nums -> Row], NEW u \in [Nums -> Row],
         \A n \in Nums : Weight(u, n) <= Weight(t, n), NEW me, me.n \in Nums
  PROVE  /\ \A deposit : Covers(deposit, t) => Covers(deposit, u)
         /\ \A deposit : Covers(deposit, After(me, t)) => Covers(deposit, After(me, u))
<1>1. ASSUME NEW x \in [Nums -> Row], NEW y \in [Nums -> Row],
             \A n \in Nums : Weight(y, n) <= Weight(x, n), NEW deposit, Covers(deposit, x)
      PROVE  Covers(deposit, y)
  <2>1. LiveSum(x) \in Nat /\ LiveSum(y) \in Nat /\ LiveSum(y) <= LiveSum(x)
    BY <1>1, LiveSumFalls
  <2> QED
    BY <1>1, <2>1 DEF Covers
<1>2. After(me, t) \in [Nums -> Row] /\ After(me, u) \in [Nums -> Row]
  BY RemovedRow DEF After
<1>3. \A n \in Nums : Weight(After(me, u), n) <= Weight(After(me, t), n)
  <2> TAKE n \in Nums
  <2>1. CASE me.op # "delete"
    BY <2>1 DEF After
  <2>2. CASE me.op = "delete" /\ n # me.n
    <3>1. After(me, u)[n] = u[n] /\ After(me, t)[n] = t[n]
      BY <2>2 DEF After
    <3> QED
      BY <3>1 DEF Weight
  <2>3. CASE me.op = "delete" /\ n = me.n
    <3>1. After(me, u)[n] = NoRow /\ After(me, t)[n] = NoRow
      BY <2>3 DEF After
    <3> QED
      BY <3>1 DEF Weight, NoRow
  <2> QED
    BY <2>1, <2>2, <2>3
<1> QED
  BY <1>1, <1>2, <1>3

\* A step that writes nothing and takes at most the request row says what its own
\* session knows; the others know what they knew.
LEMMA LocalDeduces ==
  ASSUME IndInv, QueueHasWork, NEW s \in Sessions, NEW me, sess' = [sess EXCEPT ![s] = me],
         UNCHANGED <<req, tr>>,
         \/ TakesRequest(s)
         \/ reqOwner' = IF reqOwner = s THEN NoSession ELSE reqOwner,
         Deduces(me, reqOwner' = s, tr)
  PROVE  QueueHasWork'
<1>1. \A u \in Sessions : sess'[u] = IF u = s THEN me ELSE sess[u]
  BY DEF IndInv, Types
<1>2. ASSUME NEW u \in Sessions PROVE Deduces(sess'[u], reqOwner' = u, tr)
  <2>1. CASE u = s
    BY <1>1, <2>1
  <2>2. CASE u # s
    <3>1. (reqOwner' = u) = (reqOwner = u)
      BY <2>2, ConstantsOK DEF TakesRequest, FreeToUpdate
    <3>2. sess'[u] = sess[u] /\ Deduces(sess[u], reqOwner = u, tr)
      BY <1>1, <2>2 DEF QueueHasWork
    <3> QED
      BY <3>1, <3>2
  <2> QED
    BY <2>1, <2>2
<1> QED
  BY <1>2 DEF QueueHasWork, Rows, Unpaid

\* A session that has been rolled back, or takes no request row, knows nothing.
LEMMA RollbackDeduces ==
  ASSUME IndInv, QueueHasWork, NEW s \in Sessions, Rollback(s)
  PROVE  QueueHasWork'
<1>1. reqOwner' # s
  BY ConstantsOK DEF Rollback, Release
<1>2. Deduces(Idle, reqOwner' = s, tr)
  BY <1>1 DEF Deduces, Idle
<1> QED
  BY <1>2, LocalDeduces DEF Rollback, Release

\* Reading statements without a lock.
LEMMA ContinueDeduces ==
  ASSUME IndInv, QueueHasWork, NEW s \in Sessions, NEW ok, NEW me, Continue(s, ok, me),
         ok => Deduces(me, reqOwner = s, tr)
  PROVE  QueueHasWork'
<1>1. CASE ok
  BY <1>1, LocalDeduces DEF Continue, TakesRequest
<1>2. CASE ~ok
  BY <1>2, RollbackDeduces DEF Continue
<1> QED
  BY <1>1, <1>2

\* Statements that lock the request row.
LEMMA WithRequestDeduces ==
  ASSUME IndInv, QueueHasWork, NEW s \in Sessions, NEW ok, NEW me, WithRequest(s, ok, me),
         FreeToUpdate(s), ok => Deduces(me, TRUE, tr)
  PROVE  QueueHasWork'
<1>1. CASE ok
  <2>1. Deduces(me, reqOwner' = s, tr)
    <3>1. (reqOwner' = s) = TRUE
      BY <1>1 DEF WithRequest
    <3> QED
      BY <1>1, <3>1
  <2> QED
    BY <1>1, <2>1, LocalDeduces DEF WithRequest, TakesRequest
<1>2. CASE ~ok
  BY <1>2, RollbackDeduces DEF WithRequest
<1> QED
  BY <1>1, <1>2

\* What is known of a session in such a file, and its calls.
LEMMA KnownSession ==
  ASSUME PaysAndDeletes, IndInv, QueueHasWork, NEW s \in Sessions
  PROVE  /\ IsSession(sess[s]) /\ Fits(s, sess[s], reqOwner, rowOwner)
         /\ Deduces(sess[s], reqOwner = s, tr)
         /\ sess[s].op \in {"none", "pay", "bulk", "details", "delete"}
         /\ sess[s].n \in Nums /\ tr \in [Nums -> Row]
         /\ reqOwner = s => sess[s].op \in {"pay", "bulk", "delete"}
<1>1. /\ IsSession(sess[s]) /\ Fits(s, sess[s], reqOwner, rowOwner)
      /\ sess[s].n \in Nums /\ tr \in [Nums -> Row]
  BY SessionFacts DEF IndInv, Types, TypeOK
<1>2. sess[s].op \in {"none", "pay", "bulk", "details", "delete"}
  BY <1>1 DEF IsSession, PaysAndDeletes
<1>3. reqOwner = s => sess[s].op \in {"pay", "bulk", "delete"}
  BY <1>1, <1>2 DEF Fits, OutOf
<1> QED
  BY <1>1, <1>2, <1>3 DEF QueueHasWork

\* The first statements of the calls, up to their row lock.
LEMMA OpeningDeduces ==
  ASSUME PaysAndDeletes, IndInv, QueueHasWork, NEW s \in Sessions,
         \/ Begin(s) \/ ReadRequest(s) \/ CheckTouched(s) \/ PickTranche(s) \/ LockRow(s)
         \/ CountRows(s)
  PROVE  QueueHasWork'
<1> DEFINE me == sess[s]
<1>0. /\ IsSession(me) /\ Fits(s, me, reqOwner, rowOwner)
      /\ Deduces(me, reqOwner = s, tr)
      /\ me.op \in {"none", "pay", "bulk", "details", "delete"}
      /\ reqOwner = s => me.op \in {"pay", "bulk", "delete"}
  BY KnownSession
<1>1. CASE Begin(s)
  <2>1. PICK c \in Calls : sess' = [sess EXCEPT ![s] =
          [Idle EXCEPT !.op = c.op, !.n = c.n, !.amount = c.amount, !.target = c.target,
                       !.pc = IF c.op = "pay" THEN "lockRequest" ELSE "read"]]
    BY <1>1 DEF Begin
  <2> DEFINE new == [Idle EXCEPT !.op = c.op, !.n = c.n, !.amount = c.amount,
                                 !.target = c.target,
                                 !.pc = IF c.op = "pay" THEN "lockRequest" ELSE "read"]
  <2>2. new.op = c.op /\ new.pc = IF c.op = "pay" THEN "lockRequest" ELSE "read"
    BY DEF Idle
  <2>3. me.op = "none"
    BY <1>0, <1>1, ConstantsOK DEF Begin, IsSession, PlacesOf
  <2>4. sess' = [sess EXCEPT ![s] = new] /\ UNCHANGED <<req, tr>> /\ reqOwner' = reqOwner
    BY <1>1, <2>1 DEF Begin
  <2> HIDE DEF new
  <2>5. Deduces(new, reqOwner' = s, tr)
    BY <1>0, <2>2, <2>3, <2>4 DEF Deduces
  <2> QED
    BY <2>4, <2>5, LocalDeduces DEF TakesRequest
<1> HIDE DEF me
<1>2. CASE ReadRequest(s)
  <2> DEFINE next == CASE me.op \in {"edit", "delete"} -> "touched"
                       [] me.op = "add" ->
                            IF req.status = "payment_processed" THEN "ceiling" ELSE "touched"
                       [] me.op \in {"reject", "cancel", "details"} -> "lockRow"
                       [] me.op = "transition" -> "guard"
                       [] me.op = "bulk" -> "pick"
             new == [me EXCEPT !.pc = next, !.seen = req]
  <2>1. me.pc = "read" /\ Continue(s, MayStart(me, req), new)
    BY <1>2 DEF ReadRequest, me
  <2>2. me.op \in {"bulk", "details", "delete"}
    BY <1>0, <2>1 DEF IsSession, PlacesOf
  <2>3. /\ new.op = me.op /\ new.out = me.out /\ new.n = me.n /\ new.seen = req
        /\ new.pc \in {"touched", "lockRow", "pick"}
    BY <1>0, <2>2 DEF IsSession
  <2>4. MayStart(me, req) /\ me.op = "delete" => req.status = "pending_payment"
    BY DEF MayStart, QueueHasWork, EditableStatuses
  <2> HIDE DEF new
  <2>5. MayStart(me, req) => Deduces(new, reqOwner = s, tr)
    BY <1>0, <2>3, <2>4 DEF Deduces, After, QueueHasWork
  <2> QED
    BY <2>1, <2>5, ContinueDeduces
<1>3. CASE CheckTouched(s)
  <2> DEFINE new == [me EXCEPT !.pc = IF me.op = "add" THEN "ceiling" ELSE "lockRow"]
  <2>1. me.pc = "touched" /\ \E ok : Continue(s, ok, new)
    BY <1>3 DEF CheckTouched, me
  <2>2. /\ new.op = me.op /\ new.out = me.out /\ new.n = me.n /\ new.seen = me.seen
        /\ new.pc = "lockRow"
    BY <1>0 DEF IsSession
  <2> HIDE DEF new
  <2>3. Deduces(new, reqOwner = s, tr)
    BY <1>0, <2>1, <2>2 DEF Deduces, After
  <2> QED
    BY <2>1, <2>3, ContinueDeduces
<1>4. CASE PickTranche(s)
  <2>1. me.pc = "pick" /\ \E ok, n : Continue(s, ok, [me EXCEPT !.pc = "lockRow", !.n = n])
    BY <1>4 DEF PickTranche, me
  <2>2. me.op = "bulk"
    BY <1>0, <2>1 DEF IsSession, PlacesOf
  <2>3. PICK ok, n : Continue(s, ok, [me EXCEPT !.pc = "lockRow", !.n = n])
    BY <2>1
  <2> DEFINE new == [me EXCEPT !.pc = "lockRow", !.n = n]
  <2>4. new.op = me.op /\ new.out = me.out /\ new.pc = "lockRow"
    BY <1>0 DEF IsSession
  <2>5. Continue(s, ok, new)
    BY <2>3
  <2> HIDE DEF new
  <2>6. Deduces(new, reqOwner = s, tr)
    BY <1>0, <2>2, <2>4 DEF Deduces, After
  <2> QED
    BY <2>5, <2>6, ContinueDeduces
<1>5. CASE LockRow(s)
  <2>1. CASE Rollback(s)
    BY <2>1, RollbackDeduces
  <2>2. CASE ~Rollback(s)
    <3> DEFINE next == CASE me.op = "pay" -> "count"
                         [] me.op = "bulk" -> "lockRequest"
                         [] me.op = "edit" -> "ceiling"
                         [] me.op = "delete" -> "rows"
                         [] me.op \in {"reject", "cancel"} -> "sum"
                         [] me.op = "details" -> "commit"
               new == [me EXCEPT !.pc = next]
    <3>1. /\ me.pc = "lockRow" /\ sess' = [sess EXCEPT ![s].pc = next]
          /\ UNCHANGED <<req, tr>> /\ reqOwner' = reqOwner
      BY <1>5, <2>2 DEF LockRow, me
    <3>2. me.op \in {"pay", "bulk", "details", "delete"}
      BY <1>0, <3>1 DEF IsSession, PlacesOf
    <3>3. /\ next \in {"count", "lockRequest", "rows", "commit"}
          /\ next = "commit" => me.op = "details"
      BY <3>2
    <3> HIDE DEF next
    <3>4. sess' = [sess EXCEPT ![s] = new]
      BY <3>1 DEF me
    <3>5. /\ new.op = me.op /\ new.out = me.out /\ new.n = me.n /\ new.seen = me.seen
          /\ new.pc = next
      BY <1>0 DEF IsSession
    <3> HIDE DEF new
    <3>6. Deduces(new, reqOwner' = s, tr)
      BY <1>0, <3>1, <3>3, <3>5 DEF Deduces, After
    <3> QED
      BY <3>1, <3>4, <3>6, LocalDeduces DEF TakesRequest
  <2> QED
    BY <2>1, <2>2
<1>6. CASE CountRows(s)
  <2> DEFINE new == [me EXCEPT !.pc = "sum"]
  <2>1. me.pc = "rows" /\ \E ok : Continue(s, ok, new)
    BY <1>6 DEF CountRows, me
  <2>2. /\ new.op = me.op /\ new.out = me.out /\ new.n = me.n /\ new.seen = me.seen
        /\ new.pc = "sum"
    BY <1>0 DEF IsSession
  <2> HIDE DEF new
  <2>3. Deduces(new, reqOwner = s, tr)
    BY <1>0, <2>1, <2>2 DEF Deduces, After
  <2> QED
    BY <2>1, <2>3, ContinueDeduces
<1> QED
  BY <1>1, <1>2, <1>3, <1>4, <1>5, <1>6

\* The delete after its row is gone: the sum has fallen, so it locks the request.
LEMMA DeleteDeduces ==
  ASSUME PaysAndDeletes, IndInv, QueueHasWork, NEW s \in Sessions,
         SumTranches(s) \/ UpdateTotals(s) \/ CheckSiblings(s) \/ Finish(s)
  PROVE  QueueHasWork'
<1> DEFINE me == sess[s]
<1>0. /\ IsSession(me) /\ Fits(s, me, reqOwner, rowOwner)
      /\ Deduces(me, reqOwner = s, tr)
      /\ me.op \in {"none", "pay", "bulk", "details", "delete"}
      /\ me.n \in Nums /\ tr \in [Nums -> Row]
  BY KnownSession
<1>1. me.op = "delete" /\ me.pc \in {"sum", "update", "siblings", "finish"}
  BY <1>0 DEF SumTranches, UpdateTotals, CheckSiblings, Finish, IsSession, PlacesOf
<1>2. View(s) = After(me, tr)
  BY <1>1 DEF View, Written, WrittenRow, After
<1> HIDE DEF me
<1>3. CASE SumTranches(s)
  <2> DEFINE sum == LiveSum(After(me, tr))
             new == [me EXCEPT !.sum = sum,
                               !.pc = IF sum = me.seen.deposit THEN "siblings" ELSE "update"]
  <2>1. me.pc = "sum" /\ Continue(s, TRUE, new)
    BY <1>1, <1>2, <1>3 DEF SumTranches, me
  <2>2. tr[me.n].status = "unpaid" /\ tr[me.n].amount # 0
    <3>1. tr[me.n].status \in {"unpaid", "cancelled"}
      BY <1>0, <1>1, <2>1 DEF Fits, HoldsRow, StatusesOf
    <3> QED
      BY <1>0, <3>1 DEF QueueHasWork
  <2>3. sum \in Nat /\ LiveSum(tr) \in Nat /\ sum < LiveSum(tr)
    BY <1>0, <1>1, <2>2, RemovedRow DEF After
  <2>4. Covers(me.seen.deposit, tr)
    BY <1>0, <1>1, <2>1 DEF Deduces
  <2>5. sum # me.seen.deposit
    BY <2>3, <2>4 DEF Covers
  <2>6. Covers(sum, After(me, tr))
    BY <2>3 DEF Covers
  <2> HIDE DEF sum
  <2>7. /\ new.op = me.op /\ new.out = me.out /\ new.n = me.n /\ new.seen = me.seen
        /\ new.pc = "update" /\ new.sum = sum
    BY <1>0, <2>5 DEF IsSession
  <2> HIDE DEF new
  <2>8. Deduces(new, reqOwner = s, tr)
    BY <1>0, <1>1, <2>1, <2>6, <2>7 DEF Deduces, After
  <2> QED
    BY <2>1, <2>8, ContinueDeduces
<1>4. CASE UpdateTotals(s)
  <2> DEFINE out == [Current(s) EXCEPT !.deposit = me.sum]
             new == [me EXCEPT !.pc = "siblings", !.out = out]
  <2>1. me.pc = "update" /\ FreeToUpdate(s) /\ WithRequest(s, TRUE, new)
    BY <1>1, <1>4 DEF UpdateTotals, me
  <2>2. IsRequest(Current(s))
    BY <1>0, SessionFacts DEF Current, IsSession, me
  <2>3. out.deposit = me.sum
    BY <2>2 DEF IsRequest
  <2> HIDE DEF out
  <2>4. /\ new.op = me.op /\ new.out = out /\ new.n = me.n /\ new.seen = me.seen
        /\ new.pc = "siblings" /\ new.sum = me.sum
    BY <1>0 DEF IsSession
  <2> HIDE DEF new
  <2>5. Deduces(new, TRUE, tr)
    BY <1>0, <1>1, <2>1, <2>3, <2>4 DEF Deduces, After
  <2> QED
    BY <2>1, <2>5, WithRequestDeduces
<1>5. CASE CheckSiblings(s)
  <2> DEFINE live == Live(After(me, tr))
             completes == /\ me.seen.status = "pending_payment"
                          /\ live # {} /\ live = Paid(After(me, tr))
             new == [me EXCEPT !.pc = IF completes THEN "finish" ELSE "commit"]
  <2>1. me.pc = "siblings" /\ Continue(s, TRUE, new)
    BY <1>2, <1>5 DEF CheckSiblings, me
  <2>2. me.seen.status = "pending_payment" /\ reqOwner = s
    BY <1>0, <1>1, <2>1 DEF Deduces
  <2>3. ~completes => LeavesWork(me, tr)
    <3>1. \A n \in Nums : After(me, tr)[n].status =
                            IF n = me.n THEN "none" ELSE tr[n].status
      BY <1>0, <1>1 DEF After, NoRow
    <3>2. live = Rows(tr) \ {me.n}
      BY <3>1 DEF Live, Rows, QueueHasWork
    <3>3. \A n \in live : n \in Paid(After(me, tr)) \/ n \in Unpaid(tr) \ {me.n}
      BY <3>1 DEF Live, Paid, Unpaid
    <3>4. Paid(After(me, tr)) \subseteq live
      BY DEF Live, Paid
    <3> QED
      BY <1>1, <2>2, <3>2, <3>3, <3>4 DEF LeavesWork
  <2> HIDE DEF completes
  <2>4. /\ new.op = me.op /\ new.out = me.out /\ new.n = me.n /\ new.seen = me.seen
        /\ new.sum = me.sum /\ new.pc = IF completes THEN "finish" ELSE "commit"
    BY <1>0 DEF IsSession
  <2> HIDE DEF new
  <2>5. Deduces(new, reqOwner = s, tr)
    BY <1>0, <1>1, <2>1, <2>2, <2>3, <2>4 DEF Deduces, After, LeavesWork
  <2> QED
    BY <2>1, <2>5, ContinueDeduces
<1>6. CASE Finish(s)
  <2> DEFINE ok == TriggerAllows(Current(s).status, "payment_processed")
             out == Completed(me.out)
             new == [me EXCEPT !.pc = "commit", !.out = out]
  <2>1. me.pc = "finish" /\ FreeToUpdate(s)
    BY <1>6 DEF Finish, me
  <2>2. reqOwner = s
    BY <1>0, <1>1, <2>1 DEF Deduces
  <2>3. WithRequest(s, ok, new)
    BY <1>6, <2>2 DEF Finish, Current, me
  <2>4. out.deposit = me.out.deposit /\ out.status = "payment_processed"
    BY <1>0 DEF IsSession, IsRequest, Completed
  <2> HIDE DEF out, ok
  <2>5. /\ new.op = me.op /\ new.out = out /\ new.n = me.n /\ new.seen = me.seen
        /\ new.sum = me.sum /\ new.pc = "commit"
    BY <1>0 DEF IsSession
  <2> HIDE DEF new
  <2>6. Deduces(new, TRUE, tr)
    BY <1>0, <1>1, <2>1, <2>2, <2>4, <2>5 DEF Deduces, After
  <2> QED
    BY <2>1, <2>3, <2>6, WithRequestDeduces
<1> QED
  BY <1>3, <1>4, <1>5, <1>6

\* A payment that does not complete the file has counted another unpaid tranche.
LEMMA PaymentDeduces ==
  ASSUME PaysAndDeletes, IndInv, QueueHasWork, NEW s \in Sessions,
         LockRequest(s) \/ CountUnpaid(s)
  PROVE  QueueHasWork'
<1> DEFINE me == sess[s]
<1>0. /\ IsSession(me) /\ Fits(s, me, reqOwner, rowOwner)
      /\ Deduces(me, reqOwner = s, tr)
      /\ me.op \in {"none", "pay", "bulk", "details", "delete"}
      /\ me.n \in Nums /\ tr \in [Nums -> Row]
  BY KnownSession
<1>1. me.op \in {"pay", "bulk"} /\ me.pc \in {"lockRequest", "count"}
  BY <1>0 DEF LockRequest, CountUnpaid, IsSession, PlacesOf
<1> HIDE DEF me
<1>2. CASE LockRequest(s)
  <2> DEFINE first == [me EXCEPT !.pc = "lockRow", !.seen = req, !.out = req]
             second == [me EXCEPT !.pc = "count", !.out = req]
  <2>1. /\ \/ WithRequest(s, TRUE, first)
           \/ WithRequest(s, me.seen.status = "pending_payment", second)
        /\ FreeToUpdate(s)
    BY <1>2 DEF LockRequest, FreeToLock, FreeToUpdate, me
  <2>2. /\ first.op = me.op /\ first.out = req /\ first.pc = "lockRow"
        /\ second.op = me.op /\ second.out = req /\ second.pc = "count"
    BY <1>0 DEF IsSession
  <2> HIDE DEF first, second
  <2>3. Deduces(first, TRUE, tr) /\ Deduces(second, TRUE, tr)
    BY <1>1, <2>2 DEF Deduces, After, QueueHasWork
  <2> QED
    BY <2>1, <2>3, WithRequestDeduces
<1>3. CASE CountUnpaid(s)
  <2> DEFINE final == \E n \in Nums : Unpaid(tr) = {n}
             out == IF final THEN Completed(me.out) ELSE me.out
             new == [me EXCEPT !.pc = "commit", !.out = out]
  <2>1. /\ me.pc = "count"
        /\ Continue(s, final => TriggerAllows(me.out.status, "payment_processed"), new)
    BY <1>3 DEF CountUnpaid, me
  <2>2. /\ out.deposit = me.out.deposit
        /\ out.status # "payment_processed" => ~final /\ out = me.out
    BY <1>0 DEF IsSession, IsRequest, Completed
  <2>3. out.status # "payment_processed" => Unpaid(tr) \ {me.n} # {}
    <3> SUFFICES ASSUME out.status # "payment_processed" PROVE Unpaid(tr) \ {me.n} # {}
      OBVIOUS
    <3>1. reqOwner = s
      BY <1>0, <1>1, <2>1 DEF Fits, HoldsRequest
    <3>2. req.status = "pending_payment"
      BY <1>0, <1>1, <2>1, <2>2, <3>1 DEF Fits, OutOf, SameStanding, QueueHasWork
    <3>3. tr[me.n].status # "none"
      BY <1>0, <1>1, <2>1 DEF Fits, HoldsRow, StatusesOf
    <3>4. Unpaid(tr) # {}
      BY <1>0, <3>2, <3>3 DEF QueueHasWork, Rows
    <3>5. PICK k \in Unpaid(tr) : TRUE
      BY <3>4
    <3>6. Unpaid(tr) # {me.n}
      BY <1>0, <2>2
    <3> QED
      BY <3>5, <3>6
  <2> HIDE DEF out
  <2>4. new.op = me.op /\ new.out = out /\ new.n = me.n /\ new.pc = "commit"
    BY <1>0 DEF IsSession
  <2> HIDE DEF new, final
  <2>5. Deduces(new, reqOwner = s, tr)
    BY <1>0, <1>1, <2>2, <2>3, <2>4 DEF Deduces, After, LeavesWork
  <2> QED
    BY <2>1, <2>5, ContinueDeduces
<1> QED
  BY <1>2, <1>3

\* A commit of these calls: what it does to the row of its session and to the request.
LEMMA CommitLightens ==
  ASSUME PaysAndDeletes, IndInv, QueueHasWork, NEW s \in Sessions, Commit(s)
  PROVE  /\ sess[s].op \in {"pay", "bulk", "details", "delete"}
         /\ tr' \in [Nums -> Row] /\ \A n \in Nums \ {sess[s].n} : tr'[n] = tr[n]
         /\ \A n \in Nums : Weight(tr', n) <= Weight(tr, n)
         /\ tr'[sess[s].n].status = CASE sess[s].op = "delete" -> "none"
                                      [] sess[s].op = "details" -> tr[sess[s].n].status
                                      [] OTHER -> "paid"
         /\ tr'[sess[s].n].status # "none" =>
              tr[sess[s].n].status # "none" /\ tr'[sess[s].n].amount = tr[sess[s].n].amount
         /\ sess[s].op = "delete" => tr' = After(sess[s], tr)
<1> DEFINE me == sess[s]
           n == me.n
<1>0. /\ IsSession(me) /\ n \in Nums /\ tr \in [Nums -> Row]
      /\ me.op \in {"none", "pay", "bulk", "details", "delete"}
  BY KnownSession
<1>1. me.pc = "commit"
  BY DEF Commit
<1>2. me.op \in {"pay", "bulk", "details", "delete"}
  BY <1>0, <1>1 DEF IsSession, PlacesOf
<1>3. /\ tr[n].status \in StatusesOf(me.op) /\ WrittenRow(s) \in Row
      /\ tr' = [tr EXCEPT ![n] = WrittenRow(s)]
      /\ WrittenRow(s).status = StatusWritten(me.op, tr[n].status)
      /\ me.op \in {"pay", "bulk", "details"} => WrittenRow(s).amount = tr[n].amount
  BY <1>2, CommitWrites
<1>4. me.op = "delete" => WrittenRow(s) = NoRow
  BY DEF WrittenRow
<1> HIDE DEF me, n
<1>5. /\ tr' \in [Nums -> Row] /\ tr'[n] = WrittenRow(s)
      /\ \A m \in Nums \ {n} : tr'[m] = tr[m]
  BY <1>0, <1>3
<1>6. tr'[n].status = CASE me.op = "delete" -> "none" [] me.op = "details" -> tr[n].status
                        [] OTHER -> "paid"
  BY <1>2, <1>3, <1>5 DEF StatusWritten
<1>7. tr[n].status \in {"none", "unpaid", "paid"} /\ tr[n].status # "none"
  BY <1>0, <1>2, <1>3 DEF QueueHasWork, StatusesOf
<1>8. \A m \in Nums : Weight(tr, m) \in Nat
  BY <1>0 DEF Weight, Row
<1>9. Weight(tr', n) <= Weight(tr, n)
  <2>1. CASE me.op = "delete"
    <3>1. Weight(tr', n) = 0
      BY <1>6, <2>1 DEF Weight
    <3> QED
      BY <1>0, <1>8, <3>1
  <2>2. CASE me.op # "delete"
    <3>1. Weight(tr', n) = Weight(tr, n)
      BY <1>2, <1>3, <1>5, <1>6, <1>7, <2>2 DEF Weight
    <3> QED
      BY <1>0, <1>8, <3>1
  <2> QED
    BY <2>1, <2>2
<1>10. \A m \in Nums : Weight(tr', m) <= Weight(tr, m)
  <2> TAKE m \in Nums
  <2>1. CASE m = n
    BY <1>9, <2>1
  <2>2. CASE m # n
    <3>1. Weight(tr', m) = Weight(tr, m)
      BY <1>5, <2>2 DEF Weight
    <3> QED
      BY <1>8, <3>1
  <2> QED
    BY <2>1, <2>2
<1>11. tr'[n].status # "none" => tr'[n].amount = tr[n].amount
  BY <1>2, <1>3, <1>5, <1>6
<1>12. me.op = "delete" => tr' = After(me, tr)
  BY <1>3, <1>4 DEF After, n
<1> QED
  BY <1>2, <1>5, <1>6, <1>7, <1>10, <1>11, <1>12 DEF me, n

\* The commit itself.  While a payment or a delete owns the request, only changes of
\* the details commit beside it, and those leave every status alone.
LEMMA CommitDeduces ==
  ASSUME PaysAndDeletes, IndInv, QueueHasWork, NEW s \in Sessions, Commit(s)
  PROVE  QueueHasWork'
<1> DEFINE me == sess[s]
           n == me.n
<1>0. /\ IsSession(me) /\ Fits(s, me, reqOwner, rowOwner) /\ Deduces(me, reqOwner = s, tr)
      /\ reqOwner = s => me.op \in {"pay", "bulk", "delete"}
      /\ n \in Nums /\ tr \in [Nums -> Row] /\ me.pc = "commit"
  BY KnownSession DEF Commit
<1>1. /\ me.op \in {"pay", "bulk", "details", "delete"}
      /\ tr' \in [Nums -> Row] /\ \A m \in Nums \ {n} : tr'[m] = tr[m]
      /\ \A m \in Nums : Weight(tr', m) <= Weight(tr, m)
      /\ tr'[n].status = CASE me.op = "delete" -> "none" [] me.op = "details" -> tr[n].status
                           [] OTHER -> "paid"
      /\ tr'[n].status # "none" => tr[n].status # "none" /\ tr'[n].amount = tr[n].amount
      /\ me.op = "delete" => tr' = After(me, tr)
  BY CommitLightens
<1>2. req' = IF reqOwner = s THEN me.out ELSE req
  BY CommitWrites
<1>3. /\ \A u \in Sessions : sess'[u] = IF u = s THEN Idle ELSE sess[u]
      /\ reqOwner' = IF reqOwner = s THEN NoSession ELSE reqOwner
  BY DEF Commit, Release, IndInv, Types
<1>4. (reqOwner = s) = (me.op # "details")
  BY <1>0, <1>1 DEF Fits, HoldsRequest, Deduces
<1> HIDE DEF me, n
<1>5. \A m \in Nums : /\ tr'[m].status \in {"none", "unpaid", "paid"}
                      /\ tr'[m].status # "none" => tr'[m].amount # 0
  <2> TAKE m \in Nums
  <2>1. /\ tr[m].status \in {"none", "unpaid", "paid"}
        /\ tr[m].status # "none" => tr[m].amount # 0
    BY DEF QueueHasWork
  <2>2. CASE m = n
    BY <1>1, <2>1, <2>2
  <2>3. CASE m # n
    BY <1>1, <2>1, <2>3
  <2> QED
    BY <2>2, <2>3
<1>6. req'.status \in {"pending_payment", "payment_processed"}
  BY <1>0, <1>1, <1>2, <1>4 DEF QueueHasWork, Fits, OutOf, SameStanding, Completes
<1>7. /\ \A deposit : Covers(deposit, tr) => Covers(deposit, tr')
      /\ \A who : who.n \in Nums =>
           \A deposit : Covers(deposit, After(who, tr)) => Covers(deposit, After(who, tr'))
  <2>1. ASSUME NEW who, who.n \in Nums
        PROVE  /\ \A deposit : Covers(deposit, tr) => Covers(deposit, tr')
               /\ \A deposit : Covers(deposit, After(who, tr)) => Covers(deposit, After(who, tr'))
    <3> DEFINE now == tr'
    <3>1. now \in [Nums -> Row] /\ \A m \in Nums : Weight(now, m) <= Weight(tr, m)
      BY <1>1
    <3> HIDE DEF now
    <3>2. /\ \A deposit : Covers(deposit, tr) => Covers(deposit, now)
          /\ \A deposit : Covers(deposit, After(who, tr)) => Covers(deposit, After(who, now))
      BY <1>0, <2>1, <3>1, StillCovers
    <3> QED
      BY <3>2 DEF now
  <2>2. me.n \in Nums
    BY <1>0 DEF n
  <2> QED
    BY <2>1, <2>2
<1>8. Covers(req'.deposit, tr')
  <2>1. CASE me.op = "details"
    BY <1>2, <1>4, <1>7, <2>1 DEF QueueHasWork
  <2>2. CASE me.op = "delete"
    BY <1>0, <1>1, <1>2, <1>4, <2>2 DEF Deduces
  <2>3. CASE me.op \in {"pay", "bulk"}
    <3>1. Covers(me.out.deposit, tr)
      BY <1>0, <1>4, <2>3 DEF Deduces, After
    <3> QED
      BY <1>2, <1>4, <1>7, <2>3, <3>1
  <2> QED
    BY <1>1, <2>1, <2>2, <2>3
<1>9. req'.status = "pending_payment" => Rows(tr') = {} \/ Unpaid(tr') # {}
  <2> SUFFICES ASSUME req'.status = "pending_payment"
               PROVE  Rows(tr') = {} \/ Unpaid(tr') # {}
    OBVIOUS
  <2>1. Unpaid(tr) \ {n} \subseteq Unpaid(tr')
    BY <1>1 DEF Unpaid
  <2>2. CASE me.op = "details"
    <3>1. Rows(tr') = Rows(tr) /\ Unpaid(tr') = Unpaid(tr)
      BY <1>0, <1>1, <2>2 DEF Rows, Unpaid
    <3> QED
      BY <1>2, <1>4, <2>2, <3>1 DEF QueueHasWork
  <2>3. CASE me.op # "details"
    <3>1. LeavesWork(me, tr)
      BY <1>0, <1>1, <1>2, <1>4, <2>3 DEF Deduces
    <3>2. me.op = "delete" /\ Rows(tr) \subseteq {n} => Rows(tr') = {}
      BY <1>1 DEF Rows
    <3> QED
      BY <2>1, <3>1, <3>2 DEF LeavesWork, n
  <2> QED
    BY <2>2, <2>3
<1>10. ASSUME NEW u \in Sessions PROVE Deduces(sess'[u], reqOwner' = u, tr')
  <2>1. CASE u = s
    <3>1. sess'[u] = Idle /\ reqOwner' # u
      BY <1>3, <2>1, ConstantsOK
    <3> QED
      BY <3>1 DEF Deduces, Idle
  <2>2. CASE u # s
    <3> DEFINE you == sess[u]
    <3>1. sess'[u] = you /\ (reqOwner' = u) = (reqOwner = u)
      BY <1>3, <2>2, ConstantsOK
    <3>2. /\ Deduces(you, reqOwner = u, tr) /\ you.n \in Nums
          /\ Fits(u, you, reqOwner, rowOwner)
      BY KnownSession
    <3> HIDE DEF you
    <3>3. /\ Covers(you.seen.deposit, tr) => Covers(you.seen.deposit, tr')
          /\ Covers(you.sum, After(you, tr)) => Covers(you.sum, After(you, tr'))
          /\ Covers(you.out.deposit, After(you, tr)) => Covers(you.out.deposit, After(you, tr'))
      BY <1>7, <3>2
    <3>4. you.pc = "commit" /\ you.op \in {"pay", "bulk", "delete"} /\ LeavesWork(you, tr)
            => LeavesWork(you, tr')
      <4> SUFFICES ASSUME you.pc = "commit", you.op \in {"pay", "bulk", "delete"},
                          LeavesWork(you, tr)
                   PROVE  LeavesWork(you, tr')
        OBVIOUS
      <4>1. reqOwner = u
        BY <3>2 DEF Fits, HoldsRequest, Deduces
      <4>2. me.op = "details"
        BY <1>4, <2>2, <4>1
      <4>3. Rows(tr') = Rows(tr) /\ Unpaid(tr') = Unpaid(tr)
        BY <1>0, <1>1, <4>2 DEF Rows, Unpaid
      <4> QED
        BY <4>3 DEF LeavesWork
    <3>5. Deduces(you, reqOwner = u, tr')
      BY <3>2, <3>3, <3>4 DEF Deduces
    <3> QED
      BY <3>1, <3>5
  <2> QED
    BY <2>1, <2>2
<1> QED
  BY <1>5, <1>6, <1>8, <1>9, <1>10 DEF QueueHasWork, Rows, Unpaid

\* Every step of these calls.
LEMMA NextQueueHasWork ==
  PaysAndDeletes /\ IndInv /\ QueueHasWork /\ [Next]_vars => QueueHasWork'
<1> SUFFICES ASSUME PaysAndDeletes, IndInv, QueueHasWork, [Next]_vars PROVE QueueHasWork'
  OBVIOUS
<1>1. CASE UNCHANGED vars
  BY <1>1 DEF vars, QueueHasWork, Rows, Unpaid
<1>2. ASSUME NEW s \in Sessions, Begin(s) \/ Statement(s) \/ Fails(s) \/ DeadlockVictim(s)
      PROVE  QueueHasWork'
  <2>1. CASE Fails(s) \/ DeadlockVictim(s)
    BY <2>1, RollbackDeduces DEF Fails, DeadlockVictim
  <2>2. ~(CheckCeiling(s) \/ NextNumber(s) \/ Insert(s) \/ Reopen(s) \/ CheckTranches(s)
          \/ SetStatus(s))
    <3>1. IsSession(sess[s]) /\ sess[s].op \in {"none", "pay", "bulk", "details", "delete"}
      BY KnownSession
    <3>2. sess[s].pc \notin {"ceiling", "number", "insert", "reopen", "guard", "setStatus"}
      BY <3>1 DEF IsSession, PlacesOf
    <3> QED
      BY <3>2 DEF CheckCeiling, NextNumber, Insert, Reopen, CheckTranches, SetStatus
  <2> QED
    BY <1>2, <2>1, <2>2, OpeningDeduces, DeleteDeduces, PaymentDeduces, CommitDeduces
       DEF Statement
<1> QED
  BY <1>1, <1>2 DEF Next

\* Deletes beside payments: when nothing runs any more, a file in the queue that has
\* tranches has one to pay, whatever was deleted between the count of a payment and its
\* commit.  The delete of the last unpaid tranche completes the file (delete_tranche),
\* for which it must see a committed payment or make the payment see its own delete:
\* both own the request row when they look at the siblings.
THEOREM CompletionFoundByDeletes == PaysAndDeletes /\ Spec => []CompletionNotMissed
<1> SUFFICES ASSUME PaysAndDeletes PROVE Spec => []CompletionNotMissed
  BY DEF PaysAndDeletes
<1>1. Init => QueueHasWork
  <2> SUFFICES ASSUME Init PROVE QueueHasWork
    OBVIOUS
  <2>1. PICK k \in Nums, a \in [Nums -> Amounts], ready \in [Nums -> BOOLEAN] :
          tr = [n \in Nums |-> IF n <= k THEN [NewRow(a[n]) EXCEPT !.ready = ready[n]]
                                         ELSE NoRow]
    BY DEF Init
  <2>2. 1 \in Nums /\ 1 <= k
    BY ConstantsOK DEF Nums
  <2>3. \A n \in Nums : /\ tr[n].status = IF n <= k THEN "unpaid" ELSE "none"
                        /\ n <= k => tr[n].amount = a[n]
    BY <2>1 DEF NewRow, NoRow
  <2>4. \A n \in Nums : a[n] # 0
    BY ConstantsOK
  <2>5. tr \in [Nums -> Row]
    BY InitIndInv DEF IndInv, Types, TypeOK
  <2>6. Covers(LiveSum(tr), tr)
    <3>1. LiveSum(tr) \in Nat
      BY <2>2, <2>5, RemovedRow
    <3> QED
      BY <3>1 DEF Covers
  <2>7. req.deposit = LiveSum(tr) /\ req.status = "pending_payment"
    BY DEF Init, NoRequest
  <2>8. Unpaid(tr) # {}
    BY <2>2, <2>3 DEF Unpaid
  <2>9. \A s \in Sessions : Deduces(sess[s], reqOwner = s, tr)
    <3> TAKE s \in Sessions
    <3>1. sess[s] = Idle /\ reqOwner # s
      BY ConstantsOK DEF Init
    <3> QED
      BY <3>1 DEF Deduces, Idle
  <2> QED
    BY <2>3, <2>4, <2>6, <2>7, <2>8, <2>9 DEF QueueHasWork
<1>2. QueueHasWork => CompletionNotMissed
  BY DEF QueueHasWork, CompletionNotMissed, Rows, Paid, Unpaid
<1> QED
  BY <1>1, <1>2, NextQueueHasWork, LocksAreHeld, PTL DEF Spec

================================================================================
