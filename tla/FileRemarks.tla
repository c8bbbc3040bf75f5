------------------------------ MODULE FileRemarks ------------------------------
(***************************************************************************)
(* File remarks of one request: split and change requests on its paid      *)
(* files, and changes of its invoice total.  Accounts decide them; the     *)
(* approved ones, replayed in the order of their decisions, say which file *)
(* numbers are live and what each is worth.  No handler locks a row: a     *)
(* call reads, and writes what it computed when it commits.                *)
(***************************************************************************)
EXTENDS Naturals, FiniteSetsExt

CONSTANTS
  Remarks,        \* bound: remark ids
  Files,          \* bound: file numbers
  Root,           \* the file number the request starts with
  NoFile,         \* the number of a remark without one
  Splits,         \* bound: what a split moves to each file number
  Totals,         \* bound: invoice totals
  Deposit,        \* deposit_amount of the request when it is first paid
  Sessions,       \* database sessions
  NoRemark,       \* the remark of an idle session
  Happens         \* what clients do: see below

\* "typed": file numbers are typed in, not picked from the list of selectable
\* files nor new to the request; "correction": Accounts correct a wrong invoice
\* number of a closed request; "growth": a request gets a tranche more even after a
\* File Change.
ASSUME ConstantsOK ==
  /\ Root \in Files /\ NoFile \notin Files /\ NoRemark \notin Remarks
  /\ Splits \subseteq [Files -> Nat] /\ Totals \subseteq Nat /\ Deposit \in Nat \ {0}
  /\ Happens \subseteq {"typed", "correction", "growth"}
  /\ IsFiniteSet(Remarks) /\ IsFiniteSet(Files) /\ IsFiniteSet(Sessions)

VARIABLES
  remark,    \* the committed file_remarks rows
  request,   \* status, root file number, deposit and total of the request
  sess       \* what each session read and will write

vars == <<remark, request, sess>>

--------------------------------------------------------------------------------
(* Rows.                                                                   *)

Category == {"invoice_split", "invoice_amount_change", "invoice_value_change"}
FileRemarkStatus == {"open", "approved", "rejected"}
Nothing == [f \in Files |-> 0]
FileRemark ==
  [status : FileRemarkStatus \cup {"none"}, category : Category \cup {"none"},
   old_file : Files \cup {NoFile}, old_amount : Nat,
   new_file : Files \cup {NoFile}, new_amount : Nat,     \* 0: NULL
   split_targets : [Files -> Nat], resolved_at : Nat]
NoRow == [status |-> "none", category |-> "none", old_file |-> NoFile, old_amount |-> 0,
          new_file |-> NoFile, new_amount |-> 0, split_targets |-> Nothing, resolved_at |-> 0]
IdleSession == [op |-> "idle", id |-> NoRemark, row |-> NoRow]

RequestStatus == {"pending", "payment_processed", "terminal"}

TypeOK ==
  /\ remark \in [Remarks -> FileRemark]
  /\ request \in [status : RequestStatus, root : Files, deposit : Nat, total : Nat]
  /\ sess \in [Sessions -> [op : {"idle", "create", "decide", "apply"},
                            id : Remarks \cup {NoRemark}, row : FileRemark]]

Init ==
  /\ remark = [r \in Remarks |-> NoRow]
  /\ \E total \in Totals : request = [status |-> "pending", root |-> Root,
                                      deposit |-> Deposit, total |-> total]
  /\ sess = [s \in Sessions |-> IdleSession]

--------------------------------------------------------------------------------
(* The ledger of files: a file that is not live is worth 0.                *)

SumOf(amounts) == FoldFunction(+, 0, amounts)

(* Mutant: the parent of a split keeps its value.                          *)
SplitKeepsParent(files, r) == [f \in Files |-> files[f] + r.split_targets[f]]
ReplaySplit(files, r) ==
  LET moved == SumOf(r.split_targets)
      rest == [files EXCEPT ![r.old_file] = IF @ > moved THEN @ - moved ELSE 0]
  IN  [f \in Files |-> rest[f] + r.split_targets[f]]

ReplayChange(files, r) == [files EXCEPT ![r.old_file] = 0, ![r.new_file] = r.new_amount]

Replay(files, r) ==
  CASE r.category = "invoice_split" -> ReplaySplit(files, r)
    [] r.category = "invoice_amount_change" -> ReplayChange(files, r)
    [] OTHER -> files

Approved == {r \in Remarks : remark[r].status = "approved"}
Latest(rows, ids) == CHOOSE r \in ids : \A q \in ids : rows[q].resolved_at <= rows[r].resolved_at

\* Replayed in the order of their decisions: the latest on what the others leave.
LedgerOf(start, rows, ids) ==
  MapThenFoldSet(LAMBDA row, files : Replay(files, row), start,
                 LAMBDA r : rows[r], LAMBDA left : Latest(rows, left), ids)

Start == [Nothing EXCEPT ![request.root] = request.deposit]
LiveFiles == LedgerOf(Start, remark, Approved)

--------------------------------------------------------------------------------
(* Raising a remark.                                                       *)

AwaitsAmount(r) ==
  /\ remark[r].category = "invoice_value_change"
  /\ remark[r].status = "approved" /\ remark[r].new_amount = 0
(* Mutant: only value changes hold a file back.                            *)
UnderOpenValueOnly(f) == \E r \in Remarks : remark[r].old_file = f /\ AwaitsAmount(r)
UnderOpen(f) ==
  \E r \in Remarks : /\ remark[r].old_file = f
                     /\ remark[r].status = "open" \/ AwaitsAmount(r)

\* Picked from the list of selectable files, with numbers the request has not used.
Mentioned == {request.root, Root} \cup
  UNION {{f \in Files : f \in {remark[r].old_file, remark[r].new_file}
                        \/ remark[r].split_targets[f] > 0} : r \in Remarks}
Picked(live, parent, targets) ==
  \/ "typed" \in Happens
  \/ live[parent] > 0 /\ ~UnderOpen(parent) /\ targets \cap Mentioned = {}

\* Ids are uuids: which unused one a remark gets makes no difference.
Unused == {r \in Remarks : remark[r].status = "none" /\ \A u \in Sessions : sess[u].id # r}
Raise(s, row) ==
  /\ sess' = [sess EXCEPT ![s] = [op |-> "create", id |-> CHOOSE r \in Unused : TRUE, row |-> row]]
  /\ UNCHANGED <<remark, request>>

\* The file picked must be live; a call without one takes the root file.
ParentAmount(live, parent, named) ==
  IF live[parent] > 0 \/ named THEN live[parent] ELSE request.deposit

CreateSplit(s, live, parent, named, targets) ==
  /\ request.status = "payment_processed"
  /\ named \/ parent = request.root
  /\ ParentAmount(live, parent, named) > 0
  /\ SumOf(targets) <= ParentAmount(live, parent, named)
  /\ Picked(live, parent, {f \in Files : targets[f] > 0})
  /\ Raise(s, [NoRow EXCEPT !.status = "open", !.category = "invoice_split",
       !.old_file = parent, !.old_amount = ParentAmount(live, parent, named),
       !.split_targets = targets])

CreateFileChange(s, live, parent, named, number) ==
  /\ request.status = "payment_processed"
  /\ named \/ parent = request.root
  /\ ParentAmount(live, parent, named) > 0
  /\ Picked(live, parent, {number})
  /\ Raise(s, [NoRow EXCEPT !.status = "open", !.category = "invoice_amount_change",
       !.old_file = parent, !.old_amount = ParentAmount(live, parent, named),
       !.new_file = number, !.new_amount = ParentAmount(live, parent, named)])

CreateValueChange(s) ==
  /\ request.status # "terminal"
  /\ "typed" \in Happens \/ ~UnderOpen(request.root)
  /\ Raise(s, [NoRow EXCEPT !.status = "open", !.category = "invoice_value_change",
       !.old_file = request.root, !.old_amount = request.total])

--------------------------------------------------------------------------------
(* Accounts.                                                               *)

\* The clock, as the rank of a decision among those taken so far.
Now == 1 + Max({remark[r].resolved_at : r \in Remarks}
               \cup {sess[s].row.resolved_at : s \in Sessions})
Decide(s, id, decision) ==
  /\ sess[s].op = "idle" /\ remark[id].status = "open"
  /\ sess' = [sess EXCEPT ![s] = [op |-> "decide", id |-> id,
       row |-> [remark[id] EXCEPT !.status = decision, !.resolved_at = Now]]]
  /\ UNCHANGED <<remark, request>>

ApplyRevisedAmount(s, id, revised) ==
  /\ sess[s].op = "idle" /\ AwaitsAmount(id)
  /\ revised > 0 /\ revised >= request.deposit
  /\ sess' = [sess EXCEPT ![s] = [op |-> "apply", id |-> id,
       row |-> [remark[id] EXCEPT !.new_amount = revised]]]
  /\ UNCHANGED <<remark, request>>

\* What the flush of each call writes: only the columns the call assigned.
WrittenRow(s) ==
  LET id == sess[s].id
      row == sess[s].row
  IN CASE sess[s].op = "create" -> row
       [] sess[s].op = "decide" -> [remark[id] EXCEPT !.status = row.status,
                                                      !.resolved_at = row.resolved_at]
       [] sess[s].op = "apply" -> [remark[id] EXCEPT !.new_amount = row.new_amount]

Commit(s) ==
  /\ sess[s].op # "idle"
  /\ remark' = [remark EXCEPT ![sess[s].id] = WrittenRow(s)]
  /\ request' = IF sess[s].op = "apply"
                THEN [request EXCEPT !.total = sess[s].row.new_amount] ELSE request
  /\ sess' = [sess EXCEPT ![s] = IdleSession]

Fails(s) ==
  /\ sess[s].op # "idle"
  /\ sess' = [sess EXCEPT ![s] = IdleSession]
  /\ UNCHANGED <<remark, request>>

--------------------------------------------------------------------------------
(* The request meanwhile.                                                  *)

\* Accounts action an approved File Change of the root file, or correct it.
EditInvoiceNumber(number) ==
  /\ \/ "correction" \in Happens
     \/ \E r \in Remarks : /\ remark[r].status = "approved"
                           /\ remark[r].category = "invoice_amount_change"
                           /\ remark[r].old_file = request.root /\ remark[r].new_file = number
  /\ number # request.root
  /\ request' = [request EXCEPT !.root = number]
  /\ UNCHANGED <<remark, sess>>

AddTranche(amount) ==
  /\ "growth" \in Happens \/ \A row \in {remark[r] : r \in Remarks} \cup {sess[s].row : s \in Sessions} :
                              row.category # "invoice_amount_change"
  /\ request.status # "terminal" /\ request.deposit + amount <= request.total
  /\ request' = [request EXCEPT !.status = "pending", !.deposit = @ + amount]
  /\ UNCHANGED <<remark, sess>>

PayRest ==
  /\ request.status = "pending"
  /\ request' = [request EXCEPT !.status = "payment_processed"]
  /\ UNCHANGED <<remark, sess>>

Cancel ==
  /\ request.status = "pending"
  /\ request' = [request EXCEPT !.status = "terminal"]
  /\ UNCHANGED <<remark, sess>>

--------------------------------------------------------------------------------
Create(s) ==
  LET live == LiveFiles IN
  /\ sess[s].op = "idle" /\ Unused # {}
  /\ \/ \E parent \in Files, named \in BOOLEAN :
          \/ \E targets \in Splits : CreateSplit(s, live, parent, named, targets)
          \/ \E number \in Files : CreateFileChange(s, live, parent, named, number)
     \/ CreateValueChange(s)

AccountsCall(s) == \E id \in Remarks :
  \/ \E decision \in {"approved", "rejected"} : Decide(s, id, decision)
  \/ \E revised \in Totals : ApplyRevisedAmount(s, id, revised)

Next ==
  \/ \E s \in Sessions : Create(s) \/ AccountsCall(s) \/ Commit(s) \/ Fails(s)
  \/ \E number \in Files : EditInvoiceNumber(number)
  \/ AddTranche(1) \/ PayRest \/ Cancel

Spec == Init /\ [][Next]_vars

--------------------------------------------------------------------------------
(* Properties.                                                             *)

\* Whatever is split and renamed, in chains of any depth, the live files are
\* worth the deposit: a split moves value, a File Change keeps the amount.
LedgerKeepsValue == request.status = "payment_processed" => SumOf(LiveFiles) = request.deposit

\* What the raiser saw is what Accounts decide on: the file of an open remark is
\* live and is still worth the amount written on the remark.
OpenRemarkIsCurrent ==
  LET live == LiveFiles IN
  \A r \in Remarks :
    remark[r].status = "open" /\ remark[r].category # "invoice_value_change" =>
      live[remark[r].old_file] >= remark[r].old_amount

================================================================================
