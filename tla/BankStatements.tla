---------------------------- MODULE BankStatements ----------------------------
(***************************************************************************)
(* Uploaded bank statements.  The upload commits the statement's row as    *)
(* "processing" and leaves the extraction to a background task: it has the *)
(* pages read, looks for another statement of the account and period,      *)
(* corrects the rows and writes everything in one commit, where the unique *)
(* key has the last word.  Any exception rolls back and marks the row as   *)
(* failed.  Statements can be deleted at any time, and the task can end    *)
(* with its process.                                                       *)
(*                                                                         *)
(* A document says what the bank printed: the key (account and period),    *)
(* the balance before it, the signed amounts and whether balances are      *)
(* printed on the rows.  The vision model copies amounts and balances      *)
(* right; it may put an amount in the wrong column, leave it out, and miss *)
(* parts of the header.                                                    *)
(***************************************************************************)
EXTENDS RunningBalance, FiniteSets

CONSTANTS Statements, Documents, NoStatement, NoDocument, NoKey, NoReading

ASSUME DocumentsAssumption ==
  \A doc \in Documents :
    doc.beginning \in Int /\ doc.moves \in Seq(Int) /\ doc.balances \in BOOLEAN

VARIABLES
  statement,   \* bank_statements with its bank_transactions
  task,        \* the extraction of each statement; what it read stays on record
  lost         \* statements whose extraction ended with its process

bankVars == <<statement, task, lost>>

Processing == [status |-> "processing", key |-> NoKey, rows |-> <<>>, note |-> "none"]
NoTask == [at |-> "none", doc |-> NoDocument, reading |-> NoReading, result |-> NoStatement]

BankInit ==
  /\ statement = [s \in Statements |-> NoStatement]
  /\ task = [s \in Statements |-> NoTask]
  /\ lost = {}

--------------------------------------------------------------------------------
(* What is printed, and what may be read of it.                            *)

Balance(doc, i) ==
  LET after[j \in 0..Len(doc.moves)] ==
        IF j = 0 THEN doc.beginning ELSE after[j - 1] + doc.moves[j]
  IN after[i]

PrintedRow(doc, i) ==
  [debit |-> IF doc.moves[i] < 0 THEN -doc.moves[i] ELSE NoAmount,
   credit |-> IF doc.moves[i] > 0 THEN doc.moves[i] ELSE NoAmount,
   balance |-> IF doc.balances THEN Balance(doc, i) ELSE NoAmount]

Misread(row, how) ==
  CASE how = "right" -> row
    [] how = "column" -> Swapped(row)
    [] how = "blank" -> [row EXCEPT !.debit = NoAmount, !.credit = NoAmount]

(* The header as printed, or with parts of it not found on the page.       *)
Headers(doc) ==
  LET full == [key |-> doc.key, beginning |-> doc.beginning,
               ending |-> Balance(doc, Len(doc.moves))]
  IN {full, [full EXCEPT !.beginning = NoAmount], [full EXCEPT !.ending = NoAmount],
      [key |-> NoKey, beginning |-> NoAmount, ending |-> NoAmount]}

Readings(doc) ==
  [header : Headers(doc), how : [DOMAIN doc.moves -> {"right", "column", "blank"}]]

RowsRead(doc, reading) ==
  [i \in DOMAIN doc.moves |-> Misread(PrintedRow(doc, i), reading.how[i])]

--------------------------------------------------------------------------------
Stored(s) == statement[s] # NoStatement

(* upload_statement: a row, committed before the task is added.            *)
Upload(s, doc) ==
  /\ ~Stored(s) /\ task[s] = NoTask
  /\ statement' = [statement EXCEPT ![s] = Processing]
  /\ task' = [task EXCEPT ![s] = [NoTask EXCEPT !.at = "queued", !.doc = doc]]
  /\ UNCHANGED lost

(* delete_statement, with the rows by cascade.                             *)
Delete(s) ==
  /\ Stored(s)
  /\ statement' = [statement EXCEPT ![s] = NoStatement]
  /\ task' = IF task[s].at = "done" THEN [task EXCEPT ![s] = NoTask] ELSE task
  /\ lost' = lost \ {s}

End(s) == task' = [task EXCEPT ![s] = NoTask]

(* The handler of every exception: roll back, and mark the row if it is    *)
(* still there, without what the session held.  The mutant only returns.   *)
Marked(s) == [Processing EXCEPT !.status = "failed"]

GiveUp(s) == End(s) /\ UNCHANGED statement
Fail(s) ==
  /\ statement' = [statement EXCEPT ![s] = IF Stored(s) THEN Marked(s) ELSE NoStatement]
  /\ End(s)

(* session.get finds the row or the task ends.                             *)
Begin(s) ==
  /\ task[s].at = "queued"
  /\ IF Stored(s) THEN task' = [task EXCEPT ![s].at = "reading"] ELSE End(s)
  /\ UNCHANGED <<statement, lost>>

(* No API key, an unreadable page, an answer that is not JSON.             *)
ReadFails(s) ==
  /\ task[s].at = "reading"
  /\ Fail(s) /\ UNCHANGED lost

HasKey(t, key) == Stored(t) /\ statement[t].key = key
Taken(s, key) == key # NoKey /\ \E t \in Statements \ {s} : HasKey(t, key)

(* The rows after the verification, as they will be stored.                *)
Extract(doc, reading) ==
  LET verified == Verified(reading.header, RowsRead(doc, reading))
  IN [status |-> "extracted", key |-> reading.header.key,
      rows |-> [i \in DOMAIN doc.moves |-> Net(verified.rows[i])], note |-> verified.note]

(* Of each reading of each document.                                       *)
Extracted == [doc \in Documents |-> [reading \in Readings(doc) |-> Extract(doc, reading)]]

(* The pages are read and the committed rows are searched for the period.  *)
Read(s) ==
  /\ task[s].at = "reading"
  /\ \E reading \in Readings(task[s].doc) :
       IF Taken(s, reading.header.key) THEN Fail(s)
       ELSE /\ task' = [task EXCEPT ![s].at = "writing", ![s].reading = reading,
                                     ![s].result = Extracted[task[s].doc][reading]]
            /\ UNCHANGED statement
  /\ UNCHANGED lost

(* uq_bank_statement_account_period, in which nulls are distinct.          *)
NoConstraint(s) == TRUE
Unique(s) == ~Taken(s, task[s].reading.header.key)

(* The update of a row deleted meanwhile matches nothing and raises.       *)
Commit(s) ==
  /\ task[s].at = "writing"
  /\ IF Stored(s) /\ Unique(s)
     THEN /\ statement' = [statement EXCEPT ![s] = task[s].result]
          /\ task' = [task EXCEPT ![s].at = "done"]
     ELSE Fail(s)
  /\ UNCHANGED lost

Running(s) == task[s].at \in {"queued", "reading", "writing"}

(* The handler's own session fails: logged, and nothing written.           *)
SessionLost(s) ==
  /\ Running(s)
  /\ End(s)
  /\ lost' = IF Stored(s) THEN lost \cup {s} ELSE lost
  /\ UNCHANGED statement

Restart ==
  /\ \E s \in Statements : Running(s)
  /\ task' = [s \in Statements |-> IF Running(s) THEN NoTask ELSE task[s]]
  /\ lost' = lost \cup {s \in Statements : Running(s) /\ Stored(s)}
  /\ UNCHANGED statement

Extraction(s) == Begin(s) \/ ReadFails(s) \/ Read(s) \/ Commit(s)

BankNext ==
  \/ \E s \in Statements : \/ \E doc \in Documents : Upload(s, doc)
                           \/ Delete(s) \/ Extraction(s) \/ SessionLost(s)
  \/ Restart

BankSpec == BankInit /\ [][BankNext]_bankVars

(* The event loop goes on with every task; users and failures owe nothing. *)
BankFairSpec == BankSpec /\ \A s \in Statements : WF_bankVars(Extraction(s))

--------------------------------------------------------------------------------
(* No two statements of one account and period, however many uploads of    *)
(* the same file are extracted at once.                                    *)
NoDuplicatePeriod ==
  \A s, t \in Statements :
    s # t /\ Stored(s) /\ Stored(t) /\ statement[s].key # NoKey
      => statement[s].key # statement[t].key

InDatabase(s) == Stored(s) /\ statement[s].status = "extracted"

(* Columns and blanks are put right, however many, on a statement that     *)
(* prints its balances and whose opening balance was read.                 *)
ColumnsAreRecovered ==
  \A s \in Statements :
    InDatabase(s) /\ task[s].doc.balances /\ task[s].reading.header.beginning # NoAmount
      => statement[s].rows = task[s].doc.moves

(* "A bad extraction is visible, not silent": a statement with one row     *)
(* misread, and its opening balance read, does not pass the check.         *)
OneErrorIsVisible ==
  \A s \in Statements :
    (/\ InDatabase(s) /\ statement[s].note = "passed"
     /\ task[s].reading.header.beginning # NoAmount
     /\ Cardinality({i \in DOMAIN task[s].doc.moves : task[s].reading.how[i] # "right"}) = 1)
      => statement[s].rows = task[s].doc.moves

(* Every extraction that is not lost with its process ends: the statement  *)
(* is extracted, failed or deleted.                                        *)
ExtractionsEnd ==
  \A s \in Statements :
    Stored(s) /\ statement[s].status = "processing"
      ~> ~Stored(s) \/ statement[s].status # "processing" \/ s \in lost

================================================================================
