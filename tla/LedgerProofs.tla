----------------------------- MODULE LedgerProofs -----------------------------
(***************************************************************************)
(* Theorems about the two modules that keep money in sums: FileRemarks,    *)
(* whose live files must add up to the deposit, and Adjustments, whose     *)
(* completed reallocations must not exceed the source tranche.             *)
(***************************************************************************)
EXTENDS FileRemarks, Adjustments, Sums

--------------------------------------------------------------------------------
\* The ledger of files.

Values == [Files -> Nat]
Rows == [Remarks -> FileRemark]

\* The files are worth the sum of their values.
LEMMA SumOfIsSumOn ==
  ASSUME NEW files \in Values
  PROVE  SumOf(files) = SumOn(files, Files) /\ SumOf(files) \in Nat
<1>1. DOMAIN files = Files
  BY DEF Values
<1>2. SumOf(files) = SumOn(files, Files)
  BY <1>1, Zenon DEF SumOf, FoldFunction, SumOn
<1>3. SumOn(files, Files) \in Nat
  <2>1. IsFiniteSet(Files) /\ Files \in SUBSET Files /\ \A f \in Files : files[f] \in Nat
    BY ConstantsOK DEF Values
  <2> QED
    BY <2>1, AnyOrder
<1> QED
  BY <1>2, <1>3

\* What a replayed remark leaves of a file depends only on what the file was worth.
After(r, f, value) ==
  CASE r.category = "invoice_split" ->
         (IF f = r.old_file THEN IF value > SumOf(r.split_targets) THEN value - SumOf(r.split_targets)
                                 ELSE 0
          ELSE value) + r.split_targets[f]
    [] r.category = "invoice_amount_change" ->
         IF f = r.new_file THEN r.new_amount ELSE IF f = r.old_file THEN 0 ELSE value
    [] OTHER -> value

\* Replay, file by file.
LEMMA ReplayAt ==
  ASSUME NEW files \in Values, NEW r \in FileRemark
  PROVE  /\ Replay(files, r) \in Values
         /\ \A f \in Files : Replay(files, r)[f] = After(r, f, files[f])
<1>1. /\ r.split_targets \in Values /\ r.new_amount \in Nat
      /\ r.category \in {"invoice_split", "invoice_amount_change", "invoice_value_change", "none"}
  BY DEF FileRemark, Values, Category
<1> DEFINE moved == SumOf(r.split_targets)
<1>2. moved \in Nat
  BY <1>1, SumOfIsSumOn
<1> HIDE DEF moved
<1>3. CASE r.category = "invoice_split"
  <2> DEFINE rest == [files EXCEPT ![r.old_file] = IF @ > moved THEN @ - moved ELSE 0]
  <2>1. /\ rest \in Values
        /\ \A f \in Files : rest[f] = IF f = r.old_file
                                      THEN IF files[f] > moved THEN files[f] - moved ELSE 0
                                      ELSE files[f]
    <3>1. \A f \in Files : files[f] \in Nat
      BY DEF Values
    <3>2. \A f \in Files : files[f] > moved => files[f] - moved \in Nat
      BY <1>2, <3>1
    <3> DEFINE left(f) == IF files[f] > moved THEN files[f] - moved ELSE 0
    <3>3. rest = [f \in Files |-> IF f = r.old_file THEN left(f) ELSE files[f]]
      BY DEF Values
    <3>4. \A f \in Files : left(f) \in Nat
      BY <3>2
    <3>5. rest \in Values
      <4> HIDE DEF left, rest
      <4> QED
        BY <3>1, <3>3, <3>4 DEF Values
    <3> HIDE DEF rest
    <3> QED
      BY <3>3, <3>5
  <2>2. Replay(files, r) = [f \in Files |-> rest[f] + r.split_targets[f]]
    BY <1>3 DEF Replay, ReplaySplit, moved
  <2> HIDE DEF rest
  <2>3. Replay(files, r) \in Values
    BY <1>1, <2>1, <2>2 DEF Values
  <2>4. \A f \in Files : Replay(files, r)[f] = rest[f] + r.split_targets[f]
    BY <2>2
  <2>5. \A f \in Files :
          After(r, f, files[f]) =
            (IF f = r.old_file THEN IF files[f] > moved THEN files[f] - moved ELSE 0
             ELSE files[f]) + r.split_targets[f]
    BY <1>3 DEF After, moved
  <2> QED
    BY <2>1, <2>3, <2>4, <2>5
<1>4. CASE r.category = "invoice_amount_change"
  <2>1. Replay(files, r) = [files EXCEPT ![r.old_file] = 0, ![r.new_file] = r.new_amount]
    BY <1>4 DEF Replay, ReplayChange
  <2>2. Replay(files, r) = [f \in Files |-> IF f = r.new_file THEN r.new_amount
                                            ELSE IF f = r.old_file THEN 0 ELSE files[f]]
    BY <2>1 DEF Values
  <2>3. \A f \in Files : files[f] \in Nat
    BY DEF Values
  <2>4. Replay(files, r) \in Values
    BY <1>1, <2>2, <2>3 DEF Values
  <2> QED
    BY <1>4, <2>2, <2>4 DEF After
<1>5. CASE r.category \notin {"invoice_split", "invoice_amount_change"}
  <2>1. Replay(files, r) = files
    BY <1>5 DEF Replay
  <2> QED
    BY <1>5, <2>1 DEF After
<1> QED
  BY <1>3, <1>4, <1>5

\* Among finitely many remarks there is one decided last.
LEMMA LatestIs ==
  ASSUME NEW rows \in Rows, NEW ids \in SUBSET Remarks, ids # {}
  PROVE  /\ Latest(rows, ids) \in ids
         /\ \A q \in ids : rows[q].resolved_at <= rows[Latest(rows, ids)].resolved_at
<1> DEFINE Last(T, r) == r \in T /\ \A q \in T : rows[q].resolved_at <= rows[r].resolved_at
           Good == {T \in SUBSET Remarks : T # {} => \E r : Last(T, r)}
<1>1. \A r \in Remarks : rows[r].resolved_at \in Nat
  BY DEF Rows, FileRemark
<1>2. ASSUME NEW T \in SUBSET Remarks, \A x \in T : T \ {x} \in Good, T # {}
      PROVE  \E r : Last(T, r)
  <2>1. PICK x \in T : TRUE
    BY <1>2
  <2>2. CASE T \ {x} = {}
    <3>1. T = {x} /\ rows[x].resolved_at \in Nat
      BY <1>1, <2>1, <2>2
    <3>2. Last(T, x)
      BY <3>1
    <3> QED
      BY <3>2
  <2>3. CASE T \ {x} # {}
    <3>1. PICK r : Last(T \ {x}, r)
      BY <1>2, <2>1, <2>3
    <3>2. rows[x].resolved_at \in Nat /\ rows[r].resolved_at \in Nat
      BY <1>1, <2>1, <3>1
    <3>3. CASE rows[x].resolved_at <= rows[r].resolved_at
      <4>1. Last(T, r)
        BY <3>1, <3>3
      <4> QED
        BY <4>1
    <3>4. CASE ~(rows[x].resolved_at <= rows[r].resolved_at)
      <4>1. \A q \in T : rows[q].resolved_at \in Nat
        BY <1>1
      <4>2. \A q \in T : rows[q].resolved_at <= rows[x].resolved_at
        BY <3>1, <3>2, <3>4, <4>1
      <4>3. Last(T, x)
        BY <2>1, <4>2
      <4> QED
        BY <4>3
    <3> QED
      BY <3>3, <3>4
  <2> QED
    BY <2>2, <2>3
<1>3. ids \in Good
  <2>1. \A T \in SUBSET Remarks : (\A x \in T : T \ {x} \in Good) => T \in Good
    BY <1>2
  <2>2. IsFiniteSet(Remarks)
    BY ConstantsOK
  <2> HIDE DEF Good
  <2> QED
    BY <2>1, <2>2, EverySubset
<1>4. \E r \in ids : \A q \in ids : rows[q].resolved_at <= rows[r].resolved_at
  BY <1>3
<1> QED
  BY <1>4, Zenon DEF Latest

\* What the replay computes: the remark decided last, on what the others leave.
LEMMA LedgerStep ==
  ASSUME NEW rows \in Rows, NEW start \in Values, NEW ids \in SUBSET Remarks
  PROVE  /\ LedgerOf(start, rows, ids) \in Values
         /\ LedgerOf(start, rows, {}) = start
         /\ ids # {} => LET last == Latest(rows, ids) IN
              LedgerOf(start, rows, ids)
                = Replay(LedgerOf(start, rows, ids \ {last}), rows[last])
<1> DEFINE pick == [T \in SUBSET Remarks |-> Latest(rows, T)]
           step == [p \in Remarks \X Values |-> Replay(p[2], rows[p[1]])]
<1>1. \A T \in SUBSET Remarks : T # {} => Latest(rows, T) \in T /\ pick[T] \in T
  BY LatestIs
<1>2. \A r \in Remarks, files \in Values : Replay(files, rows[r]) \in Values
  BY ReplayAt DEF Rows
<1>3. step \in [Remarks \X Values -> Values]
  BY <1>2
<1>4. \A r \in Remarks, files \in Values : step[<<r, files>>] = Replay(files, rows[r])
  OBVIOUS
<1>5. PICK sol \in [SUBSET Remarks -> Values] : Solves(sol, Remarks, start, step, pick)
  <2>1. IsFiniteSet(Remarks) /\ \A T \in SUBSET Remarks : T # {} => pick[T] \in T
    BY <1>1, ConstantsOK
  <2> HIDE DEF pick, step
  <2> QED
    BY <1>3, <2>1, Solvable
<1>6. ASSUME NEW T \in SUBSET Remarks
      PROVE  sol[T] = IF T = {} THEN start
                      ELSE Replay(sol[T \ {Latest(rows, T)}], rows[Latest(rows, T)])
  <2>1. CASE T = {}
    BY <1>5, <2>1 DEF Solves
  <2>2. CASE T # {}
    <3> DEFINE r == Latest(rows, T)
    <3>1. r \in Remarks /\ pick[T] = r /\ sol[T \ {r}] \in Values
      BY <1>1, <2>2
    <3>2. sol[T] = step[<<pick[T], sol[T \ {pick[T]}]>>]
      <4> HIDE DEF pick, step
      <4> QED
        BY <1>5, <2>2 DEF Solves
    <3> HIDE DEF r, pick, step
    <3>3. sol[T] = Replay(sol[T \ {r}], rows[r])
      BY <1>4, <3>1, <3>2
    <3> QED
      BY <2>2, <3>3 DEF r
  <2> QED
    BY <2>1, <2>2
<1> HIDE DEF pick, step
<1>7. ASSUME NEW T \in SUBSET Remarks PROVE LedgerOf(start, rows, T) = sol[T]
  <2> DEFINE P(g) == g = [U \in SUBSET T |-> IF U = {} THEN start
                            ELSE Replay(g[U \ {Latest(rows, U)}], rows[Latest(rows, U)])]
             iter == CHOOSE g : P(g)
  <2>1. LedgerOf(start, rows, T) = iter[T]
    BY Zenon DEF LedgerOf, MapThenFoldSet
  <2>2. \E g : P(g)
    <3> DEFINE part == [U \in SUBSET T |-> sol[U]]
    <3>1. \A U \in SUBSET T : U \in SUBSET Remarks /\ U \ {Latest(rows, U)} \in SUBSET T
      OBVIOUS
    <3>2. \A U \in SUBSET T : part[U \ {Latest(rows, U)}] = sol[U \ {Latest(rows, U)}]
      BY <3>1
    <3>3. \A U \in SUBSET T :
            sol[U] = IF U = {} THEN start
                     ELSE Replay(part[U \ {Latest(rows, U)}], rows[Latest(rows, U)])
      BY <1>6, <3>1, <3>2
    <3>4. P(part)
      <4> DEFINE value(U, g) == IF U = {} THEN start
                       ELSE Replay(g[U \ {Latest(rows, U)}], rows[Latest(rows, U)])
      <4>1. \A U \in SUBSET T : sol[U] = value(U, part)
        BY <3>3
      <4> DEFINE this == part
      <4>2. this = [U \in SUBSET T |-> sol[U]]
        OBVIOUS
      <4> HIDE DEF value, this, part
      <4>3. this = [U \in SUBSET T |-> value(U, part)]
        BY <4>1, <4>2
      <4> QED
        BY <4>3, Zenon DEF value, this
    <3> HIDE DEF P, part
    <3> QED
      BY <3>4
  <2>3. P(iter)
    <3> HIDE DEF P
    <3> QED
      BY <2>2
  <2> DEFINE Good == {U \in SUBSET T : iter[U] = sol[U]}
  <2>4. ASSUME NEW U \in SUBSET T, \A x \in U : U \ {x} \in Good PROVE iter[U] = sol[U]
    <3>1. iter[U] = IF U = {} THEN start
                    ELSE Replay(iter[U \ {Latest(rows, U)}], rows[Latest(rows, U)])
      <4> HIDE DEF iter
      <4> QED
        BY <2>3, Zenon
    <3> HIDE DEF iter
    <3>2. U \in SUBSET Remarks
      OBVIOUS
    <3>3. U # {} => iter[U \ {Latest(rows, U)}] = sol[U \ {Latest(rows, U)}]
      <4> SUFFICES ASSUME U # {}
                   PROVE  iter[U \ {Latest(rows, U)}] = sol[U \ {Latest(rows, U)}]
        OBVIOUS
      <4>1. Latest(rows, U) \in U
        BY <1>1, <3>2
      <4> QED
        BY <2>4, <4>1
    <3> HIDE DEF Good
    <3> QED
      BY <1>6, <3>1, <3>2, <3>3
  <2> HIDE DEF iter
  <2>5. IsFiniteSet(T)
    BY ConstantsOK, FS_Subset
  <2>6. T \in Good
    <3>1. \A U \in SUBSET T : (\A x \in U : U \ {x} \in Good) => U \in Good
      BY <2>4
    <3>2. T \in SUBSET T
      OBVIOUS
    <3> HIDE DEF Good
    <3> QED
      BY <2>5, <3>1, <3>2, EverySubset
  <2> QED
    BY <2>1, <2>6
<1>8. \A T \in SUBSET Remarks : LedgerOf(start, rows, T) = sol[T] /\ sol[T] \in Values
  BY <1>7
<1>9. {} \in SUBSET Remarks /\ ids \ {Latest(rows, ids)} \in SUBSET Remarks
  OBVIOUS
<1>10. LedgerOf(start, rows, {}) = start
  BY <1>6, <1>8, <1>9
<1>11. ids # {} => LET last == Latest(rows, ids) IN
         LedgerOf(start, rows, ids) = Replay(LedgerOf(start, rows, ids \ {last}), rows[last])
  BY <1>6, <1>8, <1>9
<1> QED
  BY <1>8, <1>10, <1>11

\* Decisions that were taken one after the other.
InOrder(rows, ids) ==
  \A p, q \in ids : p # q => rows[p].resolved_at # rows[q].resolved_at

\* Only what the replay reads of the rows matters.
LEMMA SameLedger ==
  ASSUME NEW rows \in Rows, NEW new \in Rows, NEW start \in Values,
         NEW ids \in SUBSET Remarks, InOrder(rows, ids),
         \A r \in ids : /\ new[r].resolved_at = rows[r].resolved_at
                        /\ \A files \in Values : Replay(files, new[r]) = Replay(files, rows[r])
  PROVE  LedgerOf(start, new, ids) = LedgerOf(start, rows, ids)
<1> DEFINE Good == {T \in SUBSET ids : LedgerOf(start, new, T) = LedgerOf(start, rows, T)}
<1>1. ASSUME NEW T \in SUBSET ids, \A x \in T : T \ {x} \in Good
      PROVE  LedgerOf(start, new, T) = LedgerOf(start, rows, T)
  <2>1. T \in SUBSET Remarks
    OBVIOUS
  <2>2. CASE T = {}
    BY <2>1, <2>2, LedgerStep
  <2>3. CASE T # {}
    <3> DEFINE p == Latest(rows, T)
               q == Latest(new, T)
               rest == T \ {p}
    <3>1. /\ p \in T /\ q \in T
          /\ rows[q].resolved_at <= rows[p].resolved_at
          /\ new[p].resolved_at <= new[q].resolved_at
      BY <2>1, <2>3, LatestIs
    <3>2. p = q
      <4> HIDE DEF p, q
      <4>1. rows[p].resolved_at \in Nat /\ rows[q].resolved_at \in Nat
        BY <2>1, <3>1 DEF Rows, FileRemark
      <4>2. rows[p].resolved_at = rows[q].resolved_at
        BY <3>1, <4>1
      <4> QED
        BY <3>1, <4>2 DEF InOrder
    <3>3. /\ LedgerOf(start, rows, T) = Replay(LedgerOf(start, rows, T \ {p}), rows[p])
          /\ LedgerOf(start, new, T) = Replay(LedgerOf(start, new, T \ {q}), new[q])
      BY <2>1, <2>3, LedgerStep
    <3> HIDE DEF p, q
    <3>4. LedgerOf(start, new, rest) = LedgerOf(start, rows, rest)
      BY <1>1, <3>1
    <3>5. LedgerOf(start, rows, rest) \in Values
      <4>1. rest \in SUBSET Remarks
        BY <2>1
      <4> HIDE DEF rest
      <4> QED
        BY <4>1, LedgerStep
    <3>6. Replay(LedgerOf(start, rows, rest), new[p]) = Replay(LedgerOf(start, rows, rest), rows[p])
      <4> HIDE DEF rest
      <4> QED
        BY <3>1, <3>5
    <3> QED
      BY <3>2, <3>3, <3>4, <3>6
  <2> QED
    BY <2>2, <2>3
<1>2. ids \in Good
  <2>1. IsFiniteSet(ids) /\ ids \in SUBSET ids
    BY ConstantsOK, FS_Subset
  <2>2. \A T \in SUBSET ids : (\A x \in T : T \ {x} \in Good) => T \in Good
    BY <1>1
  <2> HIDE DEF Good
  <2> QED
    BY <2>1, <2>2, EverySubset
<1> QED
  BY <1>2

\* A remark decided after the others is replayed on what they leave.
LEMMA DecidedLast ==
  ASSUME NEW rows \in Rows, NEW start \in Values, NEW ids \in SUBSET Remarks,
         NEW id \in Remarks \ ids,
         \A r \in ids : rows[r].resolved_at < rows[id].resolved_at
  PROVE  LedgerOf(start, rows, ids \cup {id}) = Replay(LedgerOf(start, rows, ids), rows[id])
<1> DEFINE all == ids \cup {id}
           last == Latest(rows, all)
<1>1. all \in SUBSET Remarks /\ all # {}
  OBVIOUS
<1>2. last \in all /\ rows[id].resolved_at <= rows[last].resolved_at
  <2>1. id \in all
    OBVIOUS
  <2> HIDE DEF all
  <2> QED
    BY <1>1, <2>1, LatestIs
<1>3. \A r \in Remarks : rows[r].resolved_at \in Nat
  BY DEF Rows, FileRemark
<1>4. last = id
  <2> HIDE DEF last
  <2> QED
    BY <1>2, <1>3
<1>5. LedgerOf(start, rows, all) = Replay(LedgerOf(start, rows, all \ {last}), rows[last])
  <2> HIDE DEF all
  <2> QED
    BY <1>1, LedgerStep
<1>6. all \ {id} = ids
  OBVIOUS
<1> QED
  BY <1>4, <1>5, <1>6

\* Actioning a File Change: whether the request starts with the old or with the new
\* number, after the change is replayed the files are worth the same.
LEMMA RootMoves ==
  ASSUME NEW rows \in Rows, NEW start \in Values, NEW other \in Values,
         NEW ids \in SUBSET Remarks, NEW c \in ids,
         rows[c].category = "invoice_amount_change",
         \A f \in Files : f # rows[c].old_file /\ f # rows[c].new_file => other[f] = start[f]
  PROVE  LedgerOf(other, rows, ids) = LedgerOf(start, rows, ids)
<1> DEFINE a == rows[c].old_file
           b == rows[c].new_file
           Same(T, f) == LedgerOf(other, rows, T)[f] = LedgerOf(start, rows, T)[f]
           Alike(T) == \A f \in Files : c \in T \/ (f # a /\ f # b) => Same(T, f)
           Good == {T \in SUBSET ids : Alike(T)}
<1>1. ASSUME NEW T \in SUBSET ids, \A x \in T : T \ {x} \in Good, NEW f \in Files,
             c \in T \/ (f # a /\ f # b)
      PROVE  Same(T, f)
  <2>1. T \in SUBSET Remarks
    OBVIOUS
  <2>2. CASE T = {}
    <3>1. LedgerOf(other, rows, T) = other /\ LedgerOf(start, rows, T) = start
      BY <2>1, <2>2, LedgerStep
    <3> QED
      BY <1>1, <2>2, <3>1
  <2>3. CASE T # {}
    <3> DEFINE p == Latest(rows, T)
               rest == T \ {p}
    <3>1. p \in T
      BY <2>1, <2>3, LatestIs
    <3>2. /\ LedgerOf(start, rows, T) = Replay(LedgerOf(start, rows, rest), rows[p])
          /\ LedgerOf(other, rows, T) = Replay(LedgerOf(other, rows, rest), rows[p])
      BY <2>1, <2>3, LedgerStep
    <3> HIDE DEF p
    <3>3. LedgerOf(start, rows, rest) \in Values /\ LedgerOf(other, rows, rest) \in Values
      <4>1. rest \in SUBSET Remarks
        BY <2>1
      <4> HIDE DEF rest
      <4> QED
        BY <4>1, LedgerStep
    <3>4. Alike(rest)
      BY <1>1, <3>1
    <3>5. rows[p] \in FileRemark
      BY <2>1, <3>1 DEF Rows
    <3>6. /\ LedgerOf(start, rows, T)[f] = After(rows[p], f, LedgerOf(start, rows, rest)[f])
          /\ LedgerOf(other, rows, T)[f] = After(rows[p], f, LedgerOf(other, rows, rest)[f])
      <4> HIDE DEF rest
      <4> QED
        BY <3>2, <3>3, <3>5, ReplayAt
    <3>7. CASE c \in rest \/ (f # a /\ f # b)
      <4>1. Same(rest, f)
        BY <3>4, <3>7
      <4> QED
        BY <3>6, <4>1
    <3>8. CASE c \notin rest /\ (f = a \/ f = b)
      <4>1. p = c
        BY <1>1, <3>8
      <4>2. \A value : After(rows[c], f, value) = IF f = b THEN rows[c].new_amount ELSE 0
        BY <3>8 DEF After
      <4> QED
        BY <3>6, <4>1, <4>2
    <3> QED
      BY <3>7, <3>8
  <2> QED
    BY <2>2, <2>3
<1>2. ids \in Good
  <2>1. IsFiniteSet(ids) /\ ids \in SUBSET ids
    BY ConstantsOK, FS_Subset
  <2>2. \A T \in SUBSET ids : (\A x \in T : T \ {x} \in Good) => T \in Good
    BY <1>1
  <2> HIDE DEF Good
  <2> QED
    BY <2>1, <2>2, EverySubset
<1>3. \A f \in Files : Same(ids, f)
  BY <1>2
<1>4. LedgerOf(start, rows, ids) \in Values /\ LedgerOf(other, rows, ids) \in Values
  BY LedgerStep
<1> QED
  BY <1>3, <1>4 DEF Values

--------------------------------------------------------------------------------
\* Types, for any number of sessions and everything clients do.

StartAt(root, amount) == [Nothing EXCEPT ![root] = amount]

\* Types of what the replay starts with and reads.
LEMMA LiveTypes ==
  ASSUME TypeOK
  PROVE  /\ remark \in Rows /\ Start \in Values /\ Start = StartAt(request.root, request.deposit)
         /\ Approved \in SUBSET Remarks
         /\ LiveFiles \in Values /\ LiveFiles = LedgerOf(Start, remark, Approved)
         /\ \A n \in Nat : StartAt(request.root, n) \in Values
         /\ request.root \in Files /\ request.deposit \in Nat
<1>1. /\ remark \in Rows /\ request.root \in Files /\ request.deposit \in Nat
      /\ Approved \in SUBSET Remarks
  BY DEF TypeOK, Rows, Approved
<1>2. \A n \in Nat : StartAt(request.root, n) \in Values
  BY <1>1 DEF StartAt, Nothing, Values
<1>3. Start = StartAt(request.root, request.deposit)
  BY DEF Start, StartAt
<1>4. LiveFiles = LedgerOf(Start, remark, Approved)
  BY DEF LiveFiles
<1> QED
  BY <1>1, <1>2, <1>3, <1>4, LedgerStep

\* Numbers with a bound have a largest one.
LEMMA Largest ==
  ASSUME NEW T \in SUBSET Nat, T # {}, NEW n \in Nat, \A t \in T : t <= n
  PROVE  Max(T) \in T /\ \A t \in T : Max(T) >= t
<1> DEFINE Bounds == {m \in Nat : \A t \in T : t <= m}
<1>1. Bounds \in SUBSET Nat /\ Bounds # {}
  OBVIOUS
<1>2. PICK m \in Bounds : \A b \in Bounds : m <= b
  <2> HIDE DEF Bounds
  <2> QED
    BY <1>1, Smallest
<1>3. ASSUME m \notin T PROVE FALSE
  <2>1. PICK t \in T : TRUE
    OBVIOUS
  <2>2. \A u \in T : u <= m /\ u # m
    BY <1>2, <1>3
  <2>3. m - 1 \in Nat /\ \A u \in T : u <= m - 1
    BY <1>1, <1>2, <2>1, <2>2
  <2>4. m - 1 \in Bounds
    BY <2>3
  <2>5. m <= m - 1 /\ m \in Nat
    BY <1>2, <2>4
  <2> QED
    BY <2>5
<1>4. \E x \in T : \A t \in T : x >= t
  BY <1>2, <1>3
<1> QED
  BY <1>4, Zenon DEF Max

\* The clock is past every decision that is taken.
LEMMA NowIsLater ==
  ASSUME TypeOK, NEW s \in Sessions
  PROVE  /\ Now \in Nat /\ \A r \in Remarks : remark[r].resolved_at < Now
         /\ \A u \in Sessions : sess[u].row.resolved_at < Now
<1> DEFINE taken == [r \in Remarks |-> remark[r].resolved_at]
           taking == [u \in Sessions |-> sess[u].row.resolved_at]
           times == {remark[r].resolved_at : r \in Remarks}
                    \cup {sess[u].row.resolved_at : u \in Sessions}
           top == Max(times)
<1>1. /\ \A r \in Remarks : taken[r] \in Nat /\ taken[r] = remark[r].resolved_at
      /\ \A u \in Sessions : taking[u] \in Nat /\ taking[u] = sess[u].row.resolved_at
  BY DEF TypeOK, FileRemark
<1> HIDE DEF taken, taking
<1>2. /\ SumOn(taken, Remarks) \in Nat
      /\ \A r \in Remarks : taken[r] <= SumOn(taken, Remarks)
  BY <1>1, Bounded, ConstantsOK
<1>3. /\ SumOn(taking, Sessions) \in Nat
      /\ \A u \in Sessions : taking[u] <= SumOn(taking, Sessions)
  BY <1>1, Bounded, ConstantsOK
<1>4. times \in SUBSET Nat
  BY <1>1
<1>5. \A t \in times : t <= SumOn(taken, Remarks) + SumOn(taking, Sessions)
  BY <1>1, <1>2, <1>3
<1>6. SumOn(taken, Remarks) + SumOn(taking, Sessions) \in Nat
  BY <1>2, <1>3
<1>7. times # {} => top \in times /\ \A t \in times : top >= t
  <2> HIDE DEF times
  <2> QED
    BY <1>4, <1>5, <1>6, Largest
<1>8. Now = 1 + top
  BY DEF Now
<1>9. \A r \in Remarks : remark[r].resolved_at \in times
  OBVIOUS
<1>10. \A u \in Sessions : sess[u].row.resolved_at \in times
  OBVIOUS
<1> HIDE DEF times, top
<1>11. top \in Nat /\ \A t \in times : top >= t
  BY <1>4, <1>7, <1>10
<1>12. \A r \in Remarks : remark[r].resolved_at \in Nat /\ top >= remark[r].resolved_at
  BY <1>1, <1>9, <1>11
<1>13. \A u \in Sessions : sess[u].row.resolved_at \in Nat /\ top >= sess[u].row.resolved_at
  BY <1>1, <1>10, <1>11
<1> QED
  BY <1>8, <1>11, <1>12, <1>13

\* Whatever clients do, and with any number of calls at work, rows and sessions keep
\* their types.
LEMMA RaiseTyped ==
  ASSUME TypeOK, NEW s \in Sessions, NEW row \in FileRemark, Unused # {}, Raise(s, row)
  PROVE  TypeOK'
<1> DEFINE id == CHOOSE r \in Unused : TRUE
<1>1. id \in Remarks
  BY DEF Unused
<1>2. sess' = [sess EXCEPT ![s] = [op |-> "create", id |-> id, row |-> row]]
      /\ remark' = remark /\ request' = request
  BY DEF Raise
<1> HIDE DEF id
<1> QED
  BY <1>1, <1>2 DEF TypeOK

\* A call that raises a remark keeps them.
LEMMA CreateTyped ==
  ASSUME TypeOK, NEW s \in Sessions, Create(s)
  PROVE  TypeOK'
<1>1. /\ request.root \in Files /\ request.deposit \in Nat /\ request.total \in Nat
      /\ Splits \subseteq Values /\ \A f \in Files : LiveFiles[f] \in Nat
  BY LiveTypes, ConstantsOK DEF TypeOK, Values
<1>2. NoRow \in FileRemark /\ Unused # {}
  BY DEF NoRow, FileRemark, Nothing, Create
<1>3. \A parent \in Files, named \in BOOLEAN : ParentAmount(LiveFiles, parent, named) \in Nat
  BY <1>1 DEF ParentAmount
<1>4. ASSUME NEW parent \in Files, NEW named \in BOOLEAN, NEW targets \in Splits,
             CreateSplit(s, LiveFiles, parent, named, targets)
      PROVE  TypeOK'
  <2> DEFINE row == [NoRow EXCEPT !.status = "open", !.category = "invoice_split",
               !.old_file = parent, !.old_amount = ParentAmount(LiveFiles, parent, named),
               !.split_targets = targets]
  <2>1. row \in FileRemark
    <3>1. targets \in [Files -> Nat]
      BY <1>1 DEF Values
    <3> QED
      BY <1>2, <1>3, <3>1 DEF FileRemark, FileRemarkStatus, Category
  <2>2. Raise(s, row)
    BY <1>4 DEF CreateSplit
  <2> HIDE DEF row
  <2> QED
    BY <1>2, <2>1, <2>2, RaiseTyped
<1>5. ASSUME NEW parent \in Files, NEW named \in BOOLEAN, NEW number \in Files,
             CreateFileChange(s, LiveFiles, parent, named, number)
      PROVE  TypeOK'
  <2> DEFINE row == [NoRow EXCEPT !.status = "open", !.category = "invoice_amount_change",
               !.old_file = parent, !.old_amount = ParentAmount(LiveFiles, parent, named),
               !.new_file = number, !.new_amount = ParentAmount(LiveFiles, parent, named)]
  <2>1. row \in FileRemark
    BY <1>2, <1>3 DEF FileRemark, FileRemarkStatus, Category
  <2>2. Raise(s, row)
    BY <1>5 DEF CreateFileChange
  <2> HIDE DEF row
  <2> QED
    BY <1>2, <2>1, <2>2, RaiseTyped
<1>6. ASSUME CreateValueChange(s) PROVE TypeOK'
  <2> DEFINE row == [NoRow EXCEPT !.status = "open", !.category = "invoice_value_change",
                                  !.old_file = request.root, !.old_amount = request.total]
  <2>1. row \in FileRemark
    BY <1>1, <1>2 DEF FileRemark, FileRemarkStatus, Category
  <2>2. Raise(s, row)
    BY <1>6 DEF CreateValueChange
  <2> HIDE DEF row
  <2> QED
    BY <1>2, <2>1, <2>2, RaiseTyped
<1> QED
  BY <1>4, <1>5, <1>6 DEF Create

\* An Accounts call that has read what it decides on keeps them.
LEMMA AccountsTyped ==
  ASSUME TypeOK, NEW s \in Sessions, AccountsCall(s)
  PROVE  TypeOK'
<1>1. ASSUME NEW id \in Remarks, NEW decision \in {"approved", "rejected"},
             Decide(s, id, decision)
      PROVE  TypeOK'
  <2> DEFINE row == [remark[id] EXCEPT !.status = decision, !.resolved_at = Now]
  <2>1. row \in FileRemark
    <3>1. remark[id] \in FileRemark /\ Now \in Nat
      BY NowIsLater DEF TypeOK
    <3> QED
      BY <3>1 DEF FileRemark, FileRemarkStatus
  <2>2. sess' = [sess EXCEPT ![s] = [op |-> "decide", id |-> id, row |-> row]]
        /\ remark' = remark /\ request' = request
    BY <1>1 DEF Decide
  <2> HIDE DEF row
  <2> QED
    BY <2>1, <2>2 DEF TypeOK
<1>2. ASSUME NEW id \in Remarks, NEW revised \in Totals, ApplyRevisedAmount(s, id, revised)
      PROVE  TypeOK'
  <2> DEFINE row == [remark[id] EXCEPT !.new_amount = revised]
  <2>1. row \in FileRemark
    <3>1. remark[id] \in FileRemark /\ revised \in Nat
      BY ConstantsOK DEF TypeOK
    <3> QED
      BY <3>1 DEF FileRemark
  <2>2. sess' = [sess EXCEPT ![s] = [op |-> "apply", id |-> id, row |-> row]]
        /\ remark' = remark /\ request' = request
    BY <1>2 DEF ApplyRevisedAmount
  <2> HIDE DEF row
  <2> QED
    BY <2>1, <2>2 DEF TypeOK
<1> QED
  BY <1>1, <1>2 DEF AccountsCall

\* A call that commits or fails keeps them.
LEMMA EndTyped ==
  ASSUME TypeOK, NEW s \in Sessions, Commit(s) \/ Fails(s)
  PROVE  TypeOK'
<1> DEFINE id == sess[s].id
           row == sess[s].row
<1>1. /\ row \in FileRemark /\ sess[s].op \in {"idle", "create", "decide", "apply"}
      /\ remark \in [Remarks -> FileRemark]
      /\ row.status \in FileRemarkStatus \cup {"none"} /\ row.resolved_at \in Nat
      /\ row.new_amount \in Nat
  BY DEF TypeOK, FileRemark
<1>2. IdleSession \in [op : {"idle", "create", "decide", "apply"},
                       id : Remarks \cup {NoRemark}, row : FileRemark]
  BY DEF IdleSession, NoRow, FileRemark, Nothing
<1>3. sess' = [sess EXCEPT ![s] = IdleSession]
  BY DEF Commit, Fails
<1>4. id \in Remarks /\ Commit(s) => WrittenRow(s) \in FileRemark
  <2> SUFFICES ASSUME id \in Remarks, Commit(s) PROVE WrittenRow(s) \in FileRemark
    OBVIOUS
  <2>1. remark[id] \in FileRemark
    BY <1>1
  <2>2. CASE sess[s].op = "create"
    BY <1>1, <2>2 DEF WrittenRow
  <2>3. CASE sess[s].op = "decide"
    BY <1>1, <2>1, <2>3 DEF WrittenRow, FileRemark
  <2>4. CASE sess[s].op = "apply"
    BY <1>1, <2>1, <2>4 DEF WrittenRow, FileRemark
  <2> QED
    BY <1>1, <2>2, <2>3, <2>4 DEF Commit
<1>5. remark' \in [Remarks -> FileRemark]
  <2>1. CASE Commit(s)
    <3>1. remark' = [remark EXCEPT ![id] = WrittenRow(s)]
      BY <2>1 DEF Commit
    <3> QED
      BY <1>1, <1>4, <2>1, <3>1
  <2>2. CASE Fails(s)
    BY <1>1, <2>2 DEF Fails
  <2> QED
    BY <2>1, <2>2
<1>6. request' \in [status : RequestStatus, root : Files, deposit : Nat, total : Nat]
  BY <1>1 DEF Commit, Fails, TypeOK
<1> QED
  BY <1>2, <1>3, <1>5, <1>6 DEF TypeOK

\* The type invariant, for any number of sessions and everything clients do.
THEOREM RemarksTypeOK == Spec => []TypeOK
<1>1. Init => TypeOK
  <2> SUFFICES ASSUME Init PROVE TypeOK
    OBVIOUS
  <2>1. NoRow \in FileRemark
    BY DEF NoRow, FileRemark, Nothing
  <2>2. IdleSession \in [op : {"idle", "create", "decide", "apply"},
                         id : Remarks \cup {NoRemark}, row : FileRemark]
    BY <2>1 DEF IdleSession
  <2>3. request \in [status : RequestStatus, root : Files, deposit : Nat, total : Nat]
    BY ConstantsOK DEF Init, RequestStatus
  <2> QED
    BY <2>1, <2>2, <2>3 DEF Init, TypeOK
<1>2. TypeOK /\ [Next]_vars => TypeOK'
  <2> SUFFICES ASSUME TypeOK, [Next]_vars PROVE TypeOK'
    OBVIOUS
  <2>1. ASSUME NEW s \in Sessions, Create(s) \/ AccountsCall(s) \/ Commit(s) \/ Fails(s)
        PROVE  TypeOK'
    BY <2>1, CreateTyped, AccountsTyped, EndTyped
  <2>2. ASSUME NEW number \in Files, EditInvoiceNumber(number) PROVE TypeOK'
    BY <2>2 DEF EditInvoiceNumber, TypeOK
  <2>3. CASE AddTranche(1)
    <3>1. /\ request.deposit + 1 \in Nat /\ "pending" \in RequestStatus
          /\ request.root \in Files /\ request.total \in Nat
      BY DEF TypeOK, RequestStatus
    <3>2. request' = [status |-> "pending", root |-> request.root,
                      deposit |-> request.deposit + 1, total |-> request.total]
      BY <2>3 DEF AddTranche, TypeOK
    <3> QED
      BY <2>3, <3>1, <3>2 DEF AddTranche, TypeOK
  <2>4. CASE PayRest \/ Cancel
    BY <2>4 DEF PayRest, Cancel, TypeOK, RequestStatus
  <2>5. CASE UNCHANGED vars
    BY <2>5 DEF vars, TypeOK
  <2> QED
    BY <2>1, <2>2, <2>3, <2>4, <2>5 DEF Next
<1> QED
  BY <1>1, <1>2, PTL DEF Spec

--------------------------------------------------------------------------------
\* What calls have at hand, for any number of sessions and everything clients do.

\* A row as the create endpoints fill it in.
Filled(row) ==
  /\ row.category = "invoice_split" =>
       row.old_file \in Files /\ SumOf(row.split_targets) <= row.old_amount
  /\ row.category = "invoice_amount_change" => row.old_file \in Files /\ row.new_file \in Files

\* A call at work: a create fills in a row that is not there yet, the others write to one
\* that is.
AtWork(me) ==
  /\ me.op # "idle" => me.id \in Remarks
  /\ me.op = "create" => /\ remark[me.id].status = "none" /\ me.row.status = "open"
                         /\ me.row.resolved_at = 0 /\ Filled(me.row)
  /\ me.op = "decide" => /\ remark[me.id].status # "none"
                         /\ me.row.status \in {"approved", "rejected"} /\ me.row.resolved_at > 0
  /\ me.op = "apply" => /\ remark[me.id].status # "none"
                        /\ remark[me.id].category = "invoice_value_change"

\* No two creates have one id.
OwnIds ==
  \A s, t \in Sessions :
    s # t /\ sess[s].op = "create" /\ sess[t].op = "create" => sess[s].id # sess[t].id

\* No two decisions have one time.
OwnTimes ==
  /\ InOrder(remark, Approved)
  /\ \A s \in Sessions : sess[s].op = "decide" =>
       /\ \A r \in Remarks : remark[r].resolved_at # sess[s].row.resolved_at
       /\ \A t \in Sessions \ {s} : sess[t].op = "decide" =>
            sess[t].row.resolved_at # sess[s].row.resolved_at

AtHand ==
  /\ \A s \in Sessions : AtWork(sess[s])
  /\ \A r \in Remarks : Filled(remark[r])
  /\ OwnIds /\ OwnTimes

\* A session reads, or ends without a write.
LEMMA ReadKeeps ==
  ASSUME TypeOK, AtHand, NEW s \in Sessions, NEW me,
         sess' = [sess EXCEPT ![s] = me], remark' = remark, AtWork(me),
         me.op = "create" => \A t \in Sessions : sess[t].id # me.id,
         me.op = "decide" => /\ \A r \in Remarks : remark[r].resolved_at # me.row.resolved_at
                             /\ \A t \in Sessions : sess[t].row.resolved_at # me.row.resolved_at
  PROVE  AtHand'
<1>1. sess'[s] = me /\ \A t \in Sessions \ {s} : sess'[t] = sess[t]
  BY DEF TypeOK
<1>2. \A t \in Sessions : AtWork(sess[t])'
  BY <1>1 DEF AtHand, AtWork
<1>3. \A r \in Remarks : Filled(remark[r])'
  BY DEF AtHand, Filled
<1>4. OwnIds'
  BY <1>1 DEF AtHand, OwnIds
<1>5. OwnTimes'
  <2>1. InOrder(remark, Approved)'
    BY DEF AtHand, OwnTimes, InOrder, Approved
  <2>2. \A t \in Sessions : sess'[t].op = "decide" =>
          \A r \in Remarks : remark[r].resolved_at # sess'[t].row.resolved_at
    BY <1>1 DEF AtHand, OwnTimes
  <2>3. \A t, u \in Sessions : t # u /\ sess'[t].op = "decide" /\ sess'[u].op = "decide" =>
          sess'[u].row.resolved_at # sess'[t].row.resolved_at
    BY <1>1 DEF AtHand, OwnTimes
  <2> QED
    BY <2>1, <2>2, <2>3 DEF OwnTimes
<1> QED
  BY <1>2, <1>3, <1>4, <1>5 DEF AtHand

\* A remark is raised under an id that no other call has.
LEMMA RaiseAtHand ==
  ASSUME TypeOK, AtHand, NEW s \in Sessions, NEW row \in FileRemark, Unused # {}, Raise(s, row),
         row.status = "open", row.resolved_at = 0, Filled(row)
  PROVE  AtHand'
<1> DEFINE id == CHOOSE r \in Unused : TRUE
           me == [op |-> "create", id |-> id, row |-> row]
<1>1. id \in Remarks /\ remark[id].status = "none" /\ \A t \in Sessions : sess[t].id # id
  BY DEF Unused
<1>2. sess' = [sess EXCEPT ![s] = me] /\ remark' = remark
  BY DEF Raise
<1> HIDE DEF id
<1>3. me.op = "create" /\ me.id = id /\ me.row = row
  OBVIOUS
<1> HIDE DEF me
<1>4. AtWork(me)
  BY <1>1, <1>3 DEF AtWork
<1> QED
  BY <1>1, <1>2, <1>3, <1>4, ReadKeeps

\* The three ways to raise one fill in the row.
LEMMA CreateAtHand ==
  ASSUME TypeOK, AtHand, NEW s \in Sessions, Create(s)
  PROVE  AtHand'
<1>1. /\ request.root \in Files /\ request.deposit \in Nat /\ request.total \in Nat
      /\ Splits \subseteq Values /\ \A f \in Files : LiveFiles[f] \in Nat
  BY LiveTypes, ConstantsOK DEF TypeOK, Values
<1>2. NoRow \in FileRemark /\ Unused # {} /\ NoRow.resolved_at = 0
  BY DEF NoRow, FileRemark, Nothing, Create
<1>3. \A parent \in Files, named \in BOOLEAN : ParentAmount(LiveFiles, parent, named) \in Nat
  BY <1>1 DEF ParentAmount
<1>4. ASSUME NEW parent \in Files, NEW named \in BOOLEAN, NEW targets \in Splits,
             CreateSplit(s, LiveFiles, parent, named, targets)
      PROVE  AtHand'
  <2> DEFINE row == [NoRow EXCEPT !.status = "open", !.category = "invoice_split",
               !.old_file = parent, !.old_amount = ParentAmount(LiveFiles, parent, named),
               !.split_targets = targets]
  <2>1. /\ row \in FileRemark /\ row.status = "open" /\ row.resolved_at = 0
        /\ row.category = "invoice_split" /\ row.old_file = parent
        /\ row.old_amount = ParentAmount(LiveFiles, parent, named) /\ row.split_targets = targets
    <3>1. targets \in [Files -> Nat]
      BY <1>1 DEF Values
    <3> QED
      BY <1>2, <1>3, <3>1 DEF NoRow, FileRemark, FileRemarkStatus, Category
  <2>2. Raise(s, row) /\ SumOf(targets) <= ParentAmount(LiveFiles, parent, named)
    BY <1>4 DEF CreateSplit
  <2> HIDE DEF row
  <2>3. Filled(row)
    BY <2>1, <2>2 DEF Filled
  <2> QED
    BY <1>2, <2>1, <2>2, <2>3, RaiseAtHand
<1>5. ASSUME NEW parent \in Files, NEW named \in BOOLEAN, NEW number \in Files,
             CreateFileChange(s, LiveFiles, parent, named, number)
      PROVE  AtHand'
  <2> DEFINE row == [NoRow EXCEPT !.status = "open", !.category = "invoice_amount_change",
               !.old_file = parent, !.old_amount = ParentAmount(LiveFiles, parent, named),
               !.new_file = number, !.new_amount = ParentAmount(LiveFiles, parent, named)]
  <2>1. /\ row \in FileRemark /\ row.status = "open" /\ row.resolved_at = 0
        /\ row.category = "invoice_amount_change" /\ row.old_file = parent /\ row.new_file = number
    BY <1>2, <1>3 DEF NoRow, FileRemark, FileRemarkStatus, Category
  <2>2. Raise(s, row)
    BY <1>5 DEF CreateFileChange
  <2> HIDE DEF row
  <2>3. Filled(row)
    BY <2>1 DEF Filled
  <2> QED
    BY <1>2, <2>1, <2>2, <2>3, RaiseAtHand
<1>6. ASSUME CreateValueChange(s) PROVE AtHand'
  <2> DEFINE row == [NoRow EXCEPT !.status = "open", !.category = "invoice_value_change",
                                  !.old_file = request.root, !.old_amount = request.total]
  <2>1. /\ row \in FileRemark /\ row.status = "open" /\ row.resolved_at = 0
        /\ row.category = "invoice_value_change"
    BY <1>1, <1>2 DEF NoRow, FileRemark, FileRemarkStatus, Category
  <2>2. Raise(s, row)
    BY <1>6 DEF CreateValueChange
  <2> HIDE DEF row
  <2>3. Filled(row)
    BY <2>1 DEF Filled
  <2> QED
    BY <1>2, <2>1, <2>2, <2>3, RaiseAtHand
<1> QED
  BY <1>4, <1>5, <1>6 DEF Create

\* A decision takes a time that no other has.
LEMMA AccountsAtHand ==
  ASSUME TypeOK, AtHand, NEW s \in Sessions, AccountsCall(s)
  PROVE  AtHand'
<1>1. ASSUME NEW id \in Remarks, NEW decision \in {"approved", "rejected"},
             Decide(s, id, decision)
      PROVE  AtHand'
  <2> DEFINE row == [remark[id] EXCEPT !.status = decision, !.resolved_at = Now]
             me == [op |-> "decide", id |-> id, row |-> row]
  <2>1. /\ Now \in Nat /\ \A r \in Remarks : remark[r].resolved_at < Now
        /\ \A t \in Sessions : sess[t].row.resolved_at < Now
    BY NowIsLater
  <2>2. /\ remark[id] \in FileRemark
        /\ \A r \in Remarks : remark[r].resolved_at \in Nat
        /\ \A t \in Sessions : sess[t].row.resolved_at \in Nat
    BY DEF TypeOK, FileRemark
  <2>3. sess' = [sess EXCEPT ![s] = me] /\ remark' = remark /\ remark[id].status = "open"
    BY <1>1 DEF Decide
  <2>4. row.status = decision /\ row.resolved_at = Now
    BY <2>2 DEF FileRemark
  <2> HIDE DEF row
  <2>5. me.op = "decide" /\ me.id = id /\ me.row = row
    OBVIOUS
  <2> HIDE DEF me
  <2>6. Now > 0
    BY <2>1, <2>2
  <2>7. AtWork(me)
    BY <2>3, <2>4, <2>5, <2>6 DEF AtWork
  <2>8. /\ \A r \in Remarks : remark[r].resolved_at # me.row.resolved_at
        /\ \A t \in Sessions : sess[t].row.resolved_at # me.row.resolved_at
    BY <2>1, <2>2, <2>4, <2>5
  <2> QED
    BY <2>3, <2>5, <2>7, <2>8, ReadKeeps
<1>2. ASSUME NEW id \in Remarks, NEW revised \in Totals, ApplyRevisedAmount(s, id, revised)
      PROVE  AtHand'
  <2> DEFINE row == [remark[id] EXCEPT !.new_amount = revised]
             me == [op |-> "apply", id |-> id, row |-> row]
  <2>1. /\ sess' = [sess EXCEPT ![s] = me] /\ remark' = remark
        /\ remark[id].status = "approved" /\ remark[id].category = "invoice_value_change"
    BY <1>2 DEF ApplyRevisedAmount, AwaitsAmount
  <2> HIDE DEF row
  <2>2. me.op = "apply" /\ me.id = id
    OBVIOUS
  <2> HIDE DEF me
  <2>3. AtWork(me)
    BY <2>1, <2>2 DEF AtWork
  <2> QED
    BY <2>1, <2>2, <2>3, ReadKeeps
<1> QED
  BY <1>1, <1>2 DEF AccountsCall

\* What a commit leaves of the rows: a new one, or one with its decision or its amount.
LEMMA Written ==
  ASSUME TypeOK, AtHand, NEW s \in Sessions, Commit(s)
  PROVE  LET id == sess[s].id
             row == remark'[id]
         IN /\ sess[s].op \in {"create", "decide", "apply"} /\ id \in Remarks
            /\ \A r \in Remarks \ {id} : remark'[r] = remark[r]
            /\ sess'[s] = IdleSession /\ \A t \in Sessions \ {s} : sess'[t] = sess[t]
            /\ request'.root = request.root /\ request'.deposit = request.deposit
            /\ sess[s].op = "create" => row = sess[s].row
            /\ sess[s].op = "decide" =>
                 row = [remark[id] EXCEPT !.status = sess[s].row.status,
                                          !.resolved_at = sess[s].row.resolved_at]
            /\ sess[s].op = "apply" =>
                 row = [remark[id] EXCEPT !.new_amount = sess[s].row.new_amount]
<1> DEFINE id == sess[s].id
<1>1. sess[s].op \in {"create", "decide", "apply"} /\ id \in Remarks
  BY DEF Commit, TypeOK, AtHand, AtWork
<1>2. remark'[id] = WrittenRow(s) /\ \A r \in Remarks \ {id} : remark'[r] = remark[r]
  BY <1>1 DEF Commit, TypeOK
<1>3. sess'[s] = IdleSession /\ \A t \in Sessions \ {s} : sess'[t] = sess[t]
  BY DEF Commit, TypeOK
<1>4. request'.root = request.root /\ request'.deposit = request.deposit
  BY DEF Commit, TypeOK
<1> QED
  BY <1>1, <1>2, <1>3, <1>4 DEF WrittenRow

\* A commit keeps what the other calls have at hand.
LEMMA CommitAtHand ==
  ASSUME TypeOK, AtHand, NEW s \in Sessions, Commit(s)
  PROVE  AtHand'
<1> DEFINE id == sess[s].id
           row == remark'[id]
<1>1. /\ sess[s].op \in {"create", "decide", "apply"} /\ id \in Remarks
      /\ \A r \in Remarks \ {id} : remark'[r] = remark[r]
      /\ sess'[s] = IdleSession /\ \A t \in Sessions \ {s} : sess'[t] = sess[t]
      /\ sess[s].op = "create" => row = sess[s].row
      /\ sess[s].op = "decide" =>
           row = [remark[id] EXCEPT !.status = sess[s].row.status,
                                    !.resolved_at = sess[s].row.resolved_at]
      /\ sess[s].op = "apply" =>
           row = [remark[id] EXCEPT !.new_amount = sess[s].row.new_amount]
  BY Written
<1>2. remark[id] \in FileRemark /\ AtWork(sess[s]) /\ IdleSession.op = "idle"
  BY <1>1 DEF TypeOK, AtHand, IdleSession
<1> DEFINE before == remark[id]
           mine == sess[s]
<1>3. /\ row.status # "none" /\ Filled(row)
      /\ before.status # "none" => row.category = before.category
      /\ mine.op = "create" => before.status = "none"
      /\ row.status = "approved" =>
           \/ mine.op = "decide" /\ row.resolved_at = mine.row.resolved_at
           \/ before.status = "approved" /\ row.resolved_at = before.resolved_at
      /\ \/ row.resolved_at \in {0, before.resolved_at}
         \/ mine.op = "decide" /\ row.resolved_at = mine.row.resolved_at
  <2>1. CASE mine.op = "create"
    BY <1>1, <1>2, <2>1 DEF AtWork
  <2>2. CASE mine.op = "decide"
    <3>1. /\ row.category = before.category /\ row.old_file = before.old_file
          /\ row.old_amount = before.old_amount /\ row.new_file = before.new_file
          /\ row.split_targets = before.split_targets
          /\ row.status = mine.row.status /\ row.resolved_at = mine.row.resolved_at
      BY <1>1, <1>2, <2>2 DEF FileRemark
    <3>2. Filled(before) /\ mine.row.status \in {"approved", "rejected"}
      BY <1>1, <1>2, <2>2 DEF AtHand, AtWork
    <3> HIDE DEF row, before, mine
    <3> QED
      BY <2>2, <3>1, <3>2 DEF Filled
  <2>3. CASE mine.op = "apply"
    <3>1. /\ row.category = before.category /\ row.status = before.status
          /\ row.resolved_at = before.resolved_at
      BY <1>1, <1>2, <2>3 DEF FileRemark
    <3>2. before.status # "none" /\ before.category = "invoice_value_change"
      BY <1>2, <2>3 DEF AtWork
    <3> HIDE DEF row, before, mine
    <3> QED
      BY <2>3, <3>1, <3>2 DEF Filled
  <2> QED
    BY <1>1, <2>1, <2>2, <2>3
<1>4. \A t \in Sessions : AtWork(sess[t])'
  <2> SUFFICES ASSUME NEW t \in Sessions \ {s} PROVE AtWork(sess[t])'
    BY <1>1, <1>2 DEF AtWork
  <2>1. sess'[t] = sess[t] /\ AtWork(sess[t])
    BY <1>1 DEF AtHand
  <2>2. CASE sess[t].op = "create"
    <3>1. sess[t].id # id
      <4>1. CASE mine.op = "create"
        BY <2>2, <4>1 DEF AtHand, OwnIds
      <4>2. CASE mine.op # "create"
        BY <1>1, <1>2, <2>1, <2>2, <4>2 DEF AtWork
      <4> QED
        BY <4>1, <4>2
    <3>2. remark'[sess[t].id] = remark[sess[t].id]
      BY <1>1, <2>1, <2>2, <3>1 DEF AtWork
    <3> QED
      BY <2>1, <2>2, <3>2 DEF AtWork
  <2>3. CASE sess[t].op # "create"
    <3>1. CASE sess[t].id = id
      BY <1>3, <2>1, <2>3, <3>1 DEF AtWork
    <3>2. CASE sess[t].id # id
      BY <1>1, <2>1, <2>3, <3>2 DEF AtWork
    <3> QED
      BY <3>1, <3>2
  <2> QED
    BY <2>2, <2>3
<1>5. \A r \in Remarks : Filled(remark[r])'
  <2>1. \A r \in Remarks : Filled(remark'[r])
    <3> HIDE DEF id
    <3> QED
      BY <1>1, <1>3 DEF AtHand
  <2> QED
    BY <2>1 DEF Filled
<1>6. OwnIds'
  BY <1>1, <1>2 DEF AtHand, OwnIds
<1> HIDE DEF id, row, before, mine
<1>7. \A t \in Sessions \ {s} : sess[t].op = "decide" =>
        \A r \in Remarks : remark'[r].resolved_at # sess[t].row.resolved_at
  <2> SUFFICES ASSUME NEW t \in Sessions \ {s}, sess[t].op = "decide", NEW r \in Remarks
               PROVE  remark'[r].resolved_at # sess[t].row.resolved_at
    OBVIOUS
  <2>1. /\ \A q \in Remarks : remark[q].resolved_at # sess[t].row.resolved_at
        /\ sess[s].op = "decide" => sess[s].row.resolved_at # sess[t].row.resolved_at
        /\ sess[t].row.resolved_at \in Nat /\ sess[t].row.resolved_at > 0
    BY DEF AtHand, OwnTimes, AtWork, TypeOK, FileRemark
  <2>2. CASE r = id
    BY <1>1, <1>3, <2>1, <2>2 DEF row, before, mine
  <2>3. CASE r # id
    BY <1>1, <2>1, <2>3
  <2> QED
    BY <2>2, <2>3
<1>8. InOrder(remark, Approved)'
  <2>1. ASSUME NEW p \in Remarks \ {id}, remark[p].status = "approved", row.status = "approved"
        PROVE  row.resolved_at # remark[p].resolved_at
    <3>1. CASE mine.op = "decide" /\ row.resolved_at = mine.row.resolved_at
      BY <3>1 DEF AtHand, OwnTimes, mine
    <3>2. CASE before.status = "approved" /\ row.resolved_at = before.resolved_at
      BY <1>1, <2>1, <3>2 DEF AtHand, OwnTimes, InOrder, Approved, before
    <3> QED
      BY <1>3, <2>1, <3>1, <3>2
  <2>2. \A p, q \in Remarks : /\ p # q /\ remark'[p].status = "approved"
                              /\ remark'[q].status = "approved"
                              => remark'[p].resolved_at # remark'[q].resolved_at
    <3>1. \A p, q \in Remarks \ {id} :
            p # q /\ remark[p].status = "approved" /\ remark[q].status = "approved" =>
              remark[p].resolved_at # remark[q].resolved_at
      BY DEF AtHand, OwnTimes, InOrder, Approved
    <3> QED
      BY <1>1, <2>1, <3>1 DEF row
  <2> QED
    BY <2>2 DEF InOrder, Approved
<1>9. OwnTimes'
  <2>1. \A t \in Sessions : sess'[t].op = "decide" => t # s /\ sess'[t] = sess[t]
    BY <1>1, <1>2
  <2>2. \A t, u \in Sessions : t # u /\ sess[t].op = "decide" /\ sess[u].op = "decide" =>
          sess[u].row.resolved_at # sess[t].row.resolved_at
    BY DEF AtHand, OwnTimes
  <2> QED
    BY <1>7, <1>8, <2>1, <2>2 DEF OwnTimes
<1> QED
  BY <1>4, <1>5, <1>6, <1>9 DEF AtHand

\* Decisions have each their own time and remarks their own row, so that the order in
\* which live_files_for_request replays them is one order, in whatever order the
\* transactions commit.
THEOREM DecisionsHaveTheirTime == Spec => []AtHand
<1>1. Init => AtHand
  <2> SUFFICES ASSUME Init PROVE AtHand
    OBVIOUS
  <2>1. \A s \in Sessions : sess[s].op = "idle"
    BY DEF Init, IdleSession
  <2>2. \A r \in Remarks : remark[r].category = "none" /\ remark[r].status = "none"
    BY DEF Init, NoRow
  <2> QED
    BY <2>1, <2>2 DEF AtHand, AtWork, Filled, OwnIds, OwnTimes, InOrder, Approved
<1>2. TypeOK /\ AtHand /\ [Next]_vars => AtHand'
  <2> SUFFICES ASSUME TypeOK, AtHand, [Next]_vars PROVE AtHand'
    OBVIOUS
  <2>1. ASSUME NEW s \in Sessions, Fails(s) PROVE AtHand'
    <3>1. sess' = [sess EXCEPT ![s] = IdleSession] /\ remark' = remark
      BY <2>1 DEF Fails
    <3>2. IdleSession.op = "idle" /\ AtWork(IdleSession)
      BY DEF IdleSession, AtWork
    <3> QED
      BY <3>1, <3>2, ReadKeeps
  <2>2. ASSUME NEW s \in Sessions, Create(s) \/ AccountsCall(s) \/ Commit(s) PROVE AtHand'
    BY <2>2, CreateAtHand, AccountsAtHand, CommitAtHand
  <2>3. ASSUME remark' = remark, sess' = sess PROVE AtHand'
    BY <2>3 DEF AtHand, AtWork, Filled, OwnIds, OwnTimes, InOrder, Approved
  <2>4. ASSUME NEW number \in Files, EditInvoiceNumber(number) PROVE AtHand'
    BY <2>3, <2>4 DEF EditInvoiceNumber
  <2>5. CASE AddTranche(1) \/ PayRest \/ Cancel
    BY <2>3, <2>5 DEF AddTranche, PayRest, Cancel
  <2>6. CASE UNCHANGED vars
    BY <2>3, <2>6 DEF vars
  <2> QED
    BY <2>1, <2>2, <2>4, <2>5, <2>6 DEF Next
<1> QED
  BY <1>1, <1>2, RemarksTypeOK, PTL DEF Spec

--------------------------------------------------------------------------------
\* What one step can do to the ledger.

\* No approved remark is decided again.
Kept == \A r \in Approved : r \in Approved' /\ remark'[r].resolved_at = remark[r].resolved_at

SameReplay ==
  /\ request'.root = request.root /\ request'.deposit = request.deposit
  /\ Approved' = Approved /\ \A r \in Approved : remark'[r].category = remark[r].category
  /\ \A start \in Values : LedgerOf(start, remark', Approved) = LedgerOf(start, remark, Approved)

OneApproved(id) ==
  /\ request'.root = request.root /\ request'.deposit = request.deposit
  /\ id \in Remarks \ Approved /\ Approved' = Approved \cup {id}
  /\ \A r \in Remarks \ {id} : remark'[r] = remark[r]
  /\ remark'[id] = [remark[id] EXCEPT !.status = "approved", !.resolved_at = remark'[id].resolved_at]

RootMoved ==
  /\ remark' = remark
  /\ request'.root # request.root /\ request'.deposit = request.deposit

Grown ==
  /\ remark' = remark
  /\ request'.root = request.root /\ request'.deposit = request.deposit + 1

\* Rows that read the same to the replay.
LEMMA RowsReplayed ==
  ASSUME TypeOK, AtHand, remark' \in Rows, Approved' = Approved,
         request'.root = request.root, request'.deposit = request.deposit,
         \A r \in Approved : /\ remark'[r].resolved_at = remark[r].resolved_at
                             /\ remark'[r].category = remark[r].category
                             /\ \A files \in Values :
                                  Replay(files, remark'[r]) = Replay(files, remark[r])
  PROVE  SameReplay
<1>1. remark \in Rows /\ Approved \in SUBSET Remarks /\ InOrder(remark, Approved)
  BY LiveTypes DEF AtHand, OwnTimes
<1>2. \A start \in Values : LedgerOf(start, remark', Approved) = LedgerOf(start, remark, Approved)
  BY <1>1, SameLedger
<1> QED
  BY <1>2 DEF SameReplay

\* A step that writes no row, and neither the root file nor the deposit.
LEMMA Untouched ==
  ASSUME remark' = remark, request'.root = request.root, request'.deposit = request.deposit
  PROVE  SameReplay
BY DEF SameReplay, Approved

\* A commit raises a remark, writes an amount, rejects one, approves one or decides an
\* approved one again.
LEMMA CommitSteps ==
  ASSUME TypeOK, AtHand, TypeOK', NEW s \in Sessions, Commit(s)
  PROVE  SameReplay \/ (\E id \in Remarks : OneApproved(id)) \/ ~Kept
<1> DEFINE id == sess[s].id
           row == remark'[id]
           before == remark[id]
           mine == sess[s]
<1>1. /\ mine.op \in {"create", "decide", "apply"} /\ id \in Remarks
      /\ \A r \in Remarks \ {id} : remark'[r] = remark[r]
      /\ request'.root = request.root /\ request'.deposit = request.deposit
      /\ mine.op = "create" => row = mine.row
      /\ mine.op = "decide" => row = [before EXCEPT !.status = mine.row.status,
                                                    !.resolved_at = mine.row.resolved_at]
      /\ mine.op = "apply" => row = [before EXCEPT !.new_amount = mine.row.new_amount]
  BY Written
<1>2. before \in FileRemark /\ AtWork(mine) /\ remark' \in Rows
  BY <1>1 DEF TypeOK, AtHand, Rows
<1>3. ASSUME row.status = "approved" <=> before.status = "approved",
             before.status = "approved" =>
               /\ row.resolved_at = before.resolved_at /\ row.category = before.category
               /\ \A files \in Values : Replay(files, row) = Replay(files, before)
      PROVE  SameReplay
  <2> HIDE DEF id
  <2>1. Approved' = Approved
    BY <1>1, <1>3 DEF Approved
  <2>2. \A r \in Approved : /\ remark'[r].resolved_at = remark[r].resolved_at
                            /\ remark'[r].category = remark[r].category
                            /\ \A files \in Values :
                                 Replay(files, remark'[r]) = Replay(files, remark[r])
    BY <1>1, <1>3 DEF Approved
  <2> QED
    BY <1>1, <1>2, <2>1, <2>2, RowsReplayed
<1>4. CASE mine.op = "create"
  <2>1. row.status = "open" /\ before.status = "none"
    BY <1>1, <1>2, <1>4 DEF AtWork
  <2> QED
    BY <1>3, <2>1
<1>5. CASE mine.op = "apply"
  <2>1. /\ row.status = before.status /\ row.resolved_at = before.resolved_at
        /\ row.category = before.category /\ before.category = "invoice_value_change"
    BY <1>1, <1>2, <1>5 DEF AtWork, FileRemark
  <2>2. \A files \in Values : Replay(files, row) = Replay(files, before)
    BY <2>1 DEF Replay
  <2> QED
    BY <1>3, <2>1, <2>2
<1>6. CASE mine.op = "decide"
  <2>1. /\ row = [before EXCEPT !.status = mine.row.status, !.resolved_at = mine.row.resolved_at]
        /\ row.status = mine.row.status /\ row.resolved_at = mine.row.resolved_at
        /\ mine.row.status \in {"approved", "rejected"}
        /\ before.resolved_at # mine.row.resolved_at
    BY <1>1, <1>2, <1>6 DEF AtWork, FileRemark, AtHand, OwnTimes
  <2>2. CASE before.status = "approved"
    <3>1. id \in Approved /\ row.resolved_at # before.resolved_at
      BY <1>1, <2>1, <2>2 DEF Approved
    <3> QED
      BY <3>1 DEF Kept
  <2>3. CASE before.status # "approved" /\ mine.row.status = "rejected"
    BY <1>3, <2>1, <2>3
  <2>4. CASE before.status # "approved" /\ mine.row.status = "approved"
    <3>1. Approved' = Approved \cup {id} /\ id \in Remarks \ Approved
      <4> HIDE DEF id
      <4>1. \A r \in Remarks : remark'[r].status = "approved" <=>
                                 remark[r].status = "approved" \/ r = id
        BY <1>1, <2>1, <2>4
      <4>2. remark[id].status # "approved"
        BY <2>4
      <4> QED
        BY <1>1, <4>1, <4>2 DEF Approved
    <3>2. row = [before EXCEPT !.status = "approved", !.resolved_at = row.resolved_at]
      BY <2>1, <2>4
    <3>3. OneApproved(id)
      BY <1>1, <3>1, <3>2 DEF OneApproved
    <3> QED
      BY <1>1, <3>3
  <2> QED
    BY <2>1, <2>2, <2>3, <2>4
<1> QED
  BY <1>1, <1>4, <1>5, <1>6

\* A step leaves what is replayed, approves one remark, decides an approved one again,
\* moves the root file or lets the deposit grow.
LEMMA LedgerSteps ==
  ASSUME TypeOK, AtHand, TypeOK', [Next]_vars
  PROVE  SameReplay \/ (\E id \in Remarks : OneApproved(id)) \/ ~Kept \/ RootMoved \/ Grown
<1>1. ASSUME NEW s \in Sessions, Create(s) PROVE SameReplay
  <2>1. remark' = remark /\ request' = request
    BY <1>1 DEF Create, CreateSplit, CreateFileChange, CreateValueChange, Raise
  <2> QED
    BY <2>1, Untouched
<1>2. ASSUME NEW s \in Sessions, AccountsCall(s) \/ Fails(s) PROVE SameReplay
  <2>1. remark' = remark /\ request' = request
    BY <1>2 DEF AccountsCall, Decide, ApplyRevisedAmount, Fails
  <2> QED
    BY <2>1, Untouched
<1>3. ASSUME NEW number \in Files, EditInvoiceNumber(number) PROVE RootMoved
  BY <1>3 DEF EditInvoiceNumber, RootMoved, TypeOK
<1>4. CASE AddTranche(1)
  BY <1>4 DEF AddTranche, Grown, TypeOK
<1>5. CASE PayRest \/ Cancel
  <2>1. remark' = remark /\ request'.root = request.root /\ request'.deposit = request.deposit
    BY <1>5 DEF PayRest, Cancel, TypeOK
  <2> QED
    BY <2>1, Untouched
<1>6. CASE UNCHANGED vars
  BY <1>6, Untouched DEF vars
<1> QED
  BY <1>1, <1>2, <1>3, <1>4, <1>5, <1>6, CommitSteps DEF Next

--------------------------------------------------------------------------------
\* What can take value from a file.

\* A file that starts with more, or has more added, never ends up with less.
LEMMA MoreStaysMore ==
  ASSUME NEW row \in FileRemark, NEW f \in Files, NEW v \in Nat, NEW w \in Nat, v <= w
  PROVE  /\ After(row, f, v) \in Nat /\ After(row, f, w) \in Nat
         /\ After(row, f, v) <= After(row, f, w)
<1> DEFINE moved == SumOf(row.split_targets)
           added == row.split_targets[f]
<1>1. moved \in Nat /\ added \in Nat /\ row.new_amount \in Nat
  <2>1. row.split_targets \in Values /\ row.new_amount \in Nat
    BY DEF FileRemark, Values
  <2> QED
    BY <2>1, SumOfIsSumOn DEF Values
<1>2. \A x \in Nat :
        /\ row.category = "invoice_split" =>
             After(row, f, x) = (IF f = row.old_file THEN IF x > moved THEN x - moved ELSE 0
                                 ELSE x) + added
        /\ row.category = "invoice_amount_change" =>
             After(row, f, x) = IF f = row.new_file THEN row.new_amount
                                ELSE IF f = row.old_file THEN 0 ELSE x
        /\ row.category \notin {"invoice_split", "invoice_amount_change"} => After(row, f, x) = x
  BY DEF After
<1> HIDE DEF moved, added
<1>3. CASE row.category = "invoice_split"
  BY <1>1, <1>2, <1>3
<1>4. CASE row.category = "invoice_amount_change"
  BY <1>1, <1>2, <1>4
<1>5. CASE row.category \notin {"invoice_split", "invoice_amount_change"}
  BY <1>2, <1>5
<1> QED
  BY <1>3, <1>4, <1>5

\* The replay of a larger start leaves every file at least as much.
LEMMA LargerStart ==
  ASSUME NEW rows \in Rows, NEW start \in Values, NEW more \in Values,
         \A f \in Files : start[f] <= more[f],
         NEW ids \in SUBSET Remarks, NEW f \in Files
  PROVE  LedgerOf(start, rows, ids)[f] <= LedgerOf(more, rows, ids)[f]
<1> DEFINE Good == {T \in SUBSET Remarks : LedgerOf(start, rows, T)[f] <= LedgerOf(more, rows, T)[f]}
<1>1. ASSUME NEW T \in SUBSET Remarks, \A x \in T : T \ {x} \in Good
      PROVE  LedgerOf(start, rows, T)[f] <= LedgerOf(more, rows, T)[f]
  <2>1. CASE T = {}
    BY <2>1, LedgerStep
  <2>2. CASE T # {}
    <3> DEFINE p == Latest(rows, T)
               rest == T \ {p}
    <3>1. p \in T /\ p \in Remarks /\ rest \in SUBSET Remarks
      BY <2>2, LatestIs
    <3>2. /\ LedgerOf(start, rows, T) = Replay(LedgerOf(start, rows, rest), rows[p])
          /\ LedgerOf(more, rows, T) = Replay(LedgerOf(more, rows, rest), rows[p])
      BY <2>2, LedgerStep
    <3> HIDE DEF p
    <3>3. LedgerOf(start, rows, rest)[f] <= LedgerOf(more, rows, rest)[f]
      BY <1>1, <3>1
    <3> HIDE DEF rest
    <3>4. LedgerOf(start, rows, rest) \in Values /\ LedgerOf(more, rows, rest) \in Values
      BY <3>1, LedgerStep
    <3>5. rows[p] \in FileRemark
      BY <3>1 DEF Rows
    <3>6. /\ LedgerOf(start, rows, T)[f] = After(rows[p], f, LedgerOf(start, rows, rest)[f])
          /\ LedgerOf(more, rows, T)[f] = After(rows[p], f, LedgerOf(more, rows, rest)[f])
      BY <3>2, <3>4, <3>5, ReplayAt
    <3>7. LedgerOf(start, rows, rest)[f] \in Nat /\ LedgerOf(more, rows, rest)[f] \in Nat
      BY <3>4 DEF Values
    <3> QED
      BY <3>3, <3>5, <3>6, <3>7, MoreStaysMore
  <2> QED
    BY <2>1, <2>2
<1>2. ids \in Good
  <2>1. IsFiniteSet(Remarks) /\ ids \in SUBSET Remarks
    BY ConstantsOK
  <2>2. \A T \in SUBSET Remarks : (\A x \in T : T \ {x} \in Good) => T \in Good
    BY <1>1
  <2> HIDE DEF Good
  <2> QED
    BY <2>1, <2>2, EverySubset
<1> QED
  BY <1>2

\* One remark more takes value from its own files only, wherever its decision comes in
\* the order.
LEMMA OneMoreRemark ==
  ASSUME NEW rows \in Rows, NEW start \in Values, NEW ids \in SUBSET Remarks,
         NEW id \in Remarks \ ids, InOrder(rows, ids \cup {id}), NEW f \in Files,
         \/ rows[id].category \notin {"invoice_split", "invoice_amount_change"}
         \/ rows[id].old_file # f /\ rows[id].new_file # f
  PROVE  LedgerOf(start, rows, ids)[f] <= LedgerOf(start, rows, ids \cup {id})[f]
<1> DEFINE With(T) == LedgerOf(start, rows, T \cup {id})[f]
           Without(T) == LedgerOf(start, rows, T)[f]
           Good == {T \in SUBSET ids : Without(T) <= With(T)}
<1>1. ASSUME NEW T \in SUBSET ids, \A x \in T : T \ {x} \in Good
      PROVE  Without(T) <= With(T)
  <2> DEFINE all == T \cup {id}
             p == Latest(rows, all)
  <2>1. T \in SUBSET Remarks /\ all \in SUBSET Remarks /\ all # {} /\ id \notin T /\ id \in all
    OBVIOUS
  <2>2. p \in all /\ p \in Remarks /\ \A q \in all : rows[q].resolved_at <= rows[p].resolved_at
    <3> HIDE DEF all
    <3> QED
      BY <2>1, LatestIs
  <2>3. LedgerOf(start, rows, all) = Replay(LedgerOf(start, rows, all \ {p}), rows[p])
    <3> HIDE DEF all
    <3> QED
      BY <2>1, LedgerStep
  <2> HIDE DEF p
  <2>4. rows[p] \in FileRemark
    BY <2>2 DEF Rows
  <2>5. CASE p = id
    <3>1. all \ {p} = T
      BY <2>1, <2>5
    <3>2. LedgerOf(start, rows, T) \in Values
      BY <2>1, LedgerStep
    <3>3. With(T) = After(rows[p], f, Without(T))
      BY <2>3, <2>4, <3>1, <3>2, ReplayAt
    <3>4. Without(T) \in Nat
      BY <3>2 DEF Values
    <3> HIDE DEF With, Without
    <3>5. rows[p].split_targets[f] \in Nat
      BY <2>4 DEF FileRemark
    <3>6. After(rows[p], f, Without(T)) =
            IF rows[p].category = "invoice_split" THEN Without(T) + rows[p].split_targets[f]
            ELSE Without(T)
      BY <2>5 DEF After
    <3> QED
      BY <3>3, <3>4, <3>5, <3>6
  <2>6. CASE p # id
    <3> DEFINE rest == T \ {p}
    <3>1. p \in T /\ all \ {p} = rest \cup {id} /\ rest \in SUBSET Remarks
          /\ rest \cup {id} \in SUBSET Remarks
      BY <2>1, <2>2, <2>6
    <3>2. Latest(rows, T) = p
      <4> DEFINE q == Latest(rows, T)
      <4>1. q \in T /\ rows[p].resolved_at <= rows[q].resolved_at
        BY <2>1, <3>1, LatestIs
      <4> HIDE DEF q
      <4>2. rows[q].resolved_at <= rows[p].resolved_at
        BY <2>2, <4>1
      <4>3. rows[p].resolved_at \in Nat /\ rows[q].resolved_at \in Nat
        BY <2>1, <3>1, <4>1 DEF Rows, FileRemark
      <4>4. rows[q].resolved_at = rows[p].resolved_at
        BY <4>1, <4>2, <4>3
      <4>5. p \in ids \cup {id} /\ q \in ids \cup {id}
        BY <3>1, <4>1
      <4>6. q = p
        BY <4>4, <4>5 DEF InOrder
      <4> QED
        BY <4>6 DEF q
    <3>3. LedgerOf(start, rows, T) = Replay(LedgerOf(start, rows, rest), rows[p])
      BY <2>1, <3>1, <3>2, LedgerStep
    <3>4. Without(rest) <= With(rest)
      BY <1>1, <3>1
    <3>5. LedgerOf(start, rows, rest) \in Values /\ LedgerOf(start, rows, rest \cup {id}) \in Values
      <4> HIDE DEF rest
      <4> QED
        BY <3>1, LedgerStep
    <3>6. Without(rest) \in Nat /\ With(rest) \in Nat
      BY <3>5 DEF Values
    <3>7. Without(T) = After(rows[p], f, Without(rest))
      BY <2>4, <3>3, <3>5, ReplayAt
    <3>8. With(T) = After(rows[p], f, With(rest))
      <4>1. LedgerOf(start, rows, all) = Replay(LedgerOf(start, rows, rest \cup {id}), rows[p])
        BY <2>3, <3>1
      <4> HIDE DEF rest
      <4> QED
        BY <2>4, <3>5, <4>1, ReplayAt
    <3> HIDE DEF With, Without, rest
    <3> QED
      BY <2>4, <3>4, <3>6, <3>7, <3>8, MoreStaysMore
  <2> QED
    BY <2>5, <2>6
<1>2. ids \in Good
  <2>1. IsFiniteSet(ids) /\ ids \in SUBSET ids
    BY ConstantsOK, FS_Subset
  <2>2. \A T \in SUBSET ids : (\A x \in T : T \ {x} \in Good) => T \in Good
    BY <1>1
  <2> HIDE DEF Good
  <2> QED
    BY <2>1, <2>2, EverySubset
<1> QED
  BY <1>2

\* Accounts actioned an approved File Change of the root file.
ByFileChange ==
  \E c \in Approved : /\ remark[c].category = "invoice_amount_change"
                      /\ remark[c].old_file = request.root /\ remark[c].new_file = request'.root

\* A split or a File Change of the file, or a File Change to its number, is approved.
TakenBy(q, f) ==
  /\ q \in Approved' \ Approved
  /\ remark[q].category \in {"invoice_split", "invoice_amount_change"}
  /\ f \in {remark[q].old_file, remark[q].new_file}

\* The root file moves and an approved File Change says so: the ledger stays.
LEMMA RootFollows ==
  ASSUME TypeOK, TypeOK', RootMoved, ByFileChange
  PROVE  /\ Approved' = Approved
         /\ LiveFiles' = LiveFiles
<1>1. PICK c \in Approved :
        /\ remark[c].category = "invoice_amount_change"
        /\ remark[c].old_file = request.root /\ remark[c].new_file = request'.root
  BY DEF ByFileChange
<1>2. /\ remark \in Rows /\ Start \in Values /\ Approved \in SUBSET Remarks
      /\ LiveFiles = LedgerOf(Start, remark, Approved) /\ request.root \in Files
  BY LiveTypes
<1>3. Start' \in Values /\ Approved' = Approved
  BY DEF RootMoved, Approved, TypeOK, Start, Nothing, Values
<1>4. \A f \in Files : f # remark[c].old_file /\ f # remark[c].new_file => Start'[f] = Start[f]
  BY <1>1, <1>2 DEF Start, Nothing, TypeOK
<1>5. LedgerOf(Start', remark, Approved) = LedgerOf(Start, remark, Approved)
  <2> DEFINE other == Start'
  <2>1. other \in Values /\ \A f \in Files :
          f # remark[c].old_file /\ f # remark[c].new_file => other[f] = Start[f]
    BY <1>3, <1>4
  <2> HIDE DEF other
  <2>2. LedgerOf(other, remark, Approved) = LedgerOf(Start, remark, Approved)
    BY <1>1, <1>2, <2>1, RootMoves
  <2> QED
    BY <2>2 DEF other
<1>6. LiveFiles' = LedgerOf(Start', remark', Approved')
  BY DEF LiveFiles
<1> QED
  BY <1>2, <1>3, <1>5, <1>6 DEF RootMoved

\* Types of the ledger after a step.
LEMMA LiveNext ==
  ASSUME TypeOK'
  PROVE  \A f \in Files : LiveFiles'[f] \in Nat
<1> DEFINE start == Start'
           ids == Approved'
           rows == remark'
<1>1. start \in Values /\ ids \in SUBSET Remarks /\ rows \in Rows
  BY DEF TypeOK, Start, Nothing, Values, Approved, Rows
<1>2. LiveFiles' = LedgerOf(start, rows, ids)
  BY DEF LiveFiles
<1> HIDE DEF start, ids, rows
<1>3. LedgerOf(start, rows, ids) \in Values
  BY <1>1, LedgerStep
<1> QED
  BY <1>2, <1>3 DEF Values

\* Nobody writes to what an open remark says of its file.
LEMMA OpenRowsStay ==
  ASSUME TypeOK, AtHand, [Next]_vars, NEW r \in Remarks,
         remark[r].status = "open", remark'[r].status = "open"
  PROVE  remark'[r].old_file = remark[r].old_file /\ remark'[r].old_amount = remark[r].old_amount
<1>1. ASSUME NEW s \in Sessions, Commit(s)
      PROVE  remark'[r].old_file = remark[r].old_file /\ remark'[r].old_amount = remark[r].old_amount
  <2> DEFINE id == sess[s].id
             row == remark'[id]
  <2>1. /\ sess[s].op \in {"create", "decide", "apply"} /\ id \in Remarks
        /\ \A q \in Remarks \ {id} : remark'[q] = remark[q]
        /\ sess[s].op = "decide" =>
             row = [remark[id] EXCEPT !.status = sess[s].row.status,
                                      !.resolved_at = sess[s].row.resolved_at]
        /\ sess[s].op = "apply" =>
             row = [remark[id] EXCEPT !.new_amount = sess[s].row.new_amount]
    BY <1>1, Written
  <2>2. remark[id] \in FileRemark /\ AtWork(sess[s])
    BY <2>1 DEF TypeOK, AtHand
  <2>3. CASE r # id
    BY <2>1, <2>3
  <2>4. CASE r = id
    <3>1. sess[s].op # "create"
      BY <2>2, <2>4 DEF AtWork
    <3> QED
      BY <2>1, <2>2, <2>4, <3>1 DEF FileRemark
  <2> QED
    BY <2>3, <2>4
<1>2. ASSUME NEW s \in Sessions, Create(s) \/ AccountsCall(s) \/ Fails(s) PROVE remark' = remark
  BY <1>2 DEF Create, CreateSplit, CreateFileChange, CreateValueChange, Raise, AccountsCall,
              Decide, ApplyRevisedAmount, Fails
<1>3. ASSUME \/ \E number \in Files : EditInvoiceNumber(number)
             \/ AddTranche(1) \/ PayRest \/ Cancel \/ UNCHANGED vars
      PROVE  remark' = remark
  BY <1>3 DEF EditInvoiceNumber, AddTranche, PayRest, Cancel, vars
<1> QED
  BY <1>1, <1>2, <1>3 DEF Next

\* One step takes value from a file only through a remark about it.
LEMMA FileLoses ==
  ASSUME TypeOK, AtHand, TypeOK', AtHand', [Next]_vars,
         NEW f \in Files, LiveFiles'[f] < LiveFiles[f]
  PROVE  \/ \E q \in Remarks : TakenBy(q, f)
         \/ ~Kept
         \/ request'.root # request.root /\ ~ByFileChange
<1>1. /\ remark \in Rows /\ remark' \in Rows /\ Start \in Values /\ Approved \in SUBSET Remarks
      /\ LiveFiles = LedgerOf(Start, remark, Approved) /\ LiveFiles[f] \in Nat
      /\ LiveFiles' = LedgerOf(Start', remark', Approved')
  <2>1. remark' \in Rows
    BY DEF TypeOK, Rows
  <2>2. LiveFiles' = LedgerOf(Start', remark', Approved')
    BY DEF LiveFiles
  <2> QED
    BY <2>1, <2>2, LiveTypes DEF Values
<1>2. ~(LiveFiles[f] <= LiveFiles'[f])
  <2>1. LiveFiles'[f] \in Nat
    BY LiveNext
  <2> QED
    BY <1>1, <2>1
<1>3. CASE SameReplay
  <2>1. Start' = Start
    BY <1>3 DEF SameReplay, Start, Nothing
  <2>2. LiveFiles' = LiveFiles
    BY <1>1, <1>3, <2>1 DEF SameReplay
  <2> QED
    BY <1>1, <1>2, <2>2
<1>4. ASSUME NEW id \in Remarks, OneApproved(id) PROVE TakenBy(id, f)
  <2>1. Start' = Start
    BY <1>4 DEF OneApproved, Start, Nothing
  <2>2. /\ \A r \in Approved : remark'[r] = remark[r]
        /\ InOrder(remark, Approved) /\ id \in Remarks \ Approved
        /\ Approved' = Approved \cup {id}
    BY <1>1, <1>4 DEF OneApproved, AtHand, OwnTimes
  <2>3. InOrder(remark', Approved \cup {id})
    <3>1. InOrder(remark, Approved)'
      BY DEF AtHand, OwnTimes
    <3> QED
      BY <2>2, <3>1 DEF InOrder
  <2>4. LedgerOf(Start, remark', Approved) = LedgerOf(Start, remark, Approved)
    BY <1>1, <2>2, SameLedger
  <2>5. /\ remark'[id].category = remark[id].category /\ remark'[id].old_file = remark[id].old_file
        /\ remark'[id].new_file = remark[id].new_file
    <3>1. remark[id] \in FileRemark
      BY <1>1 DEF Rows
    <3> QED
      BY <1>4, <3>1 DEF OneApproved, FileRemark
  <2>6. ASSUME \/ remark'[id].category \notin {"invoice_split", "invoice_amount_change"}
               \/ remark'[id].old_file # f /\ remark'[id].new_file # f
        PROVE  FALSE
    <3>1. LedgerOf(Start, remark', Approved)[f] <= LedgerOf(Start, remark', Approved \cup {id})[f]
      <4> DEFINE rows == remark'
      <4>1. /\ rows \in Rows /\ InOrder(rows, Approved \cup {id})
            /\ \/ rows[id].category \notin {"invoice_split", "invoice_amount_change"}
               \/ rows[id].old_file # f /\ rows[id].new_file # f
        BY <1>1, <2>3, <2>6
      <4> HIDE DEF rows
      <4>2. LedgerOf(Start, rows, Approved)[f] <= LedgerOf(Start, rows, Approved \cup {id})[f]
        BY <1>1, <2>2, <4>1, OneMoreRemark
      <4> QED
        BY <4>2 DEF rows
    <3> QED
      BY <1>1, <1>2, <2>1, <2>2, <2>4, <3>1
  <2> QED
    BY <2>2, <2>5, <2>6 DEF TakenBy
<1>5. CASE RootMoved
  <2>1. SUFFICES ASSUME ByFileChange PROVE FALSE
    BY <1>5 DEF RootMoved
  <2>2. LiveFiles' = LiveFiles
    BY <1>5, <2>1, RootFollows
  <2> QED
    BY <1>1, <1>2, <2>2
<1>6. CASE Grown
  <2> DEFINE more == Start'
  <2>1. remark' = remark /\ Approved' = Approved
    BY <1>6 DEF Grown, Approved
  <2>2. more \in Values /\ \A g \in Files : Start[g] <= more[g]
    <3>1. /\ request'.root = request.root /\ request'.deposit = request.deposit + 1
          /\ request.deposit \in Nat /\ request.root \in Files
      BY <1>6 DEF Grown, TypeOK
    <3>2. \A g \in Files : /\ Start[g] = IF g = request.root THEN request.deposit ELSE 0
                           /\ more[g] = IF g = request.root THEN request.deposit + 1 ELSE 0
      BY <3>1 DEF Start, Nothing
    <3>3. more \in Values
      BY <3>1 DEF Start, Nothing, Values
    <3> QED
      BY <3>1, <3>2, <3>3
  <2> HIDE DEF more
  <2>3. LedgerOf(Start, remark, Approved)[f] <= LedgerOf(more, remark, Approved)[f]
    BY <1>1, <2>2, LargerStart
  <2> QED
    BY <1>1, <1>2, <2>1, <2>3 DEF more
<1> QED
  BY <1>3, <1>4, <1>5, <1>6, LedgerSteps

\* An open remark goes out of date: its file becomes worth less than the remark says.
OutOfDate(r) == LiveFiles[remark[r].old_file] < remark[r].old_amount
GoesStale(r) ==
  /\ remark[r].status = "open" /\ remark'[r].status = "open"
  /\ remark[r].category \in {"invoice_split", "invoice_amount_change"}
  /\ ~OutOfDate(r) /\ OutOfDate(r)'

StaleByAnother ==
  \A r \in Remarks : GoesStale(r) =>
    \/ \E q \in Remarks \ {r} : TakenBy(q, remark[r].old_file)
    \/ ~Kept
    \/ request'.root # request.root /\ ~ByFileChange

\* With any number of sessions and whatever clients type: what the raiser saw of a file
\* goes out of date, while the remark is open, only when another split or File Change of
\* the same file is approved, or a File Change to its number; when Accounts decide a
\* decided remark again; or when they correct the root number.  selectable_files of
\* file_remark_service.py is there to prevent the first, and does not when two sessions
\* raise remarks on one file.  Decisions that commit in another order than they were
\* taken, a growing deposit and remarks about other files take nothing from a file.
THEOREM OpenRemarksGoStaleByAnother == Spec => [][StaleByAnother]_vars
<1>1. ASSUME TypeOK, AtHand, TypeOK', AtHand', [Next]_vars, NEW r \in Remarks, GoesStale(r)
      PROVE  \/ \E q \in Remarks \ {r} : TakenBy(q, remark[r].old_file)
             \/ ~Kept
             \/ request'.root # request.root /\ ~ByFileChange
  <2> DEFINE f == remark[r].old_file
  <2>1. remark'[r].old_file = f /\ remark'[r].old_amount = remark[r].old_amount
    BY <1>1, OpenRowsStay DEF GoesStale
  <2>2. LiveFiles[f] \in Nat /\ remark[r].old_amount \in Nat /\ f \in Files
    <3>1. f \in Files
      BY <1>1 DEF GoesStale, AtHand, Filled
    <3> QED
      BY <1>1, <3>1, LiveTypes DEF Values, TypeOK, FileRemark
  <2>3. LiveFiles'[f] < remark[r].old_amount /\ ~(LiveFiles[f] < remark[r].old_amount)
    BY <1>1, <2>1 DEF GoesStale, OutOfDate
  <2>4. LiveFiles'[f] \in Nat
    BY <1>1, <2>2, LiveNext
  <2>5. LiveFiles'[f] < LiveFiles[f]
    <3> HIDE DEF f
    <3> QED
      BY <2>2, <2>3, <2>4
  <2>6. \A q \in Remarks : TakenBy(q, f) => q # r
    BY <1>1 DEF GoesStale, TakenBy, Approved
  <2> QED
    BY <1>1, <2>2, <2>5, <2>6, FileLoses
<1>2. TypeOK /\ AtHand /\ TypeOK' /\ AtHand' /\ [Next]_vars => StaleByAnother
  BY <1>1 DEF StaleByAnother
<1> QED
  BY <1>2, RemarksTypeOK, DecisionsHaveTheirTime, PTL DEF Spec

--------------------------------------------------------------------------------
\* What the files are worth together.

\* What a growing deposit adds to the files.
Plus(live, root, d) == [f \in Files |-> IF f = root THEN live[f] + d ELSE live[f]]

\* A split that its file can pay for moves value, and leaves what the file has grown.
LEMMA SplitMoves ==
  ASSUME NEW live \in Values, NEW row \in FileRemark, row.category = "invoice_split",
         row.old_file \in Files, SumOf(row.split_targets) <= row.old_amount,
         live[row.old_file] >= row.old_amount
  PROVE  /\ SumOf(Replay(live, row)) = SumOf(live)
         /\ \A root \in Files, d \in Nat :
              Replay(Plus(live, root, d), row) = Plus(Replay(live, row), root, d)
<1> DEFINE moved == SumOf(row.split_targets)
           old == row.old_file
           to == row.split_targets
           rest == [f \in Files |-> IF f = old THEN live[f] - moved ELSE live[f]]
           now == Replay(live, row)
<1>1. to \in Values /\ moved \in Nat /\ old \in Files /\ row.old_amount \in Nat
      /\ moved = SumOn(to, Files) /\ \A f \in Files : live[f] \in Nat /\ to[f] \in Nat
  <2>1. to \in Values /\ row.old_amount \in Nat
    BY DEF FileRemark, Values
  <2> QED
    BY <2>1, SumOfIsSumOn DEF Values
<1>2. live[old] >= moved /\ live[old] - moved \in Nat
  BY <1>1
<1>3. now \in Values /\ \A f \in Files : now[f] = After(row, f, live[f])
  BY ReplayAt
<1>4. \A f \in Files : now[f] = (IF f = old THEN live[f] - moved ELSE live[f]) + to[f]
  <2>1. ASSUME NEW f \in Files
        PROVE  now[f] = (IF f = old THEN live[f] - moved ELSE live[f]) + to[f]
    <3>1. now[f] = (IF f = old THEN IF live[f] > moved THEN live[f] - moved ELSE 0
                    ELSE live[f]) + to[f]
      BY <1>3 DEF After
    <3> HIDE DEF moved, old, to, now
    <3>2. CASE f = old
      BY <1>1, <1>2, <3>1, <3>2
    <3>3. CASE f # old
      BY <3>1, <3>3
    <3> QED
      BY <3>2, <3>3
  <2> QED
    BY <2>1
<1> HIDE DEF moved, old, to, now
<1>5. rest \in Values /\ rest[old] = live[old] - moved /\ \A f \in Files \ {old} : rest[f] = live[f]
  BY <1>1, <1>2 DEF Values
<1>6. \A f \in Files : now[f] = rest[f] + to[f]
  BY <1>4
<1> HIDE DEF rest
<1>7. IsFiniteSet(Files)
  BY ConstantsOK
<1>8. SumOn(now, Files) = SumOn(rest, Files) + SumOn(to, Files)
  <2>1. \A f \in Files : rest[f] \in Nat
    BY <1>5 DEF Values
  <2> QED
    BY <1>1, <1>6, <1>7, <2>1, SumsAdd
<1>9. SumOn(rest, Files) + live[old] = SumOn(live, Files) + rest[old]
  <2>1. rest[old] \in Nat
    BY <1>2, <1>5
  <2> QED
    BY <1>1, <1>5, <1>7, <2>1, OneChange
<1>10. SumOf(now) = SumOf(live)
  <2>1. /\ SumOf(now) = SumOn(now, Files) /\ SumOf(live) = SumOn(live, Files)
        /\ SumOn(live, Files) \in Nat /\ SumOn(rest, Files) \in Nat
    BY <1>3, <1>5, SumOfIsSumOn
  <2> QED
    BY <1>1, <1>2, <1>5, <1>8, <1>9, <2>1
<1>11. ASSUME NEW root \in Files, NEW d \in Nat
       PROVE  Replay(Plus(live, root, d), row) = Plus(now, root, d)
  <2> DEFINE more == Plus(live, root, d)
             then == Replay(more, row)
  <2>1. /\ more \in Values
        /\ \A f \in Files : more[f] = IF f = root THEN live[f] + d ELSE live[f]
    BY <1>1 DEF Plus, Values
  <2> HIDE DEF more
  <2>2. then \in Values /\ \A f \in Files : then[f] = After(row, f, more[f])
    BY <2>1, ReplayAt
  <2> HIDE DEF then
  <2>3. \A f \in Files : now[f] \in Nat
    BY <1>3 DEF Values
  <2>4. ASSUME NEW f \in Files
        PROVE  then[f] = IF f = root THEN now[f] + d ELSE now[f]
    <3>1. then[f] = (IF f = old THEN IF more[f] > moved THEN more[f] - moved ELSE 0
                     ELSE more[f]) + to[f]
      BY <2>2 DEF After, moved, old, to
    <3>2. more[f] = (IF f = root THEN live[f] + d ELSE live[f]) /\ live[f] \in Nat /\ to[f] \in Nat
      BY <1>1, <2>1
    <3>3. CASE f = old
      <4>1. live[f] >= moved /\ now[f] = live[f] - moved + to[f]
        BY <1>2, <1>4, <3>3
      <4> QED
        BY <1>1, <3>1, <3>2, <3>3, <4>1
    <3>4. CASE f # old
      <4>1. now[f] = live[f] + to[f] /\ then[f] = more[f] + to[f]
        BY <1>4, <3>1, <3>4
      <4> QED
        BY <3>2, <4>1
    <3> QED
      BY <3>3, <3>4
  <2>5. then = [f \in Files |-> IF f = root THEN now[f] + d ELSE now[f]]
    BY <2>2, <2>4 DEF Values
  <2> QED
    BY <2>5 DEF Plus, then, more
<1> QED
  BY <1>10, <1>11 DEF now

\* A File Change keeps the value when its amount is current and its number is new.
LEMMA ChangeKeeps ==
  ASSUME NEW live \in Values, NEW row \in FileRemark, row.category = "invoice_amount_change",
         row.old_file \in Files, row.new_file \in Files,
         row.new_amount = live[row.old_file], live[row.new_file] = 0
  PROVE  SumOf(Replay(live, row)) = SumOf(live)
<1> DEFINE a == row.old_file
           b == row.new_file
           mid == [f \in Files |-> IF f = a THEN 0 ELSE live[f]]
           now == Replay(live, row)
<1>1. a \in Files /\ b \in Files /\ \A f \in Files : live[f] \in Nat
  BY DEF Values
<1>2. now \in Values /\ \A f \in Files : now[f] = IF f = b THEN live[a] ELSE mid[f]
  BY ReplayAt DEF After
<1> HIDE DEF now
<1>3. live[b] = 0
  OBVIOUS
<1> HIDE DEF a, b
<1>4. mid \in Values /\ mid[a] = 0 /\ mid[b] = 0 /\ \A f \in Files \ {a} : mid[f] = live[f]
  BY <1>1, <1>3 DEF Values
<1> HIDE DEF mid
<1>5. IsFiniteSet(Files)
  BY ConstantsOK
<1>6. SumOn(mid, Files) + live[a] = SumOn(live, Files) + mid[a]
  <2>1. mid[a] \in Nat
    BY <1>4
  <2> QED
    BY <1>1, <1>4, <1>5, <2>1, OneChange
<1>7. SumOn(now, Files) + mid[b] = SumOn(mid, Files) + now[b]
  <2>1. /\ mid[b] \in Nat /\ now[b] \in Nat
        /\ \A f \in Files \ {b} : mid[f] \in Nat /\ now[f] = mid[f]
    BY <1>1, <1>2, <1>4 DEF Values
  <2> QED
    BY <1>1, <1>5, <2>1, OneChange
<1>8. /\ SumOf(now) = SumOn(now, Files) /\ SumOf(live) = SumOn(live, Files)
      /\ SumOn(now, Files) \in Nat /\ SumOn(live, Files) \in Nat /\ SumOn(mid, Files) \in Nat
  BY <1>2, <1>4, SumOfIsSumOn
<1>9. now[b] = live[a] /\ live[a] \in Nat
  BY <1>1, <1>2
<1> QED
  BY <1>4, <1>6, <1>7, <1>8, <1>9 DEF now

\* What an approval must find: the file of a split is still worth what the remark says,
\* and so is the file of a File Change, to a number that is worth nothing.
Fits(live, row) ==
  /\ row.category = "invoice_split" => live[row.old_file] >= row.old_amount
  /\ row.category = "invoice_amount_change" =>
       live[row.old_file] = row.new_amount /\ live[row.new_file] = 0

\* A step on what is current: a remark is approved once, after those decided before it,
\* and fits the files as they are; the root number changes by an approved File Change;
\* the deposit grows before one is approved.
NothingStale ==
  /\ \A r \in Approved' \ Approved :
       /\ Fits(LiveFiles, remark[r])
       /\ \A q \in Approved : remark[q].resolved_at < remark'[r].resolved_at
  /\ Kept
  /\ request'.root # request.root => ByFileChange
  /\ request'.deposit # request.deposit =>
       \A r \in Approved : remark[r].category # "invoice_amount_change"

\* Until a File Change is approved, what the deposit grows by goes to the root file.
Grows ==
  (\A r \in Approved : remark[r].category # "invoice_amount_change") =>
    \A d \in Nat :
      LedgerOf(StartAt(request.root, request.deposit + d), remark, Approved)
        = Plus(LiveFiles, request.root, d)

Worth == SumOf(LiveFiles) = request.deposit

\* Nothing that is replayed changes.
LEMMA SameWorth ==
  ASSUME TypeOK, Grows, Worth, SameReplay
  PROVE  Grows' /\ Worth'
<1>1. /\ Start' = Start /\ Start \in Values /\ request.deposit \in Nat
      /\ LiveFiles = LedgerOf(Start, remark, Approved)
      /\ \A n \in Nat : StartAt(request.root, n) \in Values
  BY LiveTypes DEF SameReplay, Start, Nothing
<1>2. LiveFiles' = LiveFiles
  <2>1. LiveFiles' = LedgerOf(Start', remark', Approved')
    BY DEF LiveFiles
  <2> QED
    BY <1>1, <2>1 DEF SameReplay
<1>3. Grows'
  <2> SUFFICES ASSUME \A r \in Approved : remark[r].category # "invoice_amount_change",
                      NEW d \in Nat
               PROVE  LedgerOf(StartAt(request.root, request.deposit + d), remark', Approved)
                        = Plus(LiveFiles, request.root, d)
    BY <1>2 DEF Grows, SameReplay, StartAt, Nothing, Plus
  <2>1. LedgerOf(StartAt(request.root, request.deposit + d), remark, Approved)
          = Plus(LiveFiles, request.root, d)
    BY DEF Grows
  <2>2. request.deposit + d \in Nat
    BY <1>1
  <2> QED
    BY <1>1, <2>1, <2>2 DEF SameReplay
<1>4. Worth'
  BY <1>2 DEF Worth, SameReplay
<1> QED
  BY <1>3, <1>4

\* A remark that is approved after all others is replayed on what they leave.
LEMMA ApprovedLast ==
  ASSUME TypeOK, TypeOK', AtHand, NEW id \in Remarks, OneApproved(id),
         \A q \in Approved : remark[q].resolved_at < remark'[id].resolved_at
  PROVE  /\ \A start \in Values :
              LedgerOf(start, remark', Approved')
                = Replay(LedgerOf(start, remark, Approved), remark'[id])
         /\ LiveFiles' = Replay(LiveFiles, remark'[id])
<1>1. /\ remark \in Rows /\ Approved \in SUBSET Remarks /\ Start \in Values
      /\ LiveFiles = LedgerOf(Start, remark, Approved) /\ InOrder(remark, Approved)
  BY LiveTypes DEF AtHand, OwnTimes
<1>2. /\ id \in Remarks \ Approved /\ Approved' = Approved \cup {id} /\ Start' = Start
      /\ \A r \in Approved : remark'[r] = remark[r]
  BY <1>1 DEF OneApproved, Start, Nothing
<1> DEFINE rows == remark'
<1>3. rows \in Rows /\ \A r \in Approved : rows[r] = remark[r]
  BY <1>2 DEF TypeOK, Rows
<1>4. \A r \in Approved : rows[r].resolved_at < rows[id].resolved_at
  BY <1>3
<1> HIDE DEF rows
<1>5. ASSUME NEW start \in Values
      PROVE  LedgerOf(start, rows, Approved \cup {id})
               = Replay(LedgerOf(start, remark, Approved), rows[id])
  <2>1. LedgerOf(start, rows, Approved) = LedgerOf(start, remark, Approved)
    BY <1>1, <1>3, SameLedger
  <2>2. LedgerOf(start, rows, Approved \cup {id})
          = Replay(LedgerOf(start, rows, Approved), rows[id])
    BY <1>1, <1>2, <1>3, <1>4, DecidedLast
  <2> QED
    BY <2>1, <2>2
<1>6. \A start \in Values :
        LedgerOf(start, remark', Approved') = Replay(LedgerOf(start, remark, Approved), remark'[id])
  BY <1>2, <1>5 DEF rows
<1>7. LiveFiles' = LedgerOf(Start', remark', Approved')
  BY DEF LiveFiles
<1> QED
  BY <1>1, <1>2, <1>6, <1>7

\* An approved remark that fits moves value or keeps it, and leaves what the root file
\* has grown.
LEMMA ApprovalWorth ==
  ASSUME TypeOK, TypeOK', AtHand, Grows, Worth, NEW id \in Remarks, OneApproved(id), NothingStale
  PROVE  Grows' /\ Worth'
<1> DEFINE row == remark'[id]
           live == LiveFiles
<1>1. id \in Approved' \ Approved
  BY DEF OneApproved
<1>2. /\ Fits(live, remark[id])
      /\ \A q \in Approved : remark[q].resolved_at < row.resolved_at
  BY <1>1 DEF NothingStale
<1>3. /\ \A start \in Values :
           LedgerOf(start, remark', Approved') = Replay(LedgerOf(start, remark, Approved), row)
      /\ LiveFiles' = Replay(live, row)
  BY <1>2, ApprovedLast
<1>4. /\ live \in Values /\ request.deposit \in Nat /\ request.root \in Files
      /\ \A n \in Nat : StartAt(request.root, n) \in Values /\ Approved \in SUBSET Remarks
  BY LiveTypes
<1>5. /\ row \in FileRemark /\ remark[id] \in FileRemark
      /\ row.category = remark[id].category /\ row.old_file = remark[id].old_file
      /\ row.old_amount = remark[id].old_amount /\ row.new_file = remark[id].new_file
      /\ row.new_amount = remark[id].new_amount /\ row.split_targets = remark[id].split_targets
  <2>1. row \in FileRemark /\ remark[id] \in FileRemark
    BY DEF TypeOK
  <2>2. row = [remark[id] EXCEPT !.status = "approved", !.resolved_at = row.resolved_at]
    BY DEF OneApproved
  <2> HIDE DEF row
  <2> QED
    BY <2>1, <2>2 DEF FileRemark
<1>6. /\ row.category = "invoice_split" =>
           /\ row.old_file \in Files /\ SumOf(row.split_targets) <= row.old_amount
           /\ live[row.old_file] >= row.old_amount
      /\ row.category = "invoice_amount_change" =>
           /\ row.old_file \in Files /\ row.new_file \in Files
           /\ row.new_amount = live[row.old_file] /\ live[row.new_file] = 0
  <2>1. Filled(remark[id])
    BY DEF AtHand
  <2> HIDE DEF row, live
  <2> QED
    BY <1>2, <1>5, <2>1 DEF Filled, Fits
<1>7. \A r \in Approved : remark'[r] = remark[r]
  BY <1>4 DEF OneApproved
<1>8. request'.root = request.root /\ request'.deposit = request.deposit
      /\ Approved' = Approved \cup {id}
  BY DEF OneApproved
<1> HIDE DEF row, live
<1>9. Worth'
  <2>1. SumOf(Replay(live, row)) = SumOf(live)
    <3>1. CASE row.category = "invoice_split"
      BY <1>4, <1>5, <1>6, <3>1, SplitMoves
    <3>2. CASE row.category = "invoice_amount_change"
      BY <1>4, <1>5, <1>6, <3>2, ChangeKeeps
    <3>3. CASE row.category \notin {"invoice_split", "invoice_amount_change"}
      <4>1. Replay(live, row) = live
        BY <3>3 DEF Replay
      <4> QED
        BY <4>1
    <3> QED
      BY <3>1, <3>2, <3>3
  <2> QED
    BY <1>3, <1>8, <2>1 DEF Worth, live
<1>10. Grows'
  <2> SUFFICES ASSUME \A r \in Approved' : remark'[r].category # "invoice_amount_change",
                      NEW d \in Nat
               PROVE  LedgerOf(StartAt(request'.root, request'.deposit + d), remark', Approved')
                        = Plus(LiveFiles', request'.root, d)
    BY DEF Grows, StartAt, Plus, Nothing
  <2> DEFINE start == StartAt(request.root, request.deposit + d)
  <2>1. start \in Values
    BY <1>4
  <2>2. \A r \in Approved : remark[r].category # "invoice_amount_change"
    BY <1>7, <1>8
  <2>3. LedgerOf(start, remark, Approved) = Plus(live, request.root, d)
    BY <2>2 DEF Grows, live
  <2>4. LedgerOf(start, remark', Approved') = Replay(Plus(live, request.root, d), row)
    BY <1>3, <2>1, <2>3
  <2>5. row.category # "invoice_amount_change"
    BY <1>8 DEF row
  <2>6. Replay(Plus(live, request.root, d), row) = Plus(Replay(live, row), request.root, d)
    <3>1. CASE row.category = "invoice_split"
      BY <1>4, <1>5, <1>6, <3>1, SplitMoves
    <3>2. CASE row.category # "invoice_split"
      BY <2>5, <3>2 DEF Replay
    <3> QED
      BY <3>1, <3>2
  <2> QED
    BY <1>3, <1>8, <2>4, <2>6
<1> QED
  BY <1>9, <1>10

\* Accounts action an approved File Change.
LEMMA RootWorth ==
  ASSUME TypeOK, TypeOK', Worth, RootMoved, NothingStale
  PROVE  Grows' /\ Worth'
<1>1. ByFileChange
  BY DEF NothingStale, RootMoved
<1>2. LiveFiles' = LiveFiles /\ Approved' = Approved
  BY <1>1, RootFollows
<1>3. \E c \in Approved : remark[c].category = "invoice_amount_change"
  BY <1>1 DEF ByFileChange
<1>4. Grows'
  BY <1>2, <1>3 DEF Grows, RootMoved
<1>5. Worth'
  BY <1>2 DEF Worth, RootMoved
<1> QED
  BY <1>4, <1>5

\* A tranche is added before a File Change is approved: the root file grows.
LEMMA GrowthWorth ==
  ASSUME TypeOK, Grows, Worth, Grown, NothingStale
  PROVE  Grows' /\ Worth'
<1> DEFINE root == request.root
           live == LiveFiles
           more == Plus(live, root, 1)
<1>1. live \in Values /\ root \in Files /\ request.deposit \in Nat
  BY LiveTypes
<1>2. /\ remark' = remark /\ Approved' = Approved
      /\ request'.root = root /\ request'.deposit = request.deposit + 1
  BY DEF Grown, Approved
<1>3. \A d \in Nat : LedgerOf(StartAt(root, request.deposit + d), remark, Approved)
                       = Plus(live, root, d)
  <2>1. \A r \in Approved : remark[r].category # "invoice_amount_change"
    BY <1>1, <1>2 DEF NothingStale
  <2> QED
    BY <2>1 DEF Grows
<1>4. LiveFiles' = more
  <2>1. Start' = StartAt(root, request.deposit + 1)
    BY <1>2 DEF Start, StartAt, Nothing
  <2>2. LiveFiles' = LedgerOf(Start', remark', Approved')
    BY DEF LiveFiles
  <2> QED
    BY <1>2, <1>3, <2>1, <2>2
<1>5. /\ more \in Values /\ more[root] = live[root] + 1
      /\ \A f \in Files \ {root} : more[f] = live[f]
      /\ \A f \in Files : live[f] \in Nat /\ more[f] \in Nat
  <2>1. \A f \in Files : live[f] \in Nat
    BY <1>1 DEF Values
  <2> HIDE DEF live
  <2> QED
    BY <1>1, <2>1 DEF Plus, Values
<1>6. Grows'
  <2> SUFFICES ASSUME NEW d \in Nat
               PROVE  LedgerOf(StartAt(root, request.deposit + 1 + d), remark, Approved)
                        = Plus(more, root, d)
    BY <1>2, <1>4 DEF Grows, StartAt, Nothing, Plus
  <2>1. 1 + d \in Nat /\ request.deposit + (1 + d) = request.deposit + 1 + d
    BY <1>1
  <2>2. LedgerOf(StartAt(root, request.deposit + 1 + d), remark, Approved)
          = Plus(live, root, 1 + d)
    BY <1>3, <2>1
  <2>3. Plus(live, root, 1 + d) = Plus(more, root, d)
    <3> HIDE DEF live
    <3> QED
      BY <1>1, <1>5 DEF Plus
  <2> QED
    BY <2>2, <2>3
<1> HIDE DEF more
<1>7. Worth'
  <2>1. SumOn(more, Files) + live[root] = SumOn(live, Files) + more[root]
    <3> HIDE DEF live, root
    <3>1. IsFiniteSet(Files)
      BY ConstantsOK
    <3> QED
      BY <1>1, <1>5, <3>1, OneChange
  <2>2. /\ SumOf(more) = SumOn(more, Files) /\ SumOf(live) = SumOn(live, Files)
        /\ SumOn(more, Files) \in Nat /\ SumOn(live, Files) \in Nat
    <3> HIDE DEF live
    <3> QED
      BY <1>1, <1>5, SumOfIsSumOn
  <2>3. SumOf(live) = request.deposit
    BY DEF Worth
  <2>4. live[root] \in Nat
    BY <1>1, <1>5
  <2> HIDE DEF live, root
  <2>5. SumOf(more) = request.deposit + 1
    BY <1>1, <1>5, <2>1, <2>2, <2>3, <2>4
  <2> QED
    BY <1>2, <1>4, <2>5 DEF Worth
<1> QED
  BY <1>6, <1>7

\* The request starts with one file, worth its deposit.
LEMMA WorthStarts ==
  ASSUME Init, TypeOK
  PROVE  Grows /\ Worth
<1>1. \A r \in Remarks : remark[r].status = "none"
  BY DEF Init, NoRow
<1>2. Approved = {}
  BY <1>1 DEF Approved
<1>3. /\ remark \in Rows /\ Start \in Values /\ Start = StartAt(request.root, request.deposit)
      /\ \A n \in Nat : StartAt(request.root, n) \in Values
      /\ request.root \in Files /\ request.deposit \in Nat
      /\ LiveFiles = LedgerOf(Start, remark, Approved)
  BY LiveTypes
<1>4. \A start \in Values : LedgerOf(start, remark, Approved) = start
  <2>1. {} \in SUBSET Remarks
    OBVIOUS
  <2> QED
    BY <1>2, <1>3, <2>1, LedgerStep
<1>5. LiveFiles = Start
  BY <1>3, <1>4
<1>6. Grows
  <2> SUFFICES ASSUME NEW d \in Nat
               PROVE  LedgerOf(StartAt(request.root, request.deposit + d), remark, Approved)
                        = Plus(LiveFiles, request.root, d)
    BY DEF Grows
  <2>1. request.deposit + d \in Nat
    BY <1>3
  <2>2. LedgerOf(StartAt(request.root, request.deposit + d), remark, Approved)
          = StartAt(request.root, request.deposit + d)
    BY <1>3, <1>4, <2>1
  <2>3. StartAt(request.root, request.deposit + d) = Plus(Start, request.root, d)
    BY <1>3 DEF StartAt, Plus, Nothing
  <2> QED
    BY <1>5, <2>2, <2>3
<1>7. Worth
  <2> DEFINE start == Start
  <2>1. /\ start[request.root] = request.deposit
        /\ \A f \in Files \ {request.root} : start[f] = 0
    BY <1>3 DEF StartAt, Nothing
  <2>2. start \in Values
    BY <1>3
  <2> HIDE DEF start
  <2>3. Nothing \in Values /\ \A f \in Files : Nothing[f] = 0
    BY DEF Nothing, Values
  <2>4. IsFiniteSet(Files)
    BY ConstantsOK
  <2>5. SumOn(start, Files) + Nothing[request.root] = SumOn(Nothing, Files) + start[request.root]
    BY <1>3, <2>1, <2>3, <2>4, OneChange
  <2>6. SumOn(Nothing, Files) = 0
    BY <2>3, <2>4, NoSum
  <2>7. SumOf(start) = SumOn(start, Files) /\ SumOn(start, Files) \in Nat
    BY <2>2, SumOfIsSumOn
  <2>8. SumOf(start) = request.deposit
    BY <1>3, <2>1, <2>3, <2>5, <2>6, <2>7
  <2> QED
    BY <1>5, <2>8 DEF Worth, start
<1> QED
  BY <1>6, <1>7

\* Every step on what is current keeps the worth.
LEMMA WorthNext ==
  ASSUME TypeOK, TypeOK', AtHand, Grows, Worth, [Next]_vars, [NothingStale]_vars
  PROVE  Grows' /\ Worth'
<1>1. CASE UNCHANGED vars
  BY <1>1, Untouched, SameWorth DEF vars
<1>2. CASE NothingStale
  <2>1. Kept
    BY <1>2 DEF NothingStale
  <2> QED
    BY <1>2, <2>1, LedgerSteps, SameWorth, ApprovalWorth, RootWorth, GrowthWorth
<1> QED
  BY <1>1, <1>2

\* Splits and File Changes, in chains of any depth on any number of files, neither lose
\* nor make money (live_files_for_request of file_remark_service.py), with any number of
\* sessions and whatever clients type, as long as each remark is still current when its
\* approval commits: the live files of a paid request are worth its deposit.  The service
\* checks none of NothingStale when it commits: to check it under a lock would do.
THEOREM LedgerIsWorthDeposit == Spec /\ [][NothingStale]_vars => []LedgerKeepsValue
<1>1. Init /\ TypeOK => Grows /\ Worth
  BY WorthStarts
<1>2. TypeOK /\ TypeOK' /\ AtHand /\ Grows /\ Worth /\ [Next]_vars /\ [NothingStale]_vars
        => Grows' /\ Worth'
  BY WorthNext
<1>3. Worth => LedgerKeepsValue
  BY DEF Worth, LedgerKeepsValue
<1> QED
  BY <1>1, <1>2, <1>3, RemarksTypeOK, DecisionsHaveTheirTime, PTL DEF Spec

--------------------------------------------------------------------------------
(* Invoice adjustments.                                                    *)

Holding == {"check", "write", "commit"}
Cleared == {"write", "commit"}

\* A call at work carries a complete adjustment.
Carried ==
  \A s \in Transactions :
    \/ call[s] = IdleCall
    \/ /\ call[s].pc # "idle" /\ call[s].a \in Adjs
       /\ call[s].row.src \in Tranches /\ call[s].row.dst \in Tranches
       /\ call[s].row.amount \in Amounts
       /\ \/ call[s].op = "create" /\ call[s].row.status \in {"pending_approval", "completed"}
          \/ call[s].op = "approve" /\ call[s].row.status = "completed"
          \/ call[s].op = "reject" /\ call[s].row.status = "rejected"

\* Committed rows are complete too.
Complete ==
  \A a \in Adjs : adj[a].status # "none" =>
    adj[a].src \in Tranches /\ adj[a].dst \in Tranches /\ adj[a].amount \in Amounts

\* A create has its id to itself; a decision carries the row it decides.
Ids ==
  /\ \A s \in Transactions : call[s].op = "create" => adj[call[s].a].status = "none"
  /\ \A s, u \in Transactions :
       s # u /\ call[s].op = "create" /\ call[u].op = "create" => call[s].a # call[u].a
  /\ \A s \in Transactions : call[s].op \in {"approve", "reject"} =>
       /\ adj[call[s].a].status # "none"
       /\ adj[call[s].a].src = call[s].row.src /\ adj[call[s].a].dst = call[s].row.dst
       /\ adj[call[s].a].amount = call[s].row.amount

\* Past the lock, the source is owned and exists; past the insert, so does the
\* destination.
Locks ==
  \A s \in Transactions :
    /\ call[s].pc \in Holding =>
         owner[call[s].row.src] = s /\ tranche[call[s].row.src] # "none"
    /\ call[s].pc = "commit" /\ call[s].op = "create" => tranche[call[s].row.dst] # "none"

\* What has been reallocated from each tranche.
Outs == [t \in Tranches |-> AdjustedOut(t)]

\* Past the checks, what is about to complete is still backed.
Promised ==
  \A s \in Transactions : call[s].pc \in Cleared /\ call[s].row.status = "completed" =>
    /\ tranche[call[s].row.src] = "paid"
    /\ RequestOf[call[s].row.src] # RequestOf[call[s].row.dst]
    /\ Outs[call[s].row.src] + call[s].row.amount <= AmountOf[call[s].row.src]

Core == AdjTypeOK /\ Carried /\ Complete /\ Ids /\ Locks
AdjustInv ==
  /\ Core /\ Promised
  /\ NotOverdrawn /\ CompletedIsBacked /\ NamesExistingTranches

--------------------------------------------------------------------------------
(* Their sums.                                                             *)

\* Amounts are in whole cents.
LEMMA AmountsAreNat == \A x \in Amounts : x \in Nat /\ x > 0
BY AdjConstantsOK

\* Amounts and zero are natural numbers.
LEMMA CentsAreNat == Cents \subseteq Nat
BY AmountsAreNat DEF Cents

\* What SUM does: nothing adds up to 0, each row counts once, other rows do not
\* matter.
LEMMA SumIsAdditive ==
  /\ \A f \in [Adjs -> Cents], S \in SUBSET Adjs : SumOver(f, S) \in Nat
  /\ \A f \in [Adjs -> Cents] : SumOver(f, {}) = 0
  /\ \A f \in [Adjs -> Cents], S \in SUBSET Adjs : \A a \in Adjs \ S :
       SumOver(f, S \cup {a}) = SumOver(f, S) + f[a]
  /\ \A f, g \in [Adjs -> Cents], S \in SUBSET Adjs :
       (\A a \in S : f[a] = g[a]) => SumOver(f, S) = SumOver(g, S)
<1>1. IsFiniteSet(Adjs) /\ \A f \in [Adjs -> Cents] : \A a \in Adjs : f[a] \in Nat
  BY AdjConstantsOK, CentsAreNat
<1>2. ASSUME NEW f \in [Adjs -> Cents], NEW S \in SUBSET Adjs
      PROVE  SumOn(f, S) \in Nat /\ SumOn(f, {}) = 0
  BY <1>1, AnyOrder
<1>3. ASSUME NEW f \in [Adjs -> Cents], NEW S \in SUBSET Adjs, NEW a \in Adjs \ S
      PROVE  SumOn(f, S \cup {a}) = SumOn(f, S) + f[a]
  <2> DEFINE more == S \cup {a}
  <2>1. more \in SUBSET Adjs /\ a \in more /\ more \ {a} = S
    OBVIOUS
  <2> HIDE DEF more
  <2>2. SumOn(f, more) = f[a] + SumOn(f, more \ {a})
    BY <1>1, <2>1, AnyOrder
  <2>3. f[a] \in Nat /\ SumOn(f, S) \in Nat
    BY <1>1, <1>2
  <2>4. SumOn(f, more) = SumOn(f, S) + f[a]
    BY <2>1, <2>2, <2>3
  <2> QED
    BY <2>4 DEF more
<1>4. ASSUME NEW f \in [Adjs -> Cents], NEW g \in [Adjs -> Cents],
             NEW S \in SUBSET Adjs, \A a \in S : f[a] = g[a]
      PROVE  SumOn(f, S) = SumOn(g, S)
  <2>1. IsFiniteSet(S)
    BY <1>1, FS_Subset
  <2>2. \A a \in S : f[a] \in Nat /\ g[a] = f[a]
    BY <1>1, <1>4
  <2> QED
    BY <2>1, <2>2, SumsAgree
<1>5. {} \in SUBSET Adjs
  OBVIOUS
<1>6. \A f, S : SumOver(f, S) = SumOn(f, S)
  BY DEF SumOver, SumOn
<1> QED
  BY <1>2, <1>3, <1>4, <1>5, <1>6

\* SUM over the committed rows is a natural number.
LEMMA OutIsNat ==
  ASSUME AdjTypeOK, NEW t \in Tranches
  PROVE  Amount \in [Adjs -> Cents] /\ AdjustedOut(t) \in Nat
<1>1. Amount \in [Adjs -> Cents]
  BY DEF Amount, AdjTypeOK, Adjustment
<1>2. Completed(t) \in SUBSET Adjs
  BY DEF Completed
<1> QED
  BY <1>1, <1>2, SumIsAdditive DEF AdjustedOut

\* SUM over the rows of the next state is a natural number too.
LEMMA NextOutIsNat ==
  ASSUME AdjTypeOK', NEW t \in Tranches
  PROVE  AdjustedOut(t)' \in Nat
<1>1. Amount' \in [Adjs -> Cents]
  BY DEF Amount, AdjTypeOK, Adjustment
<1>2. Completed(t)' \in SUBSET Adjs
  BY DEF Completed
<1> QED
  BY <1>1, <1>2, SumIsAdditive DEF AdjustedOut

\* A commit changes the sum of its source by its own adjustment, or nothing.
LEMMA CommitOut ==
  ASSUME Core, AdjTypeOK', NEW s \in Transactions, CommitCall(s),
         NEW t \in Tranches
  PROVE  LET row == call[s].row IN
         \/ AdjustedOut(t)' = AdjustedOut(t)
         \/ /\ t = row.src /\ row.status = "completed"
            /\ AdjustedOut(t)' = AdjustedOut(t) + row.amount
         \/ /\ t = row.src /\ row.status = "rejected"
            /\ AdjustedOut(t) = AdjustedOut(t)' + row.amount
<1> DEFINE a == call[s].a
           row == call[s].row
           rest == Completed(t) \ {a}
<1>1. a \in Adjs /\ adj' = [adj EXCEPT ![a] = row] /\ row \in Adjustment
      /\ call[s].op \in {"create", "approve", "reject"}
  BY DEF Core, AdjTypeOK, Carried, CommitCall, IdleCall
<1>2. Amount \in [Adjs -> Cents] /\ Amount' \in [Adjs -> Cents]
  BY DEF Amount, AdjTypeOK, Core, Adjustment
<1>3. rest \in SUBSET Adjs /\ a \notin rest /\ \A b \in rest : Amount'[b] = Amount[b]
  BY <1>1 DEF Completed, Amount, Core, AdjTypeOK
<1>4. SumOver(Amount', rest) = SumOver(Amount, rest) /\ SumOver(Amount, rest) \in Nat
  BY <1>2, <1>3, SumIsAdditive
<1>5. /\ SumOver(Amount, rest \cup {a}) = SumOver(Amount, rest) + adj[a].amount
      /\ SumOver(Amount', rest \cup {a}) = SumOver(Amount, rest) + row.amount
  <2>1. Amount[a] = adj[a].amount /\ Amount'[a] = row.amount
    BY <1>1 DEF Amount, Core, AdjTypeOK
  <2>2. a \in Adjs \ rest /\ rest \in SUBSET Adjs
    BY <1>1, <1>3
  <2>3. /\ SumOver(Amount, rest \cup {a}) = SumOver(Amount, rest) + Amount[a]
        /\ SumOver(Amount', rest \cup {a}) = SumOver(Amount', rest) + Amount'[a]
    BY <1>2, <2>2, SumIsAdditive
  <2> QED BY <1>4, <2>1, <2>3
<1>6. Completed(t) =
        IF adj[a].status = "completed" /\ adj[a].src = t THEN rest \cup {a} ELSE rest
  BY <1>1 DEF Completed
<1>7. Completed(t)' = IF row.status = "completed" /\ row.src = t THEN rest \cup {a} ELSE rest
  BY <1>1 DEF Completed, Core, AdjTypeOK
<1>8. adj[a].status = "completed" =>
        /\ row.src = adj[a].src /\ row.amount = adj[a].amount
        /\ row.status \in {"completed", "rejected"}
  BY <1>1 DEF Core, Ids, Carried, IdleCall
<1>9. AdjustedOut(t)' = SumOver(Amount', Completed(t)')
  BY DEF AdjustedOut
<1>10. row.amount \in Nat /\ adj[a].amount \in Nat
  <2>1. adj[a] \in Adjustment
    BY <1>1 DEF Core, AdjTypeOK
  <2>2. row.amount \in Cents /\ adj[a].amount \in Cents
    BY <1>1, <2>1 DEF Adjustment
  <2> QED BY <2>2, CentsAreNat
<1>11. CASE adj[a].status = "completed" /\ adj[a].src = t
  <2>1. AdjustedOut(t) = SumOver(Amount, rest) + row.amount /\ row.src = t
    BY <1>11, <1>5, <1>6, <1>8 DEF AdjustedOut
  <2>2. CASE row.status = "completed"
    BY <2>1, <2>2, <1>5, <1>7, <1>9
  <2>3. CASE row.status = "rejected"
    BY <2>1, <2>3, <1>4, <1>7, <1>9
  <2> QED BY <1>8, <1>11, <2>2, <2>3
<1>12. CASE ~(adj[a].status = "completed" /\ adj[a].src = t)
  <2>1. AdjustedOut(t) = SumOver(Amount, rest)
    BY <1>12, <1>6 DEF AdjustedOut
  <2> QED BY <2>1, <1>4, <1>5, <1>7, <1>9
<1> QED BY <1>11, <1>12

--------------------------------------------------------------------------------
(* Their inductive invariant.                                              *)

\* At the start no money is promised.
THEOREM AdjustmentsStart == AdjInit => AdjustInv
<1> SUFFICES ASSUME AdjInit PROVE AdjustInv
  OBVIOUS
<1>1. Core
  BY AdjConstantsOK DEF Core, AdjTypeOK, Carried, Complete, Ids, Locks, AdjInit,
     IdleCall, NoAdjustment, Adjustment, Cents,
     TrancheStatus, Holding
<1>2. \A t \in Tranches : AdjustedOut(t) = 0
  <2> TAKE t \in Tranches
  <2>1. Completed(t) = {}
    BY DEF Completed, AdjInit, NoAdjustment
  <2> QED BY <1>1, <2>1, OutIsNat, SumIsAdditive DEF AdjustedOut, Core
<1> QED
  BY AdjConstantsOK, <1>1, <1>2 DEF AdjustInv, Promised, NotOverdrawn,
     CompletedIsBacked, NamesExistingTranches, AdjInit, IdleCall,
     NoAdjustment

\* What adj alone determines is kept while adj is.
LEMMA AdjKept ==
  ASSUME UNCHANGED adj
  PROVE  \A t \in Tranches : AdjustedOut(t)' = AdjustedOut(t)
BY DEF AdjustedOut, Amount, Completed

\* Creating an adjustment locks nothing and completes nothing.
LEMMA CreateCore ==
  ASSUME Core, NEW s \in Transactions, NEW a \in Adjs, NEW src \in Tranches, NEW dst \in Tranches,
         NEW amount \in Amounts, NEW role \in RequesterRoles,
         CreateAdjustment(s, a, src, dst, amount, role)
  PROVE  Core'
<1> DEFINE row == [status |-> CreatedStatus(role), src |-> src, dst |-> dst,
                   amount |-> amount]
<1>1. row \in Adjustment /\ row.status \in {"pending_approval", "completed"}
  BY DEF Adjustment, AdjustmentStatus, CreatedStatus, Cents
<1>2. AdjTypeOK'
  BY <1>1 DEF Core, AdjTypeOK, CreateAdjustment
<1>3. Carried'
  BY <1>1 DEF Core, AdjTypeOK, Carried, CreateAdjustment, IdleCall
<1>4. Ids'
  <2>1. \A u \in Transactions : u # s => call'[u] = call[u]
    BY DEF Core, AdjTypeOK, CreateAdjustment
  <2>2. \A u \in Transactions \ {s} : call[u].op = "create" => call[u].a # a
    BY DEF Core, Carried, IdleCall, CreateAdjustment, InFlight
  <2>3. call'[s].a = a /\ call'[s].op = "create" /\ adj' = adj /\ adj[a].status = "none"
    BY DEF Core, AdjTypeOK, CreateAdjustment
  <2> QED BY <2>1, <2>2, <2>3 DEF Core, Ids
<1>5. Complete' /\ Locks'
  BY DEF Core, AdjTypeOK, Complete, Locks, CreateAdjustment, Holding
<1> QED BY <1>2, <1>3, <1>4, <1>5 DEF Core

\* A decision takes up a session that has yet to lock.
LEMMA DecideCore ==
  ASSUME Core, NEW s \in Transactions, NEW a \in Adjs, NEW decision \in {"approve", "reject"},
         NEW role \in DeciderRoles, DecideAdjustment(s, a, decision, role)
  PROVE  Core'
<1> DEFINE row == [adj[a] EXCEPT !.status =
                     IF decision = "approve" THEN "completed" ELSE "rejected"]
<1>1. adj[a] \in Adjustment /\ adj[a].src \in Tranches /\ adj[a].dst \in Tranches
      /\ adj[a].amount \in Amounts
  BY DEF Core, AdjTypeOK, Complete, DecideAdjustment
<1>2. /\ row \in Adjustment /\ row.src = adj[a].src /\ row.dst = adj[a].dst
      /\ row.amount = adj[a].amount
      /\ row.status = IF decision = "approve" THEN "completed" ELSE "rejected"
  BY <1>1 DEF Adjustment, AdjustmentStatus
<1>3. call' = [call EXCEPT ![s] = [pc |-> "lock", op |-> decision, a |-> a, row |-> row]]
      /\ adj' = adj /\ tranche' = tranche /\ requests' = requests /\ owner' = owner
  BY DEF DecideAdjustment
<1> HIDE DEF row
<1>4. AdjTypeOK'
  BY <1>2, <1>3 DEF Core, AdjTypeOK
<1>5. Carried'
  BY <1>1, <1>2, <1>3 DEF Core, AdjTypeOK, Carried, IdleCall
<1>6. Ids'
  BY <1>2, <1>3 DEF Core, AdjTypeOK, Ids, DecideAdjustment
<1>7. Complete' /\ Locks'
  BY <1>3 DEF Core, AdjTypeOK, Complete, Locks, Holding
<1> QED BY <1>4, <1>5, <1>6, <1>7 DEF Core

\* The statements that only take locks or pass checks.
LEMMA StatementCore ==
  ASSUME Core, NEW s \in Transactions,
         LockSource(s) \/ Check(s) \/ Write(s)
  PROVE  Core'
<1>1. call[s].row.src \in Tranches /\ call[s].row.dst \in Tranches /\ call[s] # IdleCall
  BY DEF Core, Carried, LockSource, Check, Write, IdleCall
<1>2. AdjTypeOK'
  BY <1>1 DEF Core, AdjTypeOK, LockSource, Check, Write
<1>3. PICK pc \in {"check", "write", "commit"} : call' = [call EXCEPT ![s].pc = pc]
  BY DEF LockSource, Check, Write
<1>4. adj' = adj /\ tranche' = tranche
  BY DEF LockSource, Check, Write
<1>5. Carried' /\ Complete' /\ Ids'
  BY <1>1, <1>3, <1>4 DEF Core, AdjTypeOK, Carried, Complete, Ids, IdleCall
<1>6. Locks'
  <2>1. CASE LockSource(s)
    <3>1. \A u \in Transactions \ {s} : call'[u] = call[u]
      BY <2>1 DEF Core, AdjTypeOK, LockSource
    <3>2. owner[call[s].row.src] = NoTransaction
      BY <2>1 DEF LockSource, Free
    <3>3. \A u \in Transactions \ {s} : call[u].pc \in Holding =>
            owner'[call[u].row.src] = u /\ tranche'[call[u].row.src] # "none"
      BY AdjConstantsOK, <2>1, <3>2 DEF Core, AdjTypeOK, Locks, LockSource
    <3>4. /\ call'[s].row = call[s].row /\ call'[s].pc = "check"
          /\ owner'[call[s].row.src] = s /\ tranche'[call[s].row.src] # "none"
      BY <1>1, <2>1 DEF Core, AdjTypeOK, LockSource
    <3> QED BY <1>4, <3>1, <3>3, <3>4 DEF Core, Locks
  <2>2. CASE Check(s)
    BY <1>1, <2>2 DEF Core, AdjTypeOK, Locks, Check, Holding
  <2>3. CASE Write(s)
    BY <1>1, <2>3 DEF Core, AdjTypeOK, Locks, Write, Holding
  <2> QED BY <2>1, <2>2, <2>3
<1> QED BY <1>2, <1>5, <1>6 DEF Core

\* A commit writes the row its session holds and releases it.
LEMMA CommitCore ==
  ASSUME Core, NEW s \in Transactions, CommitCall(s)
  PROVE  Core'
<1>1. /\ call[s].a \in Adjs /\ call[s] # IdleCall /\ call[s].row \in Adjustment
      /\ call[s].row.src \in Tranches /\ call[s].row.dst \in Tranches
      /\ call[s].row.amount \in Amounts /\ call[s].row.status # "none"
  BY DEF Core, AdjTypeOK, Carried, CommitCall, IdleCall
<1>2. IdleCall \in [pc : {"idle", "lock", "check", "write", "commit"},
                       op : {"none", "create", "approve", "reject"},
                       a : Adjs \cup {NoAdj}, row : Adjustment]
  BY DEF IdleCall, NoAdjustment, Adjustment, Cents
<1>3. AdjTypeOK'
  BY <1>1, <1>2 DEF Core, AdjTypeOK, CommitCall, Released
<1>4. Carried' /\ Complete'
  BY <1>1 DEF Core, AdjTypeOK, Carried, Complete, CommitCall
<1>5. Ids'
  <2>1. \A u \in Transactions : u # s => call'[u] = call[u]
    BY DEF Core, AdjTypeOK, CommitCall
  <2>2. call'[s].op = "none"
    BY DEF Core, AdjTypeOK, CommitCall, IdleCall
  <2>3. \A u \in Transactions \ {s} : call[u].op = "create" => call[u].a # call[s].a
    <3>1. CASE call[s].op = "create"
      BY <3>1 DEF Core, Ids
    <3>2. CASE call[s].op # "create"
      BY <3>2, <1>1 DEF Core, Ids, Carried, IdleCall
    <3> QED BY <3>1, <3>2
  <2>4. \A u \in Transactions \ {s} : call[u].op = "create" => adj'[call[u].a].status = "none"
    BY <2>3 DEF Core, AdjTypeOK, Ids, CommitCall, Carried, IdleCall
  <2>5. \A u \in Transactions \ {s} : call[u].op \in {"approve", "reject"} /\ call[u].a = call[s].a =>
          call[s].op \in {"approve", "reject"}
    BY <1>1 DEF Core, Carried, IdleCall, Ids
  <2>6. \A u \in Transactions \ {s} : call[u].op \in {"approve", "reject"} =>
          /\ adj'[call[u].a].status # "none"
          /\ adj'[call[u].a].src = call[u].row.src /\ adj'[call[u].a].dst = call[u].row.dst
          /\ adj'[call[u].a].amount = call[u].row.amount
    <3> TAKE u \in Transactions \ {s}
    <3> HAVE call[u].op \in {"approve", "reject"}
    <3>1. CASE call[u].a = call[s].a
      BY <3>1, <2>5, <1>1 DEF Core, AdjTypeOK, Ids, CommitCall
    <3>2. CASE call[u].a # call[s].a
      BY <3>2, <1>1 DEF Core, AdjTypeOK, Ids, CommitCall
    <3> QED BY <3>1, <3>2
  <2> QED BY <2>1, <2>2, <2>3, <2>4, <2>6 DEF Core, Ids
<1>6. Locks'
  BY <1>1 DEF Core, AdjTypeOK, Locks, CommitCall, Released, IdleCall,
     Holding, Carried
<1> QED BY <1>3, <1>4, <1>5, <1>6 DEF Core

\* A session that ends without writing releases what it held.
LEMMA EndCore ==
  ASSUME Core, NEW s \in Transactions, End(s)
  PROVE  Core'
<1>1. IdleCall \in [pc : {"idle", "lock", "check", "write", "commit"},
                       op : {"none", "create", "approve", "reject"},
                       a : Adjs \cup {NoAdj}, row : Adjustment]
  BY DEF IdleCall, NoAdjustment, Adjustment, Cents
<1>2. AdjTypeOK'
  BY <1>1 DEF Core, AdjTypeOK, End, Released
<1>3. Carried' /\ Complete' /\ Ids'
  BY DEF Core, AdjTypeOK, Carried, Complete, Ids, End, IdleCall
<1>4. Locks'
  BY DEF Core, AdjTypeOK, Locks, End, Released, IdleCall, Holding,
     Carried
<1> QED BY <1>2, <1>3, <1>4 DEF Core

\* The other handlers touch neither adjustments nor their sessions.
LEMMA ElsewhereCore ==
  ASSUME Core, Elsewhere
  PROVE  Core'
<1>1. UNCHANGED <<adj, call, owner>>
  BY DEF Elsewhere, Pay, Drop, Delete, Ship,
     SoftDelete
<1>2. AdjTypeOK'
  BY <1>1 DEF Core, AdjTypeOK, Elsewhere, Pay, Drop, Delete,
     Ship, SoftDelete, TrancheStatus
<1>3. Carried' /\ Complete' /\ Ids'
  BY <1>1 DEF Core, Carried, Complete, Ids
<1>4. Locks'
  <2>1. ASSUME NEW t \in Tranches, tranche[t] # "none", tranche'[t] = "none"
        PROVE  Free(t)
    BY <2>1 DEF Core, AdjTypeOK, Elsewhere, Pay, Drop, Delete,
       Ship, SoftDelete
  <2>2. \A s \in Transactions : call[s].pc \in Holding =>
          call[s].row.src \in Tranches /\ call[s].row.dst \in Tranches
    BY DEF Core, Carried, IdleCall, Holding
  <2>3. ASSUME NEW s \in Transactions, call[s].pc \in Holding
        PROVE  owner[call[s].row.src] = s /\ tranche'[call[s].row.src] # "none"
    BY AdjConstantsOK, <2>1, <2>2, <2>3 DEF Core, Locks, Free
  <2>4. ASSUME NEW s \in Transactions, call[s].pc = "commit", call[s].op = "create"
        PROVE  tranche'[call[s].row.dst] # "none"
    BY <2>1, <2>2, <2>4 DEF Core, Locks, Free, KeySharers, Holding
  <2> QED BY <1>1, <2>3, <2>4 DEF Locks
<1> QED BY <1>2, <1>3, <1>4 DEF Core

\* The money part of the invariant, per kind of step.  A step that leaves adj
\* alone keeps every sum, and no step un-pays a tranche.
LEMMA PaidStays ==
  ASSUME Core, [AdjNext]_adjVars, NEW t \in Tranches, tranche[t] = "paid"
  PROVE  tranche'[t] = "paid"
<1>1. DOMAIN tranche = Tranches
  BY DEF Core, AdjTypeOK
<1>2. \/ UNCHANGED tranche
      \/ \E u \in Tranches : Pay(u) \/ Drop(u) \/ Delete(u)
  <2>1. ASSUME NEW s \in Transactions, Call(s) \/ CallFails(s) PROVE UNCHANGED tranche
    BY <2>1 DEF Call, CreateAdjustment, DecideAdjustment, CallFails, End
  <2>2. ASSUME NEW s \in Transactions, Statement(s) PROVE UNCHANGED tranche
    BY <2>2 DEF Statement, LockSource, Check, Write, CommitCall,
       Refuse, End
  <2> QED BY <2>1, <2>2 DEF AdjNext, adjVars, Elsewhere, Ship,
      SoftDelete
<1> QED BY <1>1, <1>2 DEF Pay, Drop, Delete

\* A step that commits no adjustment, and clears no session without checking it, keeps every
\* promise of money backed.
LEMMA QuietMoney ==
  ASSUME AdjustInv, Core', [AdjNext]_adjVars, UNCHANGED adj,
         \A s \in Transactions : call'[s].pc \in Cleared =>
           \/ call[s].pc \in Cleared /\ call'[s].row = call[s].row
           \/ Check(s) /\ call'[s].row = call[s].row
           \/ call'[s].row.status # "completed"
  PROVE  Promised' /\ NotOverdrawn' /\ CompletedIsBacked'
<1>1. \A t \in Tranches : AdjustedOut(t)' = AdjustedOut(t) /\ Outs'[t] = Outs[t]
  BY AdjKept DEF Outs
<1>2. NotOverdrawn'
  BY <1>1 DEF AdjustInv, NotOverdrawn
<1>3. CompletedIsBacked'
  BY PaidStays DEF AdjustInv, Core, Complete, CompletedIsBacked
<1>4. ASSUME NEW s \in Transactions, call'[s].pc \in Cleared, call'[s].row.status = "completed"
      PROVE  /\ tranche'[call'[s].row.src] = "paid"
             /\ RequestOf[call'[s].row.src] # RequestOf[call'[s].row.dst]
             /\ Outs'[call'[s].row.src] + call'[s].row.amount <= AmountOf[call'[s].row.src]
  <2> DEFINE row == call[s].row
             t == row.src
  <2>1. call'[s].row = row /\ t \in Tranches /\ row.amount \in Nat
    <3>1. call'[s].row = row /\ call[s].pc # "idle"
      BY <1>4 DEF Cleared, Check
    <3> QED BY <3>1, AmountsAreNat DEF AdjustInv, Core, Carried, IdleCall
  <2>2. /\ tranche[t] = "paid" /\ RequestOf[t] # RequestOf[row.dst]
        /\ Outs[t] + row.amount <= AmountOf[t]
    <3>1. CASE call[s].pc \in Cleared
      BY <1>4, <2>1, <3>1 DEF AdjustInv, Promised
    <3>2. CASE Check(s)
      <4>1. ValidPair(row) /\ row.amount <= Available(t)
        <5>1. call[s].op # "reject"
          BY <1>4, <2>1, <3>2 DEF AdjustInv, Core, Carried, IdleCall, Check
        <5> QED BY <3>2, <5>1 DEF Check, Passes
      <4>2. AdjustedOut(t) \in Nat /\ AmountOf[t] \in Nat
        BY AdjConstantsOK, <2>1, OutIsNat DEF AdjustInv, Core
      <4> QED BY <2>1, <4>1, <4>2 DEF ValidPair, Available, Outs
    <3> QED BY <1>4, <2>1, <3>1, <3>2
  <2> QED BY <1>1, <2>1, <2>2, PaidStays DEF AdjustInv
<1> QED BY <1>2, <1>3, <1>4 DEF Promised

\* A commit moves what its session had cleared from promised to spent.
LEMMA CommitMoney ==
  ASSUME AdjustInv, Core', NEW s \in Transactions, CommitCall(s)
  PROVE  Promised' /\ NotOverdrawn' /\ CompletedIsBacked'
<1> DEFINE row == call[s].row
<1>1. /\ call[s].a \in Adjs /\ row.src \in Tranches /\ row.amount \in Nat
      /\ call[s].pc \in Cleared /\ call[s].pc \in Holding
  BY AmountsAreNat
  DEF AdjustInv, Core, Carried, CommitCall, IdleCall, Cleared, Holding
<1>2. \A t \in Tranches :
        AdjustedOut(t) \in Nat /\ AdjustedOut(t)' \in Nat /\ AmountOf[t] \in Nat
  BY AdjConstantsOK, OutIsNat, NextOutIsNat DEF AdjustInv, Core
<1>3. \A t \in Tranches :
         \/ AdjustedOut(t)' = AdjustedOut(t)
         \/ /\ t = row.src /\ row.status = "completed"
            /\ AdjustedOut(t)' = AdjustedOut(t) + row.amount
         \/ /\ t = row.src /\ row.status = "rejected"
            /\ AdjustedOut(t) = AdjustedOut(t)' + row.amount
  BY CommitOut DEF AdjustInv, Core
<1>4. NotOverdrawn'
  <2>1. row.status = "completed" => AdjustedOut(row.src) + row.amount <= AmountOf[row.src]
    BY <1>1 DEF AdjustInv, Promised, Outs
  <2> QED BY <1>1, <1>2, <1>3, <2>1 DEF AdjustInv, NotOverdrawn
<1>5. CompletedIsBacked'
  BY <1>1 DEF AdjustInv, Core, AdjTypeOK, CompletedIsBacked, Promised, CommitCall
<1>6. ASSUME NEW u \in Transactions, call'[u].pc \in Cleared, call'[u].row.status = "completed"
      PROVE  /\ tranche'[call'[u].row.src] = "paid"
             /\ RequestOf[call'[u].row.src] # RequestOf[call'[u].row.dst]
             /\ Outs'[call'[u].row.src] + call'[u].row.amount <= AmountOf[call'[u].row.src]
  <2>1. u # s /\ call'[u] = call[u]
    BY <1>6 DEF AdjustInv, Core, AdjTypeOK, CommitCall, IdleCall, Cleared
  <2>2. call[u].row.src \in Tranches /\ call[u].row.src # row.src
    BY <1>1, <1>6, <2>1 DEF AdjustInv, Core, Locks, Carried, IdleCall, Cleared,
       Holding
  <2>3. Outs'[call[u].row.src] = Outs[call[u].row.src]
    BY <1>3, <2>2 DEF Outs
  <2> QED BY <1>6, <2>1, <2>3 DEF AdjustInv, Promised, CommitCall
<1> QED BY <1>4, <1>5, <1>6 DEF Promised

\* A tranche that a committed adjustment names is there.
LEMMA NamesStep ==
  ASSUME AdjustInv, [AdjNext]_adjVars
  PROVE  NamesExistingTranches'
<1>1. CASE UNCHANGED <<tranche, adj>>
  BY <1>1 DEF AdjustInv, NamesExistingTranches
<1>2. ASSUME NEW s \in Transactions, CommitCall(s) PROVE NamesExistingTranches'
  BY <1>2 DEF AdjustInv, Core, AdjTypeOK, Carried, IdleCall, Ids, Locks, Holding,
     NamesExistingTranches, CommitCall
<1>3. CASE Elsewhere
  <2>1. adj' = adj
    BY <1>3 DEF Elsewhere, Pay, Drop, Delete, Ship,
       SoftDelete
  <2>2. \A t \in Tranches : tranche[t] # "none" /\ tranche'[t] = "none" =>
          \A a \in Adjs : t \notin {adj[a].src, adj[a].dst}
    BY <1>3 DEF AdjustInv, Core, AdjTypeOK, Elsewhere, Pay, Drop,
       Delete, Ship, SoftDelete
  <2> QED BY <2>1, <2>2 DEF AdjustInv, Core, Complete, NamesExistingTranches
<1> QED
  BY <1>1, <1>2, <1>3 DEF AdjNext, adjVars, Call, Statement,
     CreateAdjustment, DecideAdjustment, LockSource, Check, Write, Refuse,
     CallFails, End

\* Every step keeps the invariant.
THEOREM AdjustmentsStep ==
  AdjustInv /\ [AdjNext]_adjVars => AdjustInv'
<1> SUFFICES ASSUME AdjustInv, [AdjNext]_adjVars PROVE AdjustInv'
  OBVIOUS
<1>0. NamesExistingTranches'
  BY NamesStep
<1>1. ASSUME NEW s \in Transactions, Call(s) PROVE AdjustInv'
  <2>1. Core'
    BY <1>1, CreateCore, DecideCore DEF Call, AdjustInv
  <2>2. adj' = adj /\ call'[s].pc = "lock" /\ \A u \in Transactions \ {s} : call'[u] = call[u]
    BY <1>1 DEF Call, CreateAdjustment, DecideAdjustment, AdjustInv, Core, AdjTypeOK
  <2> QED BY <1>0, <2>1, <2>2, QuietMoney DEF Cleared, AdjustInv
<1>2. ASSUME NEW s \in Transactions, LockSource(s) \/ Check(s) \/ Write(s)
      PROVE  AdjustInv'
  <2>1. Core'
    BY <1>2, StatementCore DEF AdjustInv
  <2>2. /\ adj' = adj /\ call'[s].row = call[s].row
        /\ \A u \in Transactions \ {s} : call'[u] = call[u]
    BY <1>2 DEF LockSource, Check, Write, AdjustInv, Core, AdjTypeOK
  <2>3. call'[s].pc \in Cleared => call[s].pc \in Cleared \/ Check(s)
    BY <1>2 DEF LockSource, Check, Write, AdjustInv, Core, AdjTypeOK,
       Cleared
  <2> QED BY <1>0, <2>1, <2>2, <2>3, QuietMoney DEF AdjustInv
<1>3. ASSUME NEW s \in Transactions, CommitCall(s) PROVE AdjustInv'
  BY <1>0, <1>3, CommitCore, CommitMoney DEF AdjustInv
<1>4. ASSUME NEW s \in Transactions, End(s) PROVE AdjustInv'
  <2>1. Core'
    BY <1>4, EndCore DEF AdjustInv
  <2>2. adj' = adj /\ call'[s].pc = "idle" /\ \A u \in Transactions \ {s} : call'[u] = call[u]
    BY <1>4 DEF End, IdleCall, AdjustInv, Core, AdjTypeOK
  <2> QED BY <1>0, <2>1, <2>2, QuietMoney DEF Cleared, AdjustInv
<1>5. CASE Elsewhere
  <2>1. Core'
    BY <1>5, ElsewhereCore DEF AdjustInv
  <2>2. UNCHANGED <<adj, call>>
    BY <1>5 DEF Elsewhere, Pay, Drop, Delete, Ship,
       SoftDelete
  <2> QED BY <1>0, <2>1, <2>2, QuietMoney DEF AdjustInv
<1>6. CASE UNCHANGED adjVars
  <2>1. Core'
    BY <1>6 DEF AdjustInv, Core, AdjTypeOK, Carried, Complete, Ids, Locks, adjVars
  <2>2. UNCHANGED <<adj, call>>
    BY <1>6 DEF adjVars
  <2> QED BY <1>0, <2>1, <2>2, QuietMoney DEF AdjustInv
<1> QED
  BY <1>1, <1>2, <1>3, <1>4, <1>5, <1>6 DEF AdjNext, Statement, Refuse,
     CallFails

--------------------------------------------------------------------------------
(* Their theorems.                                                         *)

\* The invariant holds throughout.
THEOREM AdjustmentsHold == AdjSpec => []AdjustInv
<1>1. AdjInit => AdjustInv
  BY AdjustmentsStart
<1>2. AdjustInv /\ [AdjNext]_adjVars => AdjustInv'
  BY AdjustmentsStep
<1> QED BY <1>1, <1>2, PTL DEF AdjSpec

(* Every variable keeps its type.                                          *)
THEOREM AdjustmentsTypeOK == AdjSpec => []AdjTypeOK
<1>1. AdjustInv => AdjTypeOK
  BY DEF AdjustInv, Core
<1> QED BY <1>1, AdjustmentsHold, PTL

(* The completed adjustments of a tranche never exceed its amount, however *)
(* many are raised, approved and decided twice at once                     *)
(* (AdjustmentService._assert_within_balance under the source lock).       *)
THEOREM NeverOverdrawn == AdjSpec => []NotOverdrawn
<1>1. AdjustInv => NotOverdrawn
  BY DEF AdjustInv
<1> QED BY <1>1, AdjustmentsHold, PTL

(* A completed adjustment took its value from a paid tranche of another    *)
(* request (AdjustmentService._validate_pair, run again by approve).       *)
THEOREM AlwaysBacked == AdjSpec => []CompletedIsBacked
<1>1. AdjustInv => CompletedIsBacked
  BY DEF AdjustInv
<1> QED BY <1>1, AdjustmentsHold, PTL

(* No adjustment loses a tranche it names: delete_tranche and the insert    *)
(* never miss one another.                                                 *)
THEOREM NamesSurvive == AdjSpec => []NamesExistingTranches
<1>1. AdjustInv => NamesExistingTranches
  BY DEF AdjustInv
<1> QED BY <1>1, AdjustmentsHold, PTL

(* Initially the accounts hold what was paid.                              *)
LEMMA InitBalance == AdjInit => Balance!BInit
<1> SUFFICES ASSUME AdjInit PROVE Balance!BInit
  OBVIOUS
<1>1. AdjTypeOK
  BY AdjustmentsStart DEF AdjustInv, Core
<1>2. \A t \in Tranches : Outs[t] \in Nat /\ Outs[t] = 0
  <2> TAKE t \in Tranches
  <2>1. Completed(t) = {}
    BY DEF Completed, AdjInit, NoAdjustment
  <2> QED BY <1>1, <2>1, OutIsNat, SumIsAdditive DEF AdjustedOut, Outs
<1>3. \A t \in Tranches : AmountOf[t] \in Nat
  BY AdjConstantsOK
<1>4. [t \in Tranches |-> Available(t)] = [t \in Tranches |-> AmountOf[t] - Outs[t]]
  BY Zenon DEF Available, Outs
<1>5. \A t \in Tranches : AmountOf[t] - Outs[t] = AmountOf[t]
  <2>1. \A x, y \in Nat : y = 0 => x - y = x
    OBVIOUS
  <2> QED BY <1>2, <1>3, <2>1
<1> QED BY AdjConstantsOK, <1>4, <1>5 DEF Balance!BInit

\* Every step draws on one account, gives back to one, or touches none.
LEMMA StepBalance ==
  ASSUME AdjustInv, AdjTypeOK', NotOverdrawn',
         [AdjNext]_adjVars
  PROVE  [Balance!BNext]_([t \in Tranches |-> Available(t)])
<1> DEFINE bal == [t \in Tranches |-> Available(t)]
<1>1. CASE UNCHANGED adj
  BY <1>1, AdjKept DEF Available
<1>2. ASSUME NEW s \in Transactions, CommitCall(s) PROVE Balance!BNext \/ UNCHANGED bal
  <2> DEFINE row == call[s].row
  <2>1. row.src \in Tranches /\ row.amount \in Amounts
    BY <1>2 DEF AdjustInv, Core, Carried, CommitCall, IdleCall
  <2>2. \A t \in Tranches :
          /\ AmountOf[t] \in Nat /\ Outs[t] \in Nat /\ Outs'[t] \in Nat
          /\ Outs[t] <= AmountOf[t] /\ Outs'[t] <= AmountOf[t]
    BY AdjConstantsOK, OutIsNat, NextOutIsNat DEF AdjustInv, Core, NotOverdrawn, Outs
  <2>3. \A t \in Tranches :
         \/ Outs'[t] = Outs[t]
         \/ t = row.src /\ row.status = "completed" /\ Outs'[t] = Outs[t] + row.amount
         \/ t = row.src /\ row.status = "rejected" /\ Outs[t] = Outs'[t] + row.amount
    BY <1>2, CommitOut DEF AdjustInv, Outs
  <2>4. row.amount \in Nat /\ row.amount > 0
    BY <2>1, AmountsAreNat
  <2>5. /\ bal = [t \in Tranches |-> AmountOf[t] - Outs[t]]
        /\ bal' = [t \in Tranches |-> AmountOf[t] - Outs'[t]]
    BY Zenon DEF Available, Outs
  <2> HIDE DEF bal, row
  <2>6. CASE Outs'[row.src] = Outs[row.src]
    BY <2>3, <2>5, <2>6
  <2>7. CASE Outs'[row.src] = Outs[row.src] + row.amount
    <3>1. row.amount \in 1..bal[row.src] /\ row.amount \in 1..AmountOf[row.src]
      BY <2>1, <2>2, <2>4, <2>5, <2>7
    <3>2. bal' = [bal EXCEPT ![row.src] = @ - row.amount]
      BY <2>1, <2>2, <2>3, <2>4, <2>5, <2>7
    <3> QED BY <2>1, <3>1, <3>2 DEF Balance!BNext, Balance!Draw, bal
  <2>8. CASE Outs[row.src] = Outs'[row.src] + row.amount
    <3>1. row.amount \in 1..AmountOf[row.src] /\ bal[row.src] + row.amount <= AmountOf[row.src]
      BY <2>1, <2>2, <2>4, <2>5, <2>8
    <3>2. bal' = [bal EXCEPT ![row.src] = @ + row.amount]
      BY <2>1, <2>2, <2>3, <2>4, <2>5, <2>8
    <3> QED BY <2>1, <3>1, <3>2 DEF Balance!BNext, Balance!GiveBack, bal
  <2> QED BY <2>1, <2>3, <2>6, <2>7, <2>8
<1> QED
  BY <1>1, <1>2 DEF AdjNext, adjVars, Call, Statement, CreateAdjustment,
     DecideAdjustment, LockSource, Check, Write, Refuse, CallFails,
     End, Elsewhere, Pay, Drop, Delete, Ship,
     SoftDelete

(* The module implements PaidBalance: each paid tranche is an account that *)
(* is drawn on by one adjustment at a time and never overdrawn.            *)
THEOREM KeepsAccounts == AdjSpec => AccountKept
<1>1. AdjustInv /\ AdjustInv' /\ [AdjNext]_adjVars =>
        [Balance!BNext]_([t \in Tranches |-> Available(t)])
  BY StepBalance DEF AdjustInv, Core
<1>2. AdjInit => Balance!BInit
  BY InitBalance
<1>3. AdjSpec => []AdjustInv
  BY AdjustmentsHold
<1> QED BY <1>1, <1>2, <1>3, PTL DEF AdjSpec, AccountKept, Balance!BSpec

================================================================================
