------------------------------ MODULE IntakeProofs ------------------------------
(***************************************************************************)
(* What comes in: theorems about the intake, for any number of sessions    *)
(* and requests and any calendar with room for the window, and about the   *)
(* bank statements, for any statements and for documents of any length and *)
(* amounts.  The numbers of a year are always 1 .. n: only the holder of   *)
(* the advisory lock is between reading n and inserting n + 1, so what it  *)
(* read stays the last number.  What the walk along the balances of a      *)
(* statement makes of the rows is defined by recursion on the row number;  *)
(* the induction is made with sets of row numbers, of which a nonempty one *)
(* has a smallest element.                                                 *)
(***************************************************************************)
EXTENDS Intake, BankStatements, Sums

NoGaps == \A y \in Nat : \E n \in Nat : NumbersOf(y) = 1 .. n

Distinct ==
  \A r, q \in Rows : row[r].year = row[q].year /\ row[r].number = row[q].number => r = q

(* The steps after the lock.                                               *)
HolderOnly == \A s \in Sessions : call[s].at \in {"max", "insert"} => numbering = s

NextIsRead ==
  \A s \in Sessions : call[s].at = "insert" =>
    /\ call[s].row.number \in Nat \ {0}
    /\ NumbersOf(call[s].row.year) = 1 .. (call[s].row.number - 1)

(* A row about to be inserted has its status.                              *)
StatusChosen ==
  \A s \in Sessions : call[s].at \in {"invoice", "lock", "max", "insert"} =>
    call[s].row.status \in RequestStatus

IndInv == TypeOK /\ NoGaps /\ Distinct /\ HolderOnly /\ NextIsRead /\ StatusChosen

--------------------------------------------------------------------------------
(* The calendar.                                                           *)

(* Every day has its day after.                                            *)
LEMMA TomorrowIsADate == ASSUME NEW t \in Date PROVE Tomorrow(t) \in Date
<1>1. /\ t.y \in Nat /\ t.m \in 1 .. MonthsInYear /\ t.d \in 1 .. MonthLength[t.m]
      /\ t = [y |-> t.y, m |-> t.m, d |-> t.d]
  BY DEF Date
<1>2. CASE t.d < MonthLength[t.m]
  <2>1. Tomorrow(t) = [y |-> t.y, m |-> t.m, d |-> t.d + 1]
    BY <1>1, <1>2 DEF Tomorrow
  <2>2. t.d + 1 \in 1 .. MonthLength[t.m]
    BY <1>1, <1>2, CalendarAssumption
  <2> QED BY <1>1, <2>1, <2>2 DEF Date
<1>3. CASE ~(t.d < MonthLength[t.m])
  <2>1. NextPeriod(t).y \in Nat /\ NextPeriod(t).m \in 1 .. MonthsInYear
    BY <1>1, CalendarAssumption DEF NextPeriod
  <2>2. 1 \in 1 .. MonthLength[NextPeriod(t).m]
    BY <2>1, CalendarAssumption
  <2> QED BY <1>3, <2>1, <2>2 DEF Date, Tomorrow
<1> QED BY <1>2, <1>3

(* The month under way can be filed on each of its days.                   *)
LEMMA CurrentIsEditable == ASSUME NEW t \in Date PROVE PeriodEditable(PeriodOf(t), t)
<1>1. /\ t.y \in Nat /\ t.m \in 1 .. MonthsInYear /\ t.d \in 1 .. MonthLength[t.m]
      /\ MonthsInYear \in Nat /\ MonthLength[t.m] \in Nat
  BY CalendarAssumption DEF Date
<1>2. NotAfter(WindowOpensFor(PeriodOf(t)), t)
  BY <1>1 DEF NotAfter, WindowOpensFor, PeriodOf
<1>3. NotAfter(t, LastDayOf(PeriodOf(t)))
  BY <1>1 DEF NotAfter, LastDayOf, PeriodOf
<1> QED BY <1>2, <1>3 DEF PeriodEditable

(* So can the period users are reminded of, whatever the day and however   *)
(* long the months are (reminder_period, period_editable).                  *)
THEOREM ReminderIsEditable == ASSUME NEW t \in Date PROVE PeriodEditable(ReminderPeriod(t), t)
<1>1. /\ t.y \in Nat /\ t.m \in 1 .. MonthsInYear /\ t.d \in 1 .. MonthLength[t.m]
      /\ MonthsInYear \in Nat /\ WindowOpensOn \in Nat
  BY CalendarAssumption DEF Date
<1>2. CASE WindowOpen(t)
  <2>1. t.d >= WindowOpensOn /\ ReminderPeriod(t) = NextPeriod(t)
    BY <1>2 DEF ReminderPeriod, WindowOpen
  <2>2. WindowOpensFor(NextPeriod(t)) = [y |-> t.y, m |-> t.m, d |-> WindowOpensOn]
    BY <1>1 DEF WindowOpensFor, NextPeriod
  <2>3. NotAfter(WindowOpensFor(NextPeriod(t)), t)
    BY <1>1, <2>1, <2>2 DEF NotAfter
  <2>4. NotAfter(t, LastDayOf(NextPeriod(t)))
    BY <1>1 DEF NotAfter, LastDayOf, NextPeriod
  <2> QED BY <2>1, <2>3, <2>4 DEF PeriodEditable
<1>3. CASE ~WindowOpen(t)
  BY <1>3, CurrentIsEditable DEF ReminderPeriod
<1> QED BY <1>2, <1>3

--------------------------------------------------------------------------------
(* The numbering.                                                          *)

\* MAX of the numbers 1 .. n is n.
LEMMA LastOfInterval ==
  ASSUME NEW y, NEW n \in Nat, NumbersOf(y) = 1 .. n
  PROVE  LastNumber(y) = n
<1>1. n \in NumbersOf(y) \cup {0} /\ \A k \in NumbersOf(y) : k <= n
  OBVIOUS
<1>2. ASSUME NEW l \in NumbersOf(y) \cup {0}, \A k \in NumbersOf(y) : k <= l
      PROVE  l = n
  <2>1. l \in Nat /\ l <= n
    BY <1>2
  <2>2. CASE n = 0
    BY <2>1, <2>2
  <2>3. CASE n # 0
    <3>1. n \in NumbersOf(y)
      BY <2>3
    <3> QED BY <1>2, <2>1, <3>1
  <2> QED BY <2>2, <2>3
<1> QED BY <1>1, <1>2 DEF LastNumber

(* A step that adds no row and changes no number.                          *)
LEMMA SameNumbers ==
  ASSUME Rows' = Rows,
         \A r \in Rows : row'[r].year = row[r].year /\ row'[r].number = row[r].number
  PROVE  /\ \A y : NumbersOf(y)' = NumbersOf(y)
         /\ Distinct => Distinct'
  BY DEF NumbersOf, Distinct

\* At the start no number is given out.
LEMMA InitIndInv == Init => IndInv
<1> SUFFICES ASSUME Init PROVE IndInv
  OBVIOUS
<1>1. NoRow \in RowType /\ Idle \in CallType
  BY CalendarAssumption DEF NoRow, Idle, RowType, CallType, Steps, Period
<1>2. TypeOK
  <2>1. PeriodOf(today) \in Period
    BY IntakeAssumption DEF Init, PeriodOf, Period, Date
  <2> QED BY <1>1, <2>1, IntakeAssumption DEF Init, TypeOK
<1>3. Rows = {}
  BY DEF Init, Rows, NoRow
<1>4. \A y : NumbersOf(y) = 1 .. 0
  BY <1>3 DEF NumbersOf
<1>5. NoGaps /\ Distinct
  BY <1>3, <1>4 DEF NoGaps, Distinct
<1>6. \A s \in Sessions : call[s].at = "idle"
  BY DEF Init, Idle
<1> QED BY <1>2, <1>5, <1>6 DEF IndInv, HolderOnly, NextIsRead, StatusChosen

(* A session that takes a step outside the lock, or gives the lock up,     *)
(* leaves the numbering as it was.                                         *)
LEMMA OutsideTheLock ==
  ASSUME IndInv, NEW s \in Sessions, NEW c \in CallType,
         c.at \notin {"max", "insert"},
         c.at \in {"invoice", "lock"} => c.row.status \in RequestStatus,
         call' = [call EXCEPT ![s] = c],
         numbering' = numbering \/ numbering = s,
         Rows' = Rows,
         \A r \in Rows : row'[r].year = row[r].year /\ row'[r].number = row[r].number
  PROVE  NoGaps' /\ Distinct' /\ HolderOnly' /\ NextIsRead' /\ StatusChosen'
<1>1. (\A y : NumbersOf(y)' = NumbersOf(y)) /\ Distinct'
  BY SameNumbers DEF IndInv
<1>2. \A t \in Sessions : call'[t] = IF t = s THEN c ELSE call[t]
  BY DEF IndInv, TypeOK
<1>3. NoGaps'
  BY <1>1 DEF IndInv, NoGaps
<1>4. HolderOnly'
  BY <1>2 DEF IndInv, HolderOnly
<1>5. NextIsRead'
  <2> SUFFICES ASSUME NEW t \in Sessions, call'[t].at = "insert"
               PROVE  /\ call'[t].row.number \in Nat \ {0}
                      /\ NumbersOf(call[t].row.year)' = 1 .. (call'[t].row.number - 1)
    BY DEF NextIsRead
  <2>1. call'[t] = call[t] /\ call[t].at = "insert"
    BY <1>2
  <2>2. NumbersOf(call[t].row.year)' = NumbersOf(call[t].row.year)
    BY <1>1, <2>1 DEF NumbersOf
  <2> QED BY <2>1, <2>2 DEF IndInv, NextIsRead
<1>6. StatusChosen'
  BY <1>2 DEF IndInv, StatusChosen
<1> QED BY <1>1, <1>3, <1>4, <1>5, <1>6

(* So do the steps of others.                                              *)
LEMMA NoCallMoves ==
  ASSUME IndInv, UNCHANGED <<call, numbering>>, Rows' = Rows,
         \A r \in Rows : row'[r].year = row[r].year /\ row'[r].number = row[r].number
  PROVE  NoGaps' /\ Distinct' /\ HolderOnly' /\ NextIsRead' /\ StatusChosen'
<1>1. (\A y : NumbersOf(y)' = NumbersOf(y)) /\ Distinct'
  BY SameNumbers DEF IndInv
<1>2. NoGaps'
  BY <1>1 DEF IndInv, NoGaps
<1>3. NextIsRead'
  <2> SUFFICES ASSUME NEW t \in Sessions, call[t].at = "insert"
               PROVE  /\ call[t].row.number \in Nat \ {0}
                      /\ NumbersOf(call[t].row.year)' = 1 .. (call[t].row.number - 1)
    BY DEF NextIsRead
  <2>1. NumbersOf(call[t].row.year)' = NumbersOf(call[t].row.year)
    BY <1>1 DEF NumbersOf
  <2> QED BY <2>1 DEF IndInv, NextIsRead
<1>4. HolderOnly' /\ StatusChosen'
  BY DEF IndInv, HolderOnly, StatusChosen
<1> QED BY <1>1, <1>2, <1>3, <1>4

\* Taking the advisory lock and reading the last number change no row.
LEMMA LockStep ==
  ASSUME IndInv, NEW s \in Sessions, TakeLock(s) \/ ReadLast(s)
  PROVE  NoGaps' /\ Distinct' /\ HolderOnly' /\ NextIsRead' /\ StatusChosen'
<1>1. UNCHANGED row /\ Rows' = Rows /\ \A y : NumbersOf(y)' = NumbersOf(y)
  BY DEF TakeLock, ReadLast, Rows, NumbersOf
<1>2. NoGaps' /\ Distinct'
  BY <1>1, SameNumbers DEF IndInv, NoGaps
<1>3. \A t \in Sessions : t # s => call'[t] = call[t]
  BY DEF TakeLock, ReadLast, Goto, IndInv, TypeOK
<1>4. CASE TakeLock(s)
  <2>1. call'[s] = [call[s] EXCEPT !.at = "max"] /\ call[s].at = "lock" /\ call[s] \in CallType
    BY <1>4 DEF TakeLock, Goto, Step, IndInv, TypeOK
  <2>2. call'[s].at = "max" /\ call'[s].row = call[s].row
    BY <2>1 DEF CallType
  <2>3. \A t \in Sessions : t # s => call[t].at \notin {"max", "insert"}
    BY <1>4, IntakeAssumption DEF TakeLock, IndInv, HolderOnly
  <2>4. HolderOnly' /\ NextIsRead'
    BY <1>3, <1>4, <2>2, <2>3 DEF TakeLock, HolderOnly, NextIsRead
  <2>5. StatusChosen'
    BY <1>3, <2>1, <2>2 DEF IndInv, StatusChosen
  <2> QED BY <1>2, <2>4, <2>5
<1>5. CASE ReadLast(s)
  <2> DEFINE y == call[s].row.year
  <2>1. /\ call[s].at = "max" /\ call[s] \in CallType /\ numbering' = numbering
        /\ call'[s] = [call[s] EXCEPT !.at = "insert", !.row.number = LastNumber(y) + 1]
    BY <1>5 DEF ReadLast, Goto, Step, IndInv, TypeOK
  <2>2. /\ call'[s].at = "insert" /\ call'[s].row.year = y
        /\ call'[s].row.status = call[s].row.status
        /\ call'[s].row.number = LastNumber(y) + 1
    BY <2>1 DEF CallType, RowType
  <2>3. y \in Nat
    BY <2>1 DEF CallType, RowType
  <2>4. PICK n \in Nat : NumbersOf(y) = 1 .. n
    BY <2>3 DEF IndInv, NoGaps
  <2>5. call'[s].row.number = n + 1
    BY <2>2, <2>4, LastOfInterval
  <2>6. \A t \in Sessions : t # s => call[t].at \notin {"max", "insert"}
    BY <2>1 DEF IndInv, HolderOnly
  <2>7. NextIsRead'
    <3> SUFFICES ASSUME NEW t \in Sessions, call'[t].at = "insert"
                 PROVE  /\ call'[t].row.number \in Nat \ {0}
                        /\ NumbersOf(call[t].row.year)' = 1 .. (call'[t].row.number - 1)
      BY DEF NextIsRead
    <3>1. t = s
      BY <1>3, <2>6
    <3>2. NumbersOf(call[s].row.year)' = NumbersOf(y)
      BY <1>1, <2>2 DEF NumbersOf
    <3>3. (n + 1) - 1 = n /\ n + 1 \in Nat \ {0}
      OBVIOUS
    <3> QED BY <2>4, <2>5, <3>1, <3>2, <3>3
  <2>8. HolderOnly' /\ StatusChosen'
    BY <1>3, <2>1, <2>2 DEF IndInv, HolderOnly, StatusChosen
  <2> QED BY <1>2, <2>7, <2>8
<1> QED BY <1>4, <1>5

\* Inserting the row takes the next number of its period.
LEMMA InsertStep ==
  ASSUME IndInv, NEW s \in Sessions, Insert(s)
  PROVE  NoGaps' /\ Distinct' /\ HolderOnly' /\ NextIsRead' /\ StatusChosen'
<1> DEFINE r == call[s].request
           new == call[s].row
<1>1. /\ call[s].at = "insert" /\ r \notin Rows /\ new.number \notin NumbersOf(new.year)
      /\ row' = [row EXCEPT ![r] = new]
      /\ call' = [call EXCEPT ![s] = Idle]
  BY DEF Insert, Step, Close
<1>2. /\ new.status \in RequestStatus /\ new.number \in Nat \ {0} /\ new.year \in Nat
      /\ NumbersOf(new.year) = 1 .. (new.number - 1)
  BY <1>1 DEF IndInv, StatusChosen, NextIsRead, TypeOK, CallType, RowType
<1>3. \A t \in Sessions : t # s => call'[t] = call[t] /\ call[t].at \notin {"max", "insert"}
  BY <1>1 DEF IndInv, TypeOK, HolderOnly
<1>4. call'[s].at = "idle"
  BY <1>1 DEF IndInv, TypeOK, Idle
<1>5. HolderOnly' /\ NextIsRead' /\ StatusChosen'
  BY <1>3, <1>4 DEF IndInv, HolderOnly, NextIsRead, StatusChosen
<1>6. CASE r \notin Requests
  <2>1. row' = row
    BY <1>1, <1>6 DEF IndInv, TypeOK
  <2> QED BY <1>5, <2>1, SameNumbers DEF Rows, IndInv, NoGaps
<1>7. CASE r \in Requests
  <2>1. PICK y \in Nat, k \in Nat \ {0} : y = new.year /\ k = new.number
    BY <1>2
  <2>2. /\ row'[r] = new /\ \A q \in Requests : q # r => row'[q] = row[q]
        /\ Rows' = Rows \cup {r}
    BY <1>1, <1>2, <1>7 DEF IndInv, TypeOK, Rows, RequestStatus
  <2>3. \A x : NumbersOf(x)' = IF x = y THEN NumbersOf(x) \cup {k} ELSE NumbersOf(x)
    BY <1>1, <2>1, <2>2 DEF NumbersOf, Rows
  <2>4. NumbersOf(y)' = 1 .. k
    <3>1. NumbersOf(y)' = NumbersOf(y) \cup {k}
      BY <2>3
    <3>2. NumbersOf(y) = 1 .. (k - 1)
      BY <1>2, <2>1
    <3> QED BY <3>1, <3>2
  <2>5. NoGaps'
    BY <2>3, <2>4 DEF IndInv, NoGaps
  <2>6. Distinct'
    <3>1. \A q \in Rows : row[q].year = new.year => row[q].number # new.number
      BY <1>1 DEF NumbersOf
    <3> QED BY <1>1, <2>2, <3>1 DEF IndInv, Distinct, Rows
  <2> QED BY <1>5, <2>5, <2>6
<1> QED BY <1>6, <1>7

--------------------------------------------------------------------------------
(* The steps.                                                              *)

\* The empty row and the idle call are typed.
LEMMA Constants ==
  /\ NoRow \in RowType /\ Idle \in CallType /\ Idle.at = "idle"
  /\ MonthsInYear \in Nat \ {0}
BY CalendarAssumption DEF NoRow, Idle, RowType, CallType, Steps, Period

\* The period of a date, and the next one, are periods.
LEMMA PeriodsOfDates ==
  ASSUME NEW t \in Date PROVE PeriodOf(t) \in Period /\ NextPeriod(t) \in Period
BY Constants DEF Date, PeriodOf, NextPeriod, Period

(* What starts a call.                                                     *)
LEMMA StartingToFile ==
  ASSUME NEW p \in Period, NEW at \in Steps
  PROVE  LET c == [Idle EXCEPT !.at = at, !.period = p] IN c \in CallType /\ c.at = at
BY Constants DEF Idle, CallType

(* Steps of a session that neither take the lock nor hold it after.        *)
LEMMA SessionStep ==
  ASSUME IndInv, NEW s \in Sessions, Session(s)
  PROVE  IndInv'
<1> USE Constants
<1> DEFINE Numbered == NoGaps' /\ Distinct' /\ HolderOnly' /\ NextIsRead' /\ StatusChosen'
<1>1. /\ TypeOK /\ call[s] \in CallType /\ today \in Date
      /\ call[s].row \in RowType
  BY DEF IndInv, TypeOK, CallType
<1>2. ASSUME NEW c \in CallType, Start(s, c), c.at \in {"flag", "edit", "filing", "filed"}
      PROVE  IndInv'
  <2>1. /\ call' = [call EXCEPT ![s] = c]
        /\ UNCHANGED <<today, row, flagged, armed, filed, numbering, days, events>>
        /\ calls' = calls + 1
    BY <1>2 DEF Start, Goto
  <2>2. TypeOK'
    BY <1>1, <2>1 DEF TypeOK
  <2>3. Numbered
    BY <1>2, <2>1, OutsideTheLock DEF Rows
  <2> QED BY <2>2, <2>3 DEF IndInv
<1>3. ASSUME NEW r \in Requests, NEW i \in Invoices \cup {NoInvoice}, NEW o \in BOOLEAN,
             Submit(s, r, i, o)
      PROVE  IndInv'
  <2> DEFINE c == [Idle EXCEPT !.at = "flag", !.request = r, !.row.invoice = i, !.override = o]
  <2>1. c \in CallType /\ c.at = "flag"
    <3>1. Idle \in CallType
      BY DEF Idle, NoRow, RowType, CallType, Steps
    <3>2. "flag" \in Steps
      BY DEF Steps
    <3> QED BY <3>1, <3>2 DEF CallType, RowType
  <2>2. Start(s, c)
    BY <1>3 DEF Submit
  <2> HIDE DEF c
  <2> QED BY <1>2, <2>1, <2>2
<1>4. ASSUME NEW r \in Requests, NEW i \in Invoices \cup {NoInvoice}, StartEdit(s, r, i)
      PROVE  IndInv'
  <2> DEFINE c == [Idle EXCEPT !.at = "edit", !.request = r, !.row.invoice = i]
  <2>1. c \in CallType /\ c.at = "edit"
    BY DEF Idle, NoRow, RowType, CallType, Steps
  <2>2. Start(s, c)
    BY <1>4 DEF StartEdit
  <2> HIDE DEF c
  <2> QED BY <1>2, <2>1, <2>2
<1>5. ASSUME NEW p \in Periods, NEW role \in UserRole, StartFiling(s, p, role)
      PROVE  IndInv'
  <2> DEFINE c == [Idle EXCEPT !.at = IF p \in filed THEN "filed" ELSE "filing", !.period = p]
  <2>1. p \in Period
    BY <1>1, PeriodsOfDates DEF Periods
  <2>2. c \in CallType /\ c.at \in {"filing", "filed"}
    <3>1. {"filing", "filed"} \subseteq Steps
      BY DEF Steps
    <3> QED BY <2>1, <3>1, StartingToFile
  <2>3. Start(s, c)
    BY <1>5 DEF StartFiling
  <2> HIDE DEF c
  <2> QED BY <1>2, <2>2, <2>3
<1>6. CASE ReadFlag(s)
  <2> DEFINE c == [call[s] EXCEPT !.at = "invoice",
                     !.row.status = IF flagged THEN "pending_hom_approval" ELSE "pending_payment"]
  <2>1. c \in CallType /\ c.at = "invoice" /\ c.row.status \in RequestStatus
    BY <1>1 DEF CallType, RowType, Steps, RequestStatus
  <2>2. /\ call' = [call EXCEPT ![s] = c]
        /\ UNCHANGED <<today, row, flagged, armed, filed, numbering, days, calls, events>>
    BY <1>6 DEF ReadFlag, Step, Goto
  <2> HIDE DEF c
  <2>3. TypeOK'
    BY <1>1, <2>1, <2>2 DEF TypeOK
  <2>4. Numbered
    BY <2>1, <2>2, OutsideTheLock DEF Rows
  <2> QED BY <2>3, <2>4 DEF IndInv
<1>7. CASE CheckInvoice(s)
  <2> DEFINE c == [call[s] EXCEPT !.at = "lock", !.row.year = today.y]
  <2>1. c \in CallType /\ c.at = "lock" /\ c.row.status = call[s].row.status
    BY <1>1 DEF CallType, RowType, Steps, Date
  <2>2. /\ call' = [call EXCEPT ![s] = c] /\ call[s].at = "invoice"
        /\ UNCHANGED <<today, row, flagged, armed, filed, numbering, days, calls, events>>
    BY <1>7 DEF CheckInvoice, Step, Goto
  <2>3. c.row.status \in RequestStatus
    BY <2>1, <2>2 DEF IndInv, StatusChosen
  <2> HIDE DEF c
  <2>4. TypeOK'
    BY <1>1, <2>1, <2>2 DEF TypeOK
  <2>5. Numbered
    BY <2>1, <2>2, <2>3, OutsideTheLock DEF Rows
  <2> QED BY <2>4, <2>5 DEF IndInv
<1>8. CASE TakeLock(s) \/ ReadLast(s)
  <2>1. call'[s] \in CallType
    <3>1. CASE TakeLock(s)
      BY <1>1, <3>1 DEF TakeLock, Goto, CallType, Steps, TypeOK
    <3>2. CASE ReadLast(s)
      <4>1. call[s].row.year \in Nat
        BY <1>1 DEF RowType
      <4>2. PICK n \in Nat : NumbersOf(call[s].row.year) = 1 .. n
        BY <4>1 DEF IndInv, NoGaps
      <4>3. LastNumber(call[s].row.year) + 1 \in Nat
        BY <4>2, LastOfInterval
      <4> QED BY <1>1, <3>2, <4>3 DEF ReadLast, Goto, CallType, RowType, Steps, TypeOK
    <3> QED BY <1>8, <3>1, <3>2
  <2>2. TypeOK'
    BY <1>1, <1>8, <2>1 DEF TakeLock, ReadLast, Step, Goto, TypeOK
  <2>3. Numbered
    BY <1>8, LockStep
  <2> QED BY <2>2, <2>3 DEF IndInv
<1>9. CASE Insert(s)
  <2>1. TypeOK'
    BY <1>1, <1>9 DEF Insert, Step, Close, TypeOK
  <2>2. Numbered
    BY <1>9, InsertStep
  <2> QED BY <2>1, <2>2 DEF IndInv
<1>10. CASE CheckEdit(s)
  <2> DEFINE c == [call[s] EXCEPT !.at = "write"]
  <2>1. c \in CallType /\ c.at = "write"
    BY <1>1 DEF CallType, Steps
  <2>2. /\ call' = [call EXCEPT ![s] = c]
        /\ UNCHANGED <<today, row, flagged, armed, filed, numbering, days, calls, events>>
    BY <1>10 DEF CheckEdit, Step, Goto
  <2> HIDE DEF c
  <2>3. TypeOK'
    BY <1>1, <2>1, <2>2 DEF TypeOK
  <2>4. Numbered
    BY <2>1, <2>2, OutsideTheLock DEF Rows
  <2> QED BY <2>3, <2>4 DEF IndInv
<1>11. CASE WriteEdit(s)
  <2>1. /\ call' = [call EXCEPT ![s] = Idle] /\ (numbering' = numbering \/ numbering = s)
        /\ row' = [row EXCEPT ![call[s].request].invoice = call[s].row.invoice]
        /\ numbering' \in {numbering, NoSession}
        /\ UNCHANGED <<today, flagged, armed, filed, days, calls, events>>
    BY <1>11 DEF WriteEdit, Step, Close
  <2>2. call[s].row.invoice \in Invoices \cup {NoInvoice}
    BY <1>1 DEF RowType
  <2>3. /\ row' \in [Requests -> RowType]
        /\ \A q \in Requests : /\ row'[q].status = row[q].status
                               /\ row'[q].year = row[q].year
                               /\ row'[q].number = row[q].number
    <3>1. row \in [Requests -> RowType]
      BY <1>1 DEF TypeOK
    <3>2. CASE call[s].request \notin Requests
      BY <2>1, <3>1, <3>2
    <3>3. CASE call[s].request \in Requests
      <4>1. row[call[s].request] \in RowType
        BY <3>1, <3>3
      <4>2. /\ row'[call[s].request] = [row[call[s].request] EXCEPT !.invoice = call[s].row.invoice]
            /\ \A q \in Requests : q # call[s].request => row'[q] = row[q]
            /\ DOMAIN row' = Requests /\ row' = [q \in Requests |-> row'[q]]
        BY <2>1, <3>1, <3>3
      <4>3. row'[call[s].request] \in RowType
        BY <2>2, <4>1, <4>2 DEF RowType
      <4>4. /\ row'[call[s].request].status = row[call[s].request].status
            /\ row'[call[s].request].year = row[call[s].request].year
            /\ row'[call[s].request].number = row[call[s].request].number
        BY <4>1, <4>2 DEF RowType
      <4> QED BY <3>1, <4>2, <4>3, <4>4
    <3> QED BY <3>2, <3>3
  <2>4. TypeOK'
    BY <1>1, <2>1, <2>3 DEF TypeOK
  <2>5. Rows' = Rows
    BY <2>3 DEF Rows
  <2>6. Numbered
    BY <2>1, <2>3, <2>5, OutsideTheLock DEF Rows
  <2> QED BY <2>4, <2>6 DEF IndInv
<1>12. CASE EndFiling(s) \/ Rollback(s)
  <2>1. /\ call' = [call EXCEPT ![s] = Idle] /\ (numbering' = numbering \/ numbering = s)
        /\ numbering' \in {numbering, NoSession}
        /\ filed' = filed \/ filed' = filed \cup {call[s].period}
        /\ UNCHANGED <<today, row, flagged, armed, days, calls, events>>
    BY <1>12 DEF EndFiling, Rollback, Step, Close
  <2>2. call[s].period \in Period
    BY <1>1 DEF CallType
  <2>3. TypeOK'
    BY <1>1, <2>1, <2>2 DEF TypeOK
  <2>4. Numbered
    BY <2>1, OutsideTheLock DEF Rows
  <2> QED BY <2>3, <2>4 DEF IndInv
<1> QED
  BY <1>3, <1>4, <1>5, <1>6, <1>7, <1>8, <1>9, <1>10, <1>11, <1>12 DEF Session, Rows

(* The calls of others and the days.                                       *)
LEMMA OthersStep ==
  ASSUME IndInv, (Event /\ Happens) \/ NewDay
  PROVE  IndInv'
<1> DEFINE Numbered == NoGaps' /\ Distinct' /\ HolderOnly' /\ NextIsRead' /\ StatusChosen'
<1>1. CASE Event /\ Happens
  <2>1. /\ UNCHANGED <<today, filed, call, numbering, days, calls>> /\ events' = events + 1
    BY <1>1 DEF Event
  <2> DEFINE Kept == /\ row' \in [Requests -> RowType]
                     /\ flagged' \in BOOLEAN /\ armed' \in BOOLEAN
                     /\ Rows' = Rows
                     /\ \A q \in Requests : /\ row'[q].year = row[q].year
                                            /\ row'[q].number = row[q].number
  <2>2. Kept
    <3> USE DEF RowType
    <3>1. /\ row \in [Requests -> RowType] /\ flagged \in BOOLEAN /\ armed \in BOOLEAN
      BY DEF IndInv, TypeOK
    <3>2. ASSUME NEW r \in Requests, SoftDelete(r) PROVE  Kept
      BY <3>1, <3>2 DEF SoftDelete, Rows
    <3>3. ASSUME NEW r \in Requests, NEW t \in RequestStatus, NEW role \in UserRole,
                 Move(r, t, role)
          PROVE  Kept
      BY <3>1, <3>3 DEF Move, Rows, RequestStatus
    <3>4. CASE FlagSupplier \/ SetLockEnabled
      BY <3>1, <3>4 DEF FlagSupplier, SetLockEnabled, Rows
    <3> QED BY <1>1, <3>2, <3>3, <3>4 DEF Happens
  <2>3. TypeOK'
    BY <2>1, <2>2 DEF IndInv, TypeOK
  <2>4. Numbered
    BY <2>1, <2>2, NoCallMoves DEF Rows
  <2> QED BY <2>3, <2>4 DEF IndInv
<1>2. CASE NewDay
  <2>1. /\ UNCHANGED <<row, flagged, armed, filed, call, numbering, calls, events>>
        /\ today' = Tomorrow(today) /\ days' = days + 1
    BY <1>2 DEF NewDay
  <2>2. TypeOK'
    BY <2>1, TomorrowIsADate DEF IndInv, TypeOK
  <2>3. Numbered
    BY <2>1, NoCallMoves DEF Rows
  <2> QED BY <2>2, <2>3 DEF IndInv
<1> QED BY <1>1, <1>2

--------------------------------------------------------------------------------

\* Every step keeps the invariant.
LEMMA StepIndInv == IndInv /\ [Next]_vars => IndInv'
<1> SUFFICES ASSUME IndInv, [Next]_vars PROVE IndInv'
  OBVIOUS
<1>1. CASE Next
  BY <1>1, SessionStep, OthersStep DEF Next
<1>2. CASE UNCHANGED vars
  <2>1. TypeOK'
    BY <1>2 DEF IndInv, TypeOK, vars
  <2>2. NoGaps' /\ Distinct' /\ HolderOnly' /\ NextIsRead' /\ StatusChosen'
    BY <1>2, NoCallMoves DEF vars, Rows
  <2> QED BY <2>1, <2>2 DEF IndInv
<1> QED BY <1>1, <1>2

\* The invariant holds throughout.
THEOREM Invariance == Spec => []IndInv
<1> QED BY InitIndInv, StepIndInv, PTL DEF Spec

(* Every variable keeps its type; in particular every day is a date.       *)
THEOREM TypeCorrect == Spec => []TypeOK
<1>1. IndInv => TypeOK
  BY DEF IndInv
<1> QED BY <1>1, Invariance, PTL

(* The UNIQUE constraint on the request number turns no submission away:   *)
(* what a session holds when it inserts is nobody's number, however many   *)
(* sessions submit at once (generate_request_number).                      *)
THEOREM NeverClashes == Spec => []NumbersNeverClash
<1>1. IndInv => NumbersNeverClash
  <2> SUFFICES ASSUME IndInv, NEW s \in Sessions, call[s].at = "insert",
                      NEW r \in Rows, row[r].year = call[s].row.year
               PROVE  row[r].number # call[s].row.number
    BY DEF NumbersNeverClash
  <2>1. row[r].number \in NumbersOf(call[s].row.year)
    BY DEF NumbersOf
  <2> QED BY <2>1 DEF IndInv, NextIsRead
<1> QED BY <1>1, Invariance, PTL

(* The numbers of a year have no holes and no repetitions.                 *)
THEOREM Consecutive == Spec => []NumbersAreConsecutive
<1>1. IndInv => NumbersAreConsecutive
  <2> SUFFICES ASSUME IndInv PROVE NumbersAreConsecutive
    OBVIOUS
  <2>1. ASSUME NEW r \in Rows, NEW n \in 1 .. Cardinality(Requests), n <= row[r].number
        PROVE  \E q \in Rows : row[q].year = row[r].year /\ row[q].number = n
    <3>1. row[r].year \in Nat
      BY DEF IndInv, TypeOK, Rows, RowType
    <3>2. PICK last \in Nat : NumbersOf(row[r].year) = 1 .. last
      BY <3>1 DEF IndInv, NoGaps
    <3>3. row[r].number \in NumbersOf(row[r].year)
      BY DEF NumbersOf
    <3>4. n \in NumbersOf(row[r].year)
      BY <2>1, <3>2, <3>3
    <3> QED BY <3>4 DEF NumbersOf
  <2> QED BY <2>1 DEF IndInv, Distinct, NumbersAreConsecutive
<1> QED BY <1>1, Invariance, PTL

(* A merchandiser can always file the month under way and the month users  *)
(* are reminded of.                                                        *)
THEOREM AlwaysEditable == Spec => []ChasedPeriodIsEditable
<1>1. IndInv => ChasedPeriodIsEditable
  BY ReminderIsEditable, CurrentIsEditable DEF IndInv, TypeOK, ChasedPeriodIsEditable
<1> QED BY <1>1, Invariance, PTL

(* The month turns on its last day, inside the window, into the month that *)
(* the window collects, and both days lie within that month's window.      *)
LEMMA TurnOfMonth ==
  ASSUME NEW t \in Date, PeriodOf(Tomorrow(t)) # PeriodOf(t)
  PROVE  /\ WindowOpen(t)
         /\ PeriodOf(Tomorrow(t)) = NextPeriod(t)
         /\ PeriodEditable(NextPeriod(t), t)
         /\ PeriodEditable(NextPeriod(t), Tomorrow(t))
<1>1. /\ t.y \in Nat /\ t.m \in 1 .. MonthsInYear /\ t.d \in 1 .. MonthLength[t.m]
      /\ MonthLength[t.m] \in Nat /\ WindowOpensOn \in Nat
      /\ WindowOpensOn <= MonthLength[t.m]
  BY CalendarAssumption DEF Date
<1>2. t.d = MonthLength[t.m]
  <2>1. SUFFICES ASSUME t.d < MonthLength[t.m] PROVE PeriodOf(Tomorrow(t)) = PeriodOf(t)
    BY <1>1
  <2>2. Tomorrow(t) = [y |-> t.y, m |-> t.m, d |-> t.d + 1]
    BY <2>1 DEF Tomorrow, Date
  <2> QED BY <2>2 DEF PeriodOf
<1>3. WindowOpen(t)
  BY <1>1, <1>2 DEF WindowOpen
<1>4. Tomorrow(t) = [y |-> NextPeriod(t).y, m |-> NextPeriod(t).m, d |-> 1]
  BY <1>1, <1>2 DEF Tomorrow
<1>5. PeriodOf(Tomorrow(t)) = NextPeriod(t)
  BY <1>4 DEF PeriodOf, NextPeriod
<1>6. PeriodEditable(NextPeriod(t), t)
  BY <1>3, ReminderIsEditable DEF ReminderPeriod
<1>7. PeriodEditable(NextPeriod(t), Tomorrow(t))
  BY <1>5, TomorrowIsADate, CurrentIsEditable
<1> QED BY <1>3, <1>5, <1>6, <1>7

(* A vertical that the turn of a month finds locked was on the page and in *)
(* the banner the day before, and open to a merchandiser on both days.     *)
THEOREM LockAnnounced == Spec => LockIsAnnounced
<1> DEFINE turned == PeriodOf(today)'
<1> DEFINE Announced ==
      turned # PeriodOf(today) /\ Locked' =>
           /\ ProjectionStatus.window_open /\ ProjectionStatus.missing
           /\ ProjectionStatus.target = turned
           /\ Reminders.pending /\ Reminders.period = turned
           /\ PeriodEditable(turned, today) /\ PeriodEditable(turned, today')
           /\ NotAfter(today', Reminders.deadline)
<1>1. ASSUME TypeOK, Next PROVE Announced
  <2>1. SUFFICES ASSUME turned # PeriodOf(today), Locked' PROVE Announced
    OBVIOUS
  <2>2. NewDay
    <3>1. today' # today
      BY <2>1 DEF PeriodOf
    <3> QED BY <1>1, <3>1 DEF Next, Session, Event, Start, Step, Submit, ReadFlag, CheckInvoice,
              TakeLock, ReadLast, Insert, StartEdit, CheckEdit, WriteEdit, StartFiling, EndFiling,
              Rollback
  <2>3. today' = Tomorrow(today) /\ filed' = filed /\ today \in Date
    BY <1>1, <2>2 DEF NewDay, TypeOK
  <2>4. /\ WindowOpen(today) /\ turned = NextPeriod(today)
        /\ PeriodEditable(turned, today) /\ PeriodEditable(turned, today')
    <3>1. turned = PeriodOf(Tomorrow(today))
      BY <2>3 DEF PeriodOf
    <3> QED BY <2>1, <2>3, <3>1, TurnOfMonth
  <2>5. Missing(turned)
    BY <2>1, <2>3 DEF Locked, Missing, PeriodOf
  <2>6. ReminderPeriod(today) = turned /\ NotAfter(today', LastDayOf(turned))
    BY <2>4 DEF ReminderPeriod, PeriodEditable
  <2> QED BY <2>4, <2>5, <2>6 DEF ProjectionStatus, Reminders
<1>2. TypeOK /\ [Next]_vars => [Announced]_vars
  BY <1>1
<1> QED BY <1>2, TypeCorrect, PTL DEF Spec, LockIsAnnounced

--------------------------------------------------------------------------------
(* The gates.  What stands in the history of a call has held since the     *)
(* call began, so what a check found false is not in it, then or later.    *)

Admitted == {"invoice", "lock", "max", "insert"}
PastInvoice == {"lock", "max", "insert"}

(* What a call's checks have found is not what its history says.           *)
Respects(c, facts) ==
  /\ c.at \in Admitted \cup {"flag"} => <<"locked">> \notin facts
  /\ c.at \in Admitted /\ <<"flagged">> \in facts => c.row.status = "pending_hom_approval"
  /\ \A q \in Requests :
       c.at \in PastInvoice \/ (c.at = "write" /\ q # c.request) => <<q, c.row.invoice>> \notin facts

HistoryInv ==
  \A s \in Sessions : standing[s] \subseteq Facts /\ Respects(call[s], standing[s])

(* A fact says what it says.                                               *)
LEMMA FactsMean ==
  /\ <<"locked">> \in Facts => Locked
  /\ <<"flagged">> \in Facts => flagged
  /\ \A q \in Requests : \A i : <<q, i>> \in Facts => i # NoInvoice /\ Holds(q, i)
<1> DEFINE held == {<<r, row[r].invoice>> : r \in {q \in Requests : Holds(q, row[q].invoice)
                                                      /\ row[q].invoice # NoInvoice}}
<1>1. Facts = (IF Locked THEN {<<"locked">>} ELSE {})
              \cup (IF flagged THEN {<<"flagged">>} ELSE {}) \cup held
  BY DEF Facts
<1>2. \A x : <<x>> \notin held
  <2> SUFFICES ASSUME NEW x, <<x>> \in held PROVE FALSE
    OBVIOUS
  <2>1. PICK r \in Requests : <<x>> = <<r, row[r].invoice>>
    OBVIOUS
  <2>2. Len(<<x>>) = 1 /\ Len(<<r, row[r].invoice>>) = 2
    OBVIOUS
  <2> QED BY <2>1, <2>2
<1>3. \A x, y, z : <<x>> # <<y, z>>
  <2> SUFFICES ASSUME NEW x, NEW y, NEW z, <<x>> = <<y, z>> PROVE FALSE
    OBVIOUS
  <2>1. Len(<<x>>) = 1 /\ Len(<<y, z>>) = 2
    OBVIOUS
  <2> QED BY <2>1
<1>4. \A q \in Requests : \A i : <<q, i>> \in held => i # NoInvoice /\ Holds(q, i)
  OBVIOUS
<1>5. <<"locked">> # <<"flagged">>
  OBVIOUS
<1> HIDE DEF held
<1>6. <<"locked">> \in Facts => Locked
  BY <1>1, <1>2, <1>5
<1>7. <<"flagged">> \in Facts => flagged
  BY <1>1, <1>2, <1>5
<1>8. \A q \in Requests : \A i : <<q, i>> \in Facts => <<q, i>> \in held
  BY <1>1, <1>3
<1> QED BY <1>4, <1>6, <1>7, <1>8

(* What is remembered is true now and was true before, and only fades.     *)
LEMMA MemoryFades ==
  ASSUME HistoryInv, Remember, NEW s \in Sessions, call'[s].at # "idle"
  PROVE  /\ standing'[s] \subseteq Facts' /\ standing'[s] \subseteq Facts
         /\ call[s].at # "idle" => standing'[s] \subseteq standing[s]
<1>1. standing'[s] = (IF call[s].at = "idle" THEN Facts ELSE standing[s]) \cap Facts'
  BY DEF Remember
<1> QED BY <1>1 DEF HistoryInv

(* A history that says less is respected too, and idle calls respect all.  *)
LEMMA LessIsRespected ==
  ASSUME NEW c, NEW facts, NEW less \in SUBSET facts, Respects(c, facts)
  PROVE  Respects(c, less)
BY DEF Respects

(* A session without a call has found nothing that could be contradicted.  *)
LEMMA IdleRespects == ASSUME NEW c, c.at = "idle", NEW facts PROVE Respects(c, facts)
BY DEF Respects, Admitted, PastInvoice

(* The history stays right when a step leaves every other call alone, and  *)
(* what this one's checks find respects the history.                       *)
LEMMA HistoryKept ==
  ASSUME HistoryInv, Remember, NEW s \in Sessions,
         \A t \in Sessions \ {s} : call'[t] = call[t],
         call'[s].at # "idle" => Respects(call'[s], standing'[s])
  PROVE  HistoryInv'
<1> SUFFICES ASSUME NEW t \in Sessions
             PROVE  standing'[t] \subseteq Facts' /\ Respects(call'[t], standing'[t])
  BY DEF HistoryInv, Respects
<1>1. CASE call'[t].at = "idle"
  BY <1>1, IdleRespects DEF Remember
<1>2. CASE call'[t].at # "idle"
  <2>1. standing'[t] \subseteq Facts'
    BY <1>2, MemoryFades
  <2>2. CASE t = s
    BY <1>2, <2>1, <2>2
  <2>3. CASE t # s
    <3>1. call'[t] = call[t] /\ standing'[t] \subseteq standing[t]
      BY <1>2, <2>3, MemoryFades
    <3>2. Respects(call[t], standing[t])
      BY DEF HistoryInv
    <3>3. Respects(call[t], standing'[t])
      BY <3>1, <3>2, LessIsRespected
    <3> QED BY <2>1, <3>1, <3>3
  <2> QED BY <2>2, <2>3
<1> QED BY <1>1, <1>2

(* The gates one after the other: each finds its fact false, or makes it   *)
(* harmless.                                                               *)
LEMMA SessionRespects ==
  ASSUME IndInv, HistoryInv, NEW s \in Sessions, Session(s), Remember
  PROVE  HistoryInv'
<1>1. /\ call \in [Sessions -> CallType] /\ call[s] \in CallType
      /\ call[s].row \in RowType
  BY DEF IndInv, TypeOK, CallType
<1>2. Respects(call[s], standing[s])
  BY DEF HistoryInv
<1>3. ASSUME NEW c, call' = [call EXCEPT ![s] = c],
             c.at # "idle" /\ standing'[s] \subseteq Facts
               /\ (call[s].at # "idle" => standing'[s] \subseteq standing[s])
               => Respects(c, standing'[s])
      PROVE  HistoryInv'
  <2>1. call'[s] = c /\ \A t \in Sessions \ {s} : call'[t] = call[t]
    BY <1>1, <1>3
  <2>2. call'[s].at # "idle" => Respects(call'[s], standing'[s])
    BY <1>3, <2>1, MemoryFades
  <2> QED BY <2>1, <2>2, HistoryKept
<1>4. ASSUME NEW r \in Requests, NEW i \in Invoices \cup {NoInvoice}, NEW o \in BOOLEAN,
             Submit(s, r, i, o)
      PROVE  HistoryInv'
  <2> DEFINE c == [Idle EXCEPT !.at = "flag", !.request = r, !.row.invoice = i, !.override = o]
  <2>1. c.at = "flag" /\ call' = [call EXCEPT ![s] = c] /\ ~Locked
    BY <1>4 DEF Submit, Start, Goto, Idle
  <2> HIDE DEF c
  <2>2. standing'[s] \subseteq Facts => Respects(c, standing'[s])
    BY <2>1, FactsMean DEF Respects, Admitted, PastInvoice
  <2> QED BY <1>3, <2>1, <2>2
<1>5. ASSUME NEW c, Start(s, c), c.at \in {"edit", "filing", "filed"} PROVE HistoryInv'
  <2>1. Respects(c, standing'[s])
    BY <1>5 DEF Respects, Admitted, PastInvoice
  <2> QED BY <1>3, <1>5, <2>1 DEF Start, Goto
<1>6. CASE ReadFlag(s)
  <2> DEFINE c == [call[s] EXCEPT !.at = "invoice",
                    !.row.status = IF flagged THEN "pending_hom_approval" ELSE "pending_payment"]
  <2>1. /\ call[s].at = "flag" /\ call' = [call EXCEPT ![s] = c] /\ c.at = "invoice"
        /\ flagged => c.row.status = "pending_hom_approval"
    BY <1>1, <1>6 DEF ReadFlag, Step, Goto, CallType, RowType
  <2> HIDE DEF c
  <2>2. standing'[s] \subseteq Facts /\ standing'[s] \subseteq standing[s] =>
          Respects(c, standing'[s])
    BY <1>2, <2>1, FactsMean DEF Respects, Admitted, PastInvoice
  <2> QED BY <1>3, <2>1, <2>2
<1>7. CASE CheckInvoice(s)
  <2> DEFINE c == [call[s] EXCEPT !.at = "lock", !.row.year = today.y]
  <2>1. /\ call[s].at = "invoice" /\ call' = [call EXCEPT ![s] = c] /\ c.at = "lock"
        /\ c.row.status = call[s].row.status /\ c.row.invoice = call[s].row.invoice
        /\ ~InUse(call[s].row.invoice, NoRequest)
    BY <1>1, <1>7 DEF CheckInvoice, Step, Goto, CallType, RowType
  <2> HIDE DEF c
  <2>2. \A q \in Requests : <<q, c.row.invoice>> \notin Facts
    BY <2>1, FactsMean, IntakeAssumption DEF InUse
  <2>3. standing'[s] \subseteq Facts /\ standing'[s] \subseteq standing[s] =>
          Respects(c, standing'[s])
    BY <1>2, <2>1, <2>2 DEF Respects, Admitted, PastInvoice
  <2> QED BY <1>3, <2>1, <2>3
<1>8. CASE TakeLock(s) \/ ReadLast(s)
  <2>1. PICK c : /\ call' = [call EXCEPT ![s] = c]
                 /\ call[s].at \in {"lock", "max"} /\ c.at \in {"max", "insert"}
                 /\ c.row.status = call[s].row.status
                 /\ c.row.invoice = call[s].row.invoice
    <3>1. CASE TakeLock(s)
      <4> DEFINE c == [call[s] EXCEPT !.at = "max"]
      <4>1. call' = [call EXCEPT ![s] = c] /\ call[s].at = "lock"
        BY <3>1 DEF TakeLock, Step, Goto
      <4>2. c.at = "max" /\ c.row = call[s].row
        BY <1>1 DEF CallType
      <4> HIDE DEF c
      <4> QED BY <4>1, <4>2
    <3>2. CASE ReadLast(s)
      <4> DEFINE number == LastNumber(call[s].row.year) + 1
                 c == [call[s] EXCEPT !.at = "insert", !.row.number = number]
      <4>1. call' = [call EXCEPT ![s] = c] /\ call[s].at = "max"
        BY <3>2 DEF ReadLast, Step, Goto
      <4> HIDE DEF number
      <4>2. /\ c.at = "insert" /\ c.row.status = call[s].row.status
            /\ c.row.invoice = call[s].row.invoice
        BY <1>1 DEF CallType, RowType
      <4> HIDE DEF c
      <4> QED BY <4>1, <4>2
    <3> QED BY <1>8, <3>1, <3>2
  <2>2. standing'[s] \subseteq standing[s] => Respects(c, standing'[s])
    BY <1>2, <2>1 DEF Respects, Admitted, PastInvoice
  <2> QED BY <1>3, <2>1, <2>2
<1>9. CASE CheckEdit(s)
  <2> DEFINE c == [call[s] EXCEPT !.at = "write"]
  <2>1. /\ call' = [call EXCEPT ![s] = c] /\ c.at = "write"
        /\ c.request = call[s].request /\ c.row.invoice = call[s].row.invoice
        /\ ~InUse(call[s].row.invoice, call[s].request)
    BY <1>1, <1>9 DEF CheckEdit, Step, Goto, CallType
  <2> HIDE DEF c
  <2>2. \A q \in Requests \ {c.request} : <<q, c.row.invoice>> \notin Facts
    BY <2>1, FactsMean DEF InUse
  <2>3. standing'[s] \subseteq Facts => Respects(c, standing'[s])
    BY <2>1, <2>2 DEF Respects, Admitted, PastInvoice
  <2> QED BY <1>3, <2>1, <2>3
<1>10. CASE Insert(s) \/ WriteEdit(s) \/ EndFiling(s) \/ Rollback(s)
  <2>1. call' = [call EXCEPT ![s] = Idle] /\ Idle.at = "idle"
    BY <1>10 DEF Insert, WriteEdit, EndFiling, Rollback, Close, Idle
  <2> QED BY <1>3, <2>1
<1>11. ASSUME NEW r \in Requests, NEW i \in Invoices \cup {NoInvoice}, StartEdit(s, r, i)
       PROVE  HistoryInv'
  <2>1. [Idle EXCEPT !.at = "edit", !.request = r, !.row.invoice = i].at = "edit"
    BY DEF Idle
  <2> QED BY <1>5, <1>11, <2>1 DEF StartEdit
<1>12. ASSUME NEW p \in Periods, NEW role \in UserRole, StartFiling(s, p, role)
       PROVE  HistoryInv'
  <2>1. [Idle EXCEPT !.at = IF p \in filed THEN "filed" ELSE "filing", !.period = p].at
          \in {"filed", "filing"}
    BY DEF Idle
  <2> QED BY <1>5, <1>12, <2>1 DEF StartFiling
<1> QED
  BY <1>4, <1>6, <1>7, <1>8, <1>9, <1>10, <1>11, <1>12 DEF Session, Rows

(* What checks have found false does not stand, whatever happens between   *)
(* the checks and the end of the call.                                     *)
THEOREM HistoryIsRespected == Spec => []HistoryInv
<1>1. Init => HistoryInv
  <2> SUFFICES ASSUME Init, NEW s \in Sessions
               PROVE  standing[s] \subseteq Facts /\ Respects(call[s], standing[s])
    BY DEF HistoryInv
  <2>1. standing[s] = {} /\ call[s].at = "idle"
    BY DEF Init, Idle
  <2> QED BY <2>1, IdleRespects
<1>2. IndInv /\ HistoryInv /\ [Next]_vars => HistoryInv'
  <2> SUFFICES ASSUME IndInv, HistoryInv, [Next]_vars PROVE HistoryInv'
    OBVIOUS
  <2>1. CASE \E s \in Sessions : Session(s) /\ Remember
    BY <2>1, SessionRespects
  <2>2. CASE call' = call /\ Remember
    <3>1. CASE Sessions = {}
      BY <3>1 DEF HistoryInv
    <3>2. ASSUME NEW s \in Sessions PROVE HistoryInv'
      <4>1. call'[s].at # "idle" => Respects(call'[s], standing'[s])
        <5> SUFFICES ASSUME call'[s].at # "idle" PROVE Respects(call'[s], standing'[s])
          OBVIOUS
        <5>1. standing'[s] \subseteq standing[s] /\ call'[s] = call[s]
          BY <2>2, MemoryFades
        <5>2. Respects(call[s], standing[s])
          BY DEF HistoryInv
        <5>3. Respects(call[s], standing'[s])
          BY <5>1, <5>2, LessIsRespected
        <5> QED BY <5>1, <5>3
      <4> QED BY <2>2, <4>1, HistoryKept
    <3> QED BY <3>1, <3>2
  <2>3. CASE UNCHANGED vars
    <3>1. Facts' = Facts /\ standing' = standing /\ call' = call
      BY <2>3 DEF vars, Facts, Locked, Missing, Holds, PeriodOf
    <3> QED BY <3>1 DEF HistoryInv, Respects
  <2> QED BY <2>1, <2>2, <2>3 DEF Next, Event, NewDay
<1> QED BY <1>1, <1>2, Invariance, PTL DEF Spec

(* A commit is the last step of the session's own call.                    *)
LEMMA CommitsMeans ==
  ASSUME IndInv, Next, NEW s \in Sessions, NEW r \in Requests,
         Commits(s, r, {"insert", "write"})
  PROVE  \/ call[s].at = "insert" /\ row'[r] = call[s].row
         \/ call[s].at = "write" /\ row'[r].invoice = call[s].row.invoice
<1>1. /\ call[s].at \in {"insert", "write"} /\ call[s].request = r
      /\ call'[s].at = "idle" /\ row'[r] # row[r]
      /\ call \in [Sessions -> CallType] /\ row \in [Requests -> RowType]
  BY DEF Commits, IndInv, TypeOK
<1>2. PICK x \in Sessions : Session(x)
  BY <1>1 DEF Next, Event, NewDay
<1>3. row' # row
  BY <1>1
<1>4. Insert(x) \/ WriteEdit(x)
  BY <1>2, <1>3 DEF Session, Submit, StartEdit, StartFiling, Start, ReadFlag, CheckInvoice,
       TakeLock, ReadLast, CheckEdit, EndFiling, Rollback
<1>5. call' = [call EXCEPT ![x] = Idle]
  BY <1>4 DEF Insert, WriteEdit, Close
<1>6. x = s
  BY <1>1, <1>5
<1>7. CASE Insert(x)
  BY <1>1, <1>6, <1>7 DEF Insert, Step
<1>8. CASE WriteEdit(x)
  <2>1. call[s].at = "write" /\ row' = [row EXCEPT ![r].invoice = call[s].row.invoice]
    BY <1>1, <1>6, <1>8 DEF WriteEdit, Step
  <2>2. row'[r].invoice = call[s].row.invoice
    BY <1>1, <2>1 DEF RowType
  <2> QED BY <2>1, <2>2
<1> QED BY <1>4, <1>7, <1>8

(* While the vertical stayed locked nothing is admitted, and while the     *)
(* supplier stayed flagged only into the HoM's hands, whatever changed     *)
(* between the two reads and the insert (assert_vertical_open,             *)
(* get_active_default_flag).                                               *)
THEOREM GatesAreKept == Spec => GatesHold
<1> DEFINE Kept ==
      \A s \in Sessions, r \in Requests : Commits(s, r, {"insert"}) =>
        /\ <<"locked">> \notin standing[s]
        /\ <<"flagged">> \in standing[s] => row'[r].status = "pending_hom_approval"
<1>1. ASSUME IndInv, HistoryInv, Next PROVE Kept
  <2> SUFFICES ASSUME NEW s \in Sessions, NEW r \in Requests, Commits(s, r, {"insert"})
               PROVE  /\ <<"locked">> \notin standing[s]
                      /\ <<"flagged">> \in standing[s] => row'[r].status = "pending_hom_approval"
    OBVIOUS
  <2>1. call[s].at = "insert" /\ Commits(s, r, {"insert", "write"})
    BY DEF Commits
  <2>2. row'[r] = call[s].row
    BY <1>1, <2>1, CommitsMeans
  <2>3. Respects(call[s], standing[s])
    BY <1>1 DEF HistoryInv
  <2> QED BY <2>1, <2>2, <2>3 DEF Respects, Admitted
<1>2. IndInv /\ HistoryInv /\ [Next]_vars => [Kept]_vars
  BY <1>1
<1> QED BY <1>2, Invariance, HistoryIsRespected, PTL DEF Spec, GatesHold

(* A number that another live request held all through a submission or a   *)
(* correction is not taken, whatever else came and went                    *)
(* (find_invoice_conflict).                                                *)
THEOREM StandingNumberStays == Spec => StandingNumberIsRefused
<1> DEFINE Refused ==
      \A s \in Sessions, r \in Requests :
        Commits(s, r, {"insert", "write"}) =>
          \A q \in Requests \ {r} : <<q, row'[r].invoice>> \notin standing[s]
<1>1. ASSUME IndInv, HistoryInv, Next PROVE Refused
  <2> SUFFICES ASSUME NEW s \in Sessions, NEW r \in Requests,
                      Commits(s, r, {"insert", "write"}), NEW q \in Requests \ {r}
               PROVE  <<q, row'[r].invoice>> \notin standing[s]
    OBVIOUS
  <2>1. call[s].request = r
    BY DEF Commits
  <2>2. /\ call[s].at \in {"insert", "write"}
        /\ row'[r].invoice = call[s].row.invoice
    BY <1>1, CommitsMeans
  <2>3. Respects(call[s], standing[s])
    BY <1>1 DEF HistoryInv
  <2> QED BY <2>1, <2>2, <2>3 DEF Respects, PastInvoice
<1>2. IndInv /\ HistoryInv /\ [Next]_vars => [Refused]_vars
  BY <1>1
<1> QED BY <1>2, Invariance, HistoryIsRespected, PTL DEF Spec, StandingNumberIsRefused

--------------------------------------------------------------------------------
(* Bank statements: recursion on the number of a row.                      *)

\* Induction up to n: a set that holds 0 and, with a number below n, the next one.
LEMMA UpTo ==
  ASSUME NEW n \in Nat, NEW T, 0 \in T, \A i \in 0 .. n - 1 : i \in T => i + 1 \in T
  PROVE  0 .. n \subseteq T
<1> SUFFICES ASSUME 0 .. n \ T # {} PROVE FALSE
  OBVIOUS
<1>1. (0 .. n) \ T \in SUBSET Nat
  OBVIOUS
<1>2. PICK x \in (0 .. n) \ T : \A y \in (0 .. n) \ T : x <= y
  BY <1>1, Smallest
<1>3. x # 0 /\ x \in Nat /\ x <= n
  BY <1>2
<1>4. x - 1 \in T
  <2>1. x - 1 \in 0 .. n /\ ~(x <= x - 1)
    BY <1>3
  <2> QED
    BY <1>2, <2>1
<1>5. x - 1 + 1 \in T
  BY <1>3, <1>4
<1> QED
  BY <1>2, <1>3, <1>5

\* A step function on numbers can be iterated: from b, n times.
LEMMA Iteration ==
  ASSUME NEW b \in Int, NEW n \in Nat, NEW step \in [Int \X (1 .. n) -> Int]
  PROVE  \E f \in [0 .. n -> Int] : f[0] = b /\ \A i \in 1 .. n : f[i] = step[<<f[i - 1], i>>]
<1> DEFINE Runs(f, k) == f[0] = b /\ \A i \in 1 .. k : f[i] = step[<<f[i - 1], i>>]
           T == {k \in 0 .. n : \E f \in [0 .. k -> Int] : Runs(f, k)}
<1>1. 0 \in T
  <2> DEFINE f == [i \in 0 .. 0 |-> b]
  <2>1. f \in [0 .. 0 -> Int] /\ Runs(f, 0)
    OBVIOUS
  <2>2. 0 \in 0 .. n
    OBVIOUS
  <2> HIDE DEF f
  <2> QED
    BY <2>1, <2>2
<1>2. ASSUME NEW k \in 0 .. n - 1, k \in T PROVE k + 1 \in T
  <2>1. PICK f \in [0 .. k -> Int] : Runs(f, k)
    BY <1>2
  <2>2. k \in Nat /\ k + 1 \in 1 .. n /\ k \in 0 .. k
    OBVIOUS
  <2>3. step[<<f[k], k + 1>>] \in Int
    BY <2>1, <2>2
  <2> DEFINE g == [i \in 0 .. k + 1 |-> IF i = k + 1 THEN step[<<f[k], k + 1>>] ELSE f[i]]
  <2>4. g \in [0 .. k + 1 -> Int]
    BY <2>1, <2>2, <2>3
  <2>5. g[0] = b
    BY <2>1, <2>2
  <2>6. ASSUME NEW i \in 1 .. k + 1 PROVE g[i] = step[<<g[i - 1], i>>]
    <3>1. CASE i = k + 1
      <4>1. g[i] = step[<<f[k], k + 1>>] /\ g[i - 1] = f[k]
        BY <2>2, <3>1
      <4> QED
        BY <3>1, <4>1
    <3>2. CASE i # k + 1
      <4>1. i \in 1 .. k /\ g[i] = f[i] /\ g[i - 1] = f[i - 1]
        BY <2>2, <3>2
      <4> QED
        BY <2>1, <4>1
    <3> QED
      BY <3>1, <3>2
  <2> HIDE DEF g
  <2>7. Runs(g, k + 1)
    BY <2>5, <2>6
  <2>8. k + 1 \in 0 .. n
    BY <2>2
  <2>9. \E f2 \in [0 .. k + 1 -> Int] : Runs(f2, k + 1)
    BY <2>4, <2>7
  <2> QED
    BY <2>8, <2>9
<1>3. n \in T
  <2> HIDE DEF T
  <2> QED
    BY <1>1, <1>2, UpTo
<1> QED
  BY <1>3

--------------------------------------------------------------------------------
\* What is printed: balances are whole cents, each the one before plus the movement.

Equation(f, b, n, moves) ==
  f = [j \in 0 .. n |-> IF j = 0 THEN b ELSE f[j - 1] + moves[j]]

\* There is a function that adds the movements one by one, built by iterating one step.
LEMMA SumsExist ==
  ASSUME NEW n \in Nat, NEW b \in Int, NEW moves, \A i \in 1 .. n : moves[i] \in Int
  PROVE  \E f : Equation(f, b, n, moves)
<1> DEFINE step == [x \in Int \X (1 .. n) |-> x[1] + moves[x[2]]]
<1>1. step \in [Int \X (1 .. n) -> Int]
  OBVIOUS
<1>2. \A a \in Int, i \in 1 .. n : step[<<a, i>>] = a + moves[i]
  OBVIOUS
<1> HIDE DEF step
<1>3. \E f \in [0 .. n -> Int] : f[0] = b /\ \A i \in 1 .. n : f[i] = step[<<f[i - 1], i>>]
  BY <1>1, Iteration
<1> PICK f \in [0 .. n -> Int] : f[0] = b /\ \A i \in 1 .. n : f[i] = step[<<f[i - 1], i>>]
  BY <1>3
<1>4. \A j \in 0 .. n : f[j] = IF j = 0 THEN b ELSE f[j - 1] + moves[j]
  <2> TAKE j \in 0 .. n
  <2>1. j # 0 => j \in 1 .. n /\ j - 1 \in 0 .. n
    OBVIOUS
  <2> QED
    BY <1>2, <1>3, <2>1
<1>5. f = [j \in 0 .. n |-> IF j = 0 THEN b ELSE f[j - 1] + moves[j]]
  BY <1>3, <1>4
<1> QED
  BY <1>5 DEF Equation

\* Such a function starts at the beginning balance and grows by one movement a row.
LEMMA EquationMeans ==
  ASSUME NEW n \in Nat, NEW b \in Int, NEW moves, \A i \in 1 .. n : moves[i] \in Int,
         NEW f, Equation(f, b, n, moves)
  PROVE  /\ f[0] = b
         /\ \A i \in 1 .. n : f[i - 1] \in Int /\ f[i] \in Int /\ f[i] = f[i - 1] + moves[i]
         /\ \A i \in 0 .. n : f[i] \in Int
<1>1. f[0] = b
  BY DEF Equation
<1>2. \A i \in 1 .. n : f[i] = f[i - 1] + moves[i]
  <2> TAKE i \in 1 .. n
  <2>1. i \in 0 .. n /\ i # 0
    OBVIOUS
  <2> QED
    BY <2>1 DEF Equation
<1> DEFINE T == {i \in 0 .. n : f[i] \in Int}
<1>3. 0 \in T
  BY <1>1
<1>4. ASSUME NEW i \in 0 .. n - 1, i \in T PROVE i + 1 \in T
  <2>1. i + 1 \in 1 .. n /\ i + 1 \in 0 .. n /\ i + 1 - 1 = i
    OBVIOUS
  <2>2. f[i + 1] = f[i] + moves[i + 1] /\ moves[i + 1] \in Int
    BY <1>2, <2>1
  <2> QED
    BY <1>4, <2>1, <2>2
<1>5. \A i \in 0 .. n : f[i] \in Int
  <2> HIDE DEF T
  <2>1. 0 .. n \subseteq T
    BY <1>3, <1>4, UpTo
  <2> QED
    BY <2>1 DEF T
<1> QED
  BY <1>1, <1>2, <1>5

\* The balances a document prints are integers, each its predecessor plus the row's movement.
LEMMA PrintedBalances ==
  ASSUME NEW doc, doc.beginning \in Int, doc.moves \in Seq(Int)
  PROVE  /\ Balance(doc, 0) = doc.beginning
         /\ \A i \in 1 .. Len(doc.moves) :
              /\ Balance(doc, i - 1) \in Int /\ Balance(doc, i) \in Int
              /\ Balance(doc, i) = Balance(doc, i - 1) + doc.moves[i]
         /\ \A i \in 0 .. Len(doc.moves) : Balance(doc, i) \in Int
<1> DEFINE n == Len(doc.moves)
           P(f) == Equation(f, doc.beginning, n, doc.moves)
           after == CHOOSE f : P(f)
<1>1. n \in Nat /\ \A i \in 1 .. n : doc.moves[i] \in Int
  OBVIOUS
<1>2. \A i : Balance(doc, i) = after[i]
  BY DEF Balance, Equation
<1>3. P(after)
  <2>1. \E f : P(f)
    BY <1>1, SumsExist
  <2> HIDE DEF P
  <2> QED
    BY <2>1
<1> HIDE DEF after, n
<1>4. /\ after[0] = doc.beginning
      /\ \A i \in 1 .. n : /\ after[i - 1] \in Int /\ after[i] \in Int
                           /\ after[i] = after[i - 1] + doc.moves[i]
      /\ \A i \in 0 .. n : after[i] \in Int
  BY <1>1, <1>3, EquationMeans
<1> QED
  BY <1>2, <1>4 DEF n

--------------------------------------------------------------------------------
\* One row, as it is printed and as it is read.

Row(move, balance) ==
  [debit |-> IF move < 0 THEN -move ELSE NoAmount,
   credit |-> IF move > 0 THEN move ELSE NoAmount,
   balance |-> balance]
Hows == {"right", "column", "blank"}

\* Nothing is moved, or more than the walk tolerates.
Moves(move) == move = 0 \/ Apart(move, 0)

\* What a misreading makes of the amount; the balance is copied right.
LEMMA MisreadMeans ==
  ASSUME NEW move \in Int, NEW balance, NEW how \in Hows
  PROVE  LET line == Misread(Row(move, balance), how)
         IN /\ line.balance = balance
            /\ Net(line) = CASE how = "right" -> move [] how = "column" -> -move [] OTHER -> 0
            /\ how = "blank" => Blank(line)
            /\ how = "column" /\ move # 0 => HasAmount(line)
            /\ Net(Swapped(line)) = -Net(line) /\ Swapped(line).balance = balance
            /\ line = [debit |-> line.debit, credit |-> line.credit, balance |-> balance]
<1> DEFINE printed == Row(move, balance)
           line == Misread(printed, how)
<1>0. NoAmount \notin Int
  BY NoAmountAssumption
<1>1. CASE how = "right"
  <2>1. line = printed
    BY <1>1 DEF Misread
  <2> QED
    BY <1>0, <1>1, <2>1 DEF Row, Net, OrZero, Swapped
<1>2. CASE how = "column"
  <2>1. line = [debit |-> printed.credit, credit |-> printed.debit, balance |-> balance]
    BY <1>2 DEF Misread, Swapped, Row
  <2> QED
    BY <1>0, <1>2, <2>1 DEF Row, Net, OrZero, Swapped, HasAmount
<1>3. CASE how = "blank"
  <2>1. line = [debit |-> NoAmount, credit |-> NoAmount, balance |-> balance]
    BY <1>3 DEF Misread, Row
  <2> QED
    BY <1>0, <1>3, <2>1 DEF Net, OrZero, Swapped, Blank
<1> QED
  BY <1>1, <1>2, <1>3 DEF Hows

\* The balances before and after a row prove its amount and its column.
LEMMA RowIsProved ==
  ASSUME NEW move \in Int, Moves(move), NEW before \in Int, NEW how \in Hows
  PROVE  LET line == Corrected(before, Misread(Row(move, before + move), how))
         IN Net(line) = move /\ line.balance = before + move
<1> DEFINE after == before + move
           line == Misread(Row(move, after), how)
<1>0. /\ after \in Int /\ NoAmount \notin Int /\ after - before = move
  BY NoAmountAssumption
<1>1. /\ line.balance = after
      /\ Net(line) = CASE how = "right" -> move [] how = "column" -> -move [] OTHER -> 0
      /\ how = "blank" => Blank(line)
      /\ how = "column" /\ move # 0 => HasAmount(line)
      /\ Net(Swapped(line)) = -Net(line) /\ Swapped(line).balance = after
      /\ line = [debit |-> line.debit, credit |-> line.credit, balance |-> after]
  BY <1>0, MisreadMeans
<1> HIDE DEF line
<1>2. Corrected(before, line) =
        IF ~Apart(move, Net(line)) THEN line
        ELSE IF ~Apart(move, -Net(line)) /\ HasAmount(line) THEN Swapped(line)
        ELSE IF Blank(line) THEN Recovered(line, move)
        ELSE line
  BY <1>0, <1>1 DEF Corrected
<1> HIDE DEF after
<1>3. CASE how = "right" \/ move = 0
  <2>1. Net(line) = move /\ ~Apart(move, Net(line))
    BY <1>1, <1>3 DEF Apart, Tolerance, Hows
  <2> QED
    BY <1>1, <1>2, <2>1 DEF after, line
<1>4. CASE how = "column" /\ move # 0
  <2>1. Net(line) = -move /\ Apart(move, Net(line)) /\ ~Apart(move, -Net(line)) /\ HasAmount(line)
    BY <1>1, <1>4 DEF Apart, Tolerance
  <2>2. Corrected(before, line) = Swapped(line)
    BY <1>2, <2>1
  <2>3. Net(Swapped(line)) = move
    BY <1>1, <2>1
  <2> QED
    BY <1>1, <2>2, <2>3 DEF after, line
<1>5. CASE how = "blank" /\ move # 0
  <2>1. Net(line) = 0 /\ Blank(line) /\ Apart(move, 0)
    BY <1>1, <1>5 DEF Moves
  <2>2. Corrected(before, line) = Recovered(line, move)
    BY <1>2, <2>1 DEF HasAmount, Blank, OrZero
  <2>3. line = [debit |-> NoAmount, credit |-> NoAmount, balance |-> after]
    BY <1>1, <2>1 DEF Blank
  <2>4. Recovered(line, move) =
          IF move > 0 THEN [debit |-> NoAmount, credit |-> move, balance |-> after]
          ELSE [debit |-> -move, credit |-> NoAmount, balance |-> after]
    BY <2>3 DEF Recovered
  <2>5. Net(Recovered(line, move)) = move /\ Recovered(line, move).balance = after
    <3>1. CASE move > 0
      BY <1>0, <2>4, <3>1 DEF Net, OrZero
    <3>2. CASE ~(move > 0)
      <4>1. Recovered(line, move) = [debit |-> -move, credit |-> NoAmount, balance |-> after]
        BY <2>4, <3>2
      <4>2. -move \in Int /\ -move # NoAmount /\ 0 - (-move) = move
        BY <1>0
      <4> QED
        BY <4>1, <4>2 DEF Net, OrZero
    <3> QED
      BY <3>1, <3>2
  <2> QED
    BY <2>2, <2>5 DEF after, line
<1> QED
  BY <1>3, <1>4, <1>5 DEF Hows

--------------------------------------------------------------------------------
\* The walk, from the opening balance as it was read.

WalkEquation(f, b, rows) ==
  f = [i \in 0 .. Len(rows) |-> IF i = 0 THEN b ELSE Carried(f[i - 1], Corrected(f[i - 1], rows[i]))]

\* Along rows that carry the printed balances, the walk is these balances.
LEMMA WalkIsPrinted ==
  ASSUME NEW rows, NEW n \in Nat, Len(rows) = n, NEW balance, NEW b,
         balance[0] = b, \A i \in 0 .. n : balance[i] \in Int,
         \A i \in 1 .. n : Corrected(balance[i - 1], rows[i]).balance = balance[i]
  PROVE  \A i \in 0 .. n : Walk(b, rows)[i] = balance[i]
<1> DEFINE P(f) == WalkEquation(f, b, rows)
           prev == CHOOSE f : P(f)
<1>0. NoAmount \notin Int
  BY NoAmountAssumption
<1>1. Walk(b, rows) = prev
  BY DEF Walk, WalkEquation
<1>2. \A i \in 1 .. n : Carried(balance[i - 1], Corrected(balance[i - 1], rows[i])) = balance[i]
  BY <1>0 DEF Carried
<1>3. P([i \in 0 .. n |-> balance[i]])
  <2> DEFINE f == [i \in 0 .. n |-> balance[i]]
  <2>1. ASSUME NEW i \in 0 .. n
        PROVE  f[i] = IF i = 0 THEN b ELSE Carried(f[i - 1], Corrected(f[i - 1], rows[i]))
    <3>1. CASE i = 0
      BY <3>1
    <3>2. CASE i # 0
      <4>1. i \in 1 .. n /\ f[i] = balance[i] /\ f[i - 1] = balance[i - 1]
        BY <3>2
      <4> QED
        BY <1>2, <3>2, <4>1
    <3> QED
      BY <3>1, <3>2
  <2>2. f = [i \in 0 .. n |-> f[i]]
    OBVIOUS
  <2> HIDE DEF f
  <2>3. f = [i \in 0 .. n |-> IF i = 0 THEN b ELSE Carried(f[i - 1], Corrected(f[i - 1], rows[i]))]
    BY <2>1, <2>2
  <2>4. P(f)
    BY <2>3 DEF WalkEquation
  <2> QED
    BY <2>4 DEF f
<1>4. P(prev)
  <2> HIDE DEF P
  <2> QED
    BY <1>3
<1> HIDE DEF prev
<1>5. /\ prev[0] = b
      /\ \A i \in 1 .. n : prev[i] = Carried(prev[i - 1], Corrected(prev[i - 1], rows[i]))
  <2>1. prev[0] = b
    BY <1>4 DEF WalkEquation
  <2>2. ASSUME NEW i \in 1 .. n
        PROVE  prev[i] = Carried(prev[i - 1], Corrected(prev[i - 1], rows[i]))
    <3>1. i \in 0 .. n /\ i # 0
      OBVIOUS
    <3> QED
      BY <1>4, <3>1 DEF WalkEquation
  <2> QED
    BY <2>1, <2>2
<1> DEFINE T == {i \in 0 .. n : prev[i] = balance[i]}
<1>6. 0 \in T
  BY <1>5
<1>7. ASSUME NEW i \in 0 .. n - 1, i \in T PROVE i + 1 \in T
  <2>1. i + 1 \in 1 .. n /\ i + 1 \in 0 .. n /\ i + 1 - 1 = i
    OBVIOUS
  <2>2. prev[i + 1] = balance[i + 1]
    BY <1>2, <1>5, <1>7, <2>1
  <2> QED
    BY <2>1, <2>2
<1>8. 0 .. n \subseteq T
  <2> HIDE DEF T
  <2> QED
    BY <1>6, <1>7, UpTo
<1> QED
  BY <1>1, <1>8

\* What a reading of a document holds.
LEMMA ReadingMeans ==
  ASSUME NEW doc, doc.beginning \in Int, doc.moves \in Seq(Int), doc.balances \in BOOLEAN,
         NEW reading \in Readings(doc)
  PROVE  /\ reading.header \in Headers(doc)
         /\ \A i \in 1 .. Len(doc.moves) : reading.how[i] \in Hows
         /\ \A i \in 1 .. Len(doc.moves) :
              RowsRead(doc, reading)[i] =
                Misread(Row(doc.moves[i], IF doc.balances THEN Balance(doc, i) ELSE NoAmount),
                        reading.how[i])
         /\ Len(RowsRead(doc, reading)) = Len(doc.moves)
         /\ DOMAIN RowsRead(doc, reading) = 1 .. Len(doc.moves)
         /\ doc.moves = [i \in 1 .. Len(doc.moves) |-> doc.moves[i]]
<1>1. DOMAIN doc.moves = 1 .. Len(doc.moves) /\ Len(doc.moves) \in Nat
      /\ doc.moves = [i \in 1 .. Len(doc.moves) |-> doc.moves[i]]
  OBVIOUS
<1>2. reading.header \in Headers(doc)
      /\ \A i \in 1 .. Len(doc.moves) : reading.how[i] \in Hows
  BY <1>1 DEF Readings, Hows
<1>3. RowsRead(doc, reading) =
        [i \in 1 .. Len(doc.moves) |->
           Misread(Row(doc.moves[i], IF doc.balances THEN Balance(doc, i) ELSE NoAmount),
                   reading.how[i])]
  BY <1>1 DEF RowsRead, PrintedRow, Row
<1>4. Len(RowsRead(doc, reading)) = Len(doc.moves)
  BY <1>1, <1>3
<1>5. \A i \in 1 .. Len(doc.moves) :
        RowsRead(doc, reading)[i] =
          Misread(Row(doc.moves[i], IF doc.balances THEN Balance(doc, i) ELSE NoAmount),
                  reading.how[i])
  BY <1>3
<1>6. DOMAIN RowsRead(doc, reading) = 1 .. Len(doc.moves)
  BY <1>3
<1> QED
  BY <1>1, <1>2, <1>4, <1>5, <1>6

\* A statement that prints its balances, and whose opening balance was read, is
\* recovered whatever was misread.
LEMMA Recovery ==
  ASSUME NEW doc, doc.beginning \in Int, doc.moves \in Seq(Int), doc.balances = TRUE,
         \A i \in 1 .. Len(doc.moves) : Moves(doc.moves[i]),
         NEW reading \in Readings(doc), reading.header.beginning # NoAmount
  PROVE  Extract(doc, reading).rows = doc.moves
<1> DEFINE n == Len(doc.moves)
           rows == RowsRead(doc, reading)
           balance == [i \in 0 .. n |-> Balance(doc, i)]
<1>1. /\ reading.header \in Headers(doc) /\ n \in Nat
      /\ \A i \in 1 .. n : reading.how[i] \in Hows /\ doc.moves[i] \in Int
      /\ \A i \in 1 .. n :
           rows[i] = Misread(Row(doc.moves[i], Balance(doc, i)), reading.how[i])
      /\ Len(rows) = n /\ DOMAIN rows = 1 .. n
      /\ doc.moves = [i \in 1 .. n |-> doc.moves[i]] /\ DOMAIN doc.moves = 1 .. n
  <2>1. doc.balances \in BOOLEAN
    OBVIOUS
  <2>2. /\ reading.header \in Headers(doc)
        /\ \A i \in 1 .. n : reading.how[i] \in Hows
        /\ \A i \in 1 .. n :
             rows[i] = Misread(Row(doc.moves[i], IF doc.balances THEN Balance(doc, i) ELSE NoAmount),
                               reading.how[i])
        /\ Len(rows) = n /\ DOMAIN rows = 1 .. n
        /\ doc.moves = [i \in 1 .. n |-> doc.moves[i]]
    BY <2>1, ReadingMeans
  <2>3. n \in Nat /\ DOMAIN doc.moves = 1 .. n /\ \A i \in 1 .. n : doc.moves[i] \in Int
    OBVIOUS
  <2>4. \A i : (IF doc.balances THEN Balance(doc, i) ELSE NoAmount) = Balance(doc, i)
    OBVIOUS
  <2> HIDE DEF n, rows
  <2> QED
    BY <2>2, <2>3, <2>4
<1>2. reading.header.beginning = doc.beginning
  BY <1>1 DEF Headers
<1>3. /\ Balance(doc, 0) = doc.beginning
      /\ \A i \in 1 .. n : /\ Balance(doc, i - 1) \in Int
                           /\ Balance(doc, i) = Balance(doc, i - 1) + doc.moves[i]
      /\ \A i \in 0 .. n : Balance(doc, i) \in Int
  BY PrintedBalances
<1> HIDE DEF n, rows
<1>4. ASSUME NEW i \in 1 .. n
      PROVE  LET line == Corrected(Balance(doc, i - 1), rows[i])
             IN Net(line) = doc.moves[i] /\ line.balance = Balance(doc, i)
  <2>1. rows[i] = Misread(Row(doc.moves[i], Balance(doc, i - 1) + doc.moves[i]), reading.how[i])
    BY <1>1, <1>3
  <2>2. Moves(doc.moves[i])
    BY DEF n
  <2>3. doc.moves[i] \in Int /\ Balance(doc, i - 1) \in Int /\ reading.how[i] \in Hows
    BY <1>1, <1>3
  <2>4. LET line == Corrected(Balance(doc, i - 1),
                             Misread(Row(doc.moves[i], Balance(doc, i - 1) + doc.moves[i]),
                                     reading.how[i]))
        IN Net(line) = doc.moves[i] /\ line.balance = Balance(doc, i - 1) + doc.moves[i]
    BY <2>2, <2>3, RowIsProved
  <2> QED
    BY <1>3, <2>1, <2>4
<1>5. \A i \in 0 .. n : balance[i] = Balance(doc, i) /\ balance[i] \in Int
  BY <1>3
<1>6. \A i \in 1 .. n : balance[i - 1] = Balance(doc, i - 1)
  BY <1>1, <1>5
<1> HIDE DEF balance
<1>7. \A i \in 0 .. n : Walk(doc.beginning, rows)[i] = balance[i]
  <2> DEFINE b == doc.beginning
  <2>1. balance[0] = b
    BY <1>1, <1>3, <1>5
  <2>2. \A i \in 1 .. n : Corrected(balance[i - 1], rows[i]).balance = balance[i]
    BY <1>1, <1>4, <1>5, <1>6
  <2>3. \A i \in 0 .. n : balance[i] \in Int
    BY <1>5
  <2>4. n \in Nat /\ Len(rows) = n
    BY <1>1
  <2> HIDE DEF b
  <2>5. \A i \in 0 .. n : Walk(b, rows)[i] = balance[i]
    BY <2>1, <2>2, <2>3, <2>4, WalkIsPrinted
  <2> QED
    BY <2>5 DEF b
<1>8. \A i \in 1 .. n : Walk(doc.beginning, rows)[i - 1] = Balance(doc, i - 1)
  BY <1>1, <1>6, <1>7
<1> DEFINE fixed == Reconciled(doc.beginning, rows)
<1>9. \A i \in 1 .. n : fixed[i] = Corrected(Balance(doc, i - 1), rows[i])
  <2> TAKE i \in 1 .. n
  <2>1. Walk(doc.beginning, rows)[i - 1] = Balance(doc, i - 1)
    BY <1>8
  <2>2. fixed[i] = Corrected(Walk(doc.beginning, rows)[i - 1], rows[i])
    BY <1>1 DEF Reconciled
  <2> QED
    BY <2>1, <2>2
<1>10. Verified(reading.header, rows).rows = fixed
  BY <1>2 DEF Verified, Beginning
<1> HIDE DEF fixed
<1>11. Extract(doc, reading).rows = [i \in 1 .. n |-> Net(fixed[i])]
  BY <1>1, <1>10 DEF Extract, rows
<1>12. \A i \in 1 .. n : Net(fixed[i]) = doc.moves[i]
  BY <1>4, <1>9
<1> QED
  BY <1>1, <1>11, <1>12

--------------------------------------------------------------------------------
\* The check: the opening balance and the net of the rows against the closing balance.

Totals(f, rows) ==
  f = [i \in 0 .. Len(rows) |-> IF i = 0 THEN 0 ELSE f[i - 1] + Net(rows[i])]

\* One wrong row shifts the net by its own error.
LEMMA OneErrorShifts ==
  ASSUME NEW rows, NEW n \in Nat, Len(rows) = n, NEW k \in 1 .. n,
         NEW balance, \A i \in 0 .. n : balance[i] \in Int,
         \A i \in 1 .. n : Net(rows[i]) \in Int,
         \A i \in 1 .. n : i # k => Net(rows[i]) = balance[i] - balance[i - 1]
  PROVE  NetOf(rows) = balance[n] - balance[0] + (Net(rows[k]) - (balance[k] - balance[k - 1]))
<1> DEFINE P(f) == Totals(f, rows)
           sum == CHOOSE f : P(f)
           net == [i \in 1 .. n |-> Net(rows[i])]
           d == Net(rows[k]) - (balance[k] - balance[k - 1])
<1>0. d \in Int /\ \A i \in 1 .. n :
        Net(rows[i]) = balance[i] - balance[i - 1] + (IF i = k THEN d ELSE 0)
  <2>1. \A i \in 1 .. n :
          balance[i] \in Int /\ balance[i - 1] \in Int /\ Net(rows[i]) \in Int
    OBVIOUS
  <2>2. d \in Int
    BY <2>1
  <2>3. ASSUME NEW i \in 1 .. n
        PROVE  Net(rows[i]) = balance[i] - balance[i - 1] + (IF i = k THEN d ELSE 0)
    <3>1. CASE i = k
      BY <2>1, <3>1
    <3>2. CASE i # k
      BY <2>1, <3>2
    <3> QED
      BY <3>1, <3>2
  <2> QED
    BY <2>2, <2>3
<1>1. NetOf(rows) = sum[n]
  BY DEF NetOf, Totals
<1>2. \A i \in 1 .. n : net[i] = Net(rows[i]) /\ Net(rows[i]) \in Int
  OBVIOUS
<1>3. \E f : P(f)
  <2> HIDE DEF net
  <2>0. \A i \in 1 .. n : net[i] \in Int
    BY <1>2
  <2> DEFINE b == 0
  <2>a. b \in Int
    OBVIOUS
  <2> HIDE DEF b
  <2>b. \E f : Equation(f, b, n, net)
    BY <2>0, <2>a, SumsExist
  <2>1. PICK f : Equation(f, 0, n, net)
    BY <2>b DEF b
  <2>2. \A i \in 0 .. n : f[i] = IF i = 0 THEN 0 ELSE f[i - 1] + Net(rows[i])
    <3> TAKE i \in 0 .. n
    <3>1. i # 0 => i \in 1 .. n
      OBVIOUS
    <3> QED
      BY <1>2, <2>1, <3>1 DEF Equation
  <2>3. f = [i \in 0 .. n |-> f[i]]
    BY <2>1 DEF Equation
  <2>4. f = [i \in 0 .. n |-> IF i = 0 THEN 0 ELSE f[i - 1] + Net(rows[i])]
    BY <2>2, <2>3
  <2> QED
    BY <2>4 DEF Totals
<1>4. P(sum)
  <2> HIDE DEF P
  <2> QED
    BY <1>3
<1> HIDE DEF sum, net, d
<1>5. sum[0] = 0 /\ \A i \in 1 .. n : sum[i] = sum[i - 1] + Net(rows[i])
  <2>1. sum[0] = 0
    BY <1>4 DEF Totals
  <2>2. ASSUME NEW i \in 1 .. n PROVE sum[i] = sum[i - 1] + Net(rows[i])
    <3>1. i \in 0 .. n /\ i # 0
      OBVIOUS
    <3> QED
      BY <1>4, <3>1 DEF Totals
  <2> QED
    BY <2>1, <2>2
<1> DEFINE T == {i \in 0 .. n : sum[i] = balance[i] - balance[0] + (IF k <= i THEN d ELSE 0)}
<1>6. 0 \in T
  <2>1. balance[0] \in Int /\ 0 \in 0 .. n /\ ~(k <= 0)
    OBVIOUS
  <2> QED
    BY <1>5, <2>1
<1>7. ASSUME NEW i \in 0 .. n - 1, i \in T PROVE i + 1 \in T
  <2>1. i + 1 \in 1 .. n /\ i + 1 \in 0 .. n /\ i + 1 - 1 = i
        /\ balance[i] \in Int /\ balance[i + 1] \in Int /\ balance[0] \in Int
    OBVIOUS
  <2>2. sum[i + 1] = sum[i] + (balance[i + 1] - balance[i] + (IF i + 1 = k THEN d ELSE 0))
    BY <1>0, <1>5, <2>1
  <2>3. sum[i] = balance[i] - balance[0] + (IF k <= i THEN d ELSE 0)
    BY <1>7
  <2>0. d \in Int
    BY <1>0
  <2>4. CASE k <= i
    <3>1. /\ sum[i + 1] = sum[i] + (balance[i + 1] - balance[i] + 0)
          /\ sum[i] = balance[i] - balance[0] + d
      BY <2>2, <2>3, <2>4
    <3>2. sum[i + 1] = balance[i + 1] - balance[0] + d
      BY <2>0, <2>1, <3>1
    <3> QED
      BY <2>1, <2>4, <3>2
  <2>5. CASE i + 1 = k
    <3>1. /\ sum[i + 1] = sum[i] + (balance[i + 1] - balance[i] + d)
          /\ sum[i] = balance[i] - balance[0] + 0
      BY <2>2, <2>3, <2>5
    <3>2. sum[i + 1] = balance[i + 1] - balance[0] + d
      BY <2>0, <2>1, <3>1
    <3> QED
      BY <2>1, <2>5, <3>2
  <2>6. CASE i + 1 < k
    <3>1. /\ sum[i + 1] = sum[i] + (balance[i + 1] - balance[i] + 0)
          /\ sum[i] = balance[i] - balance[0] + 0
      BY <2>2, <2>3, <2>6
    <3>2. sum[i + 1] = balance[i + 1] - balance[0] + 0
      BY <2>1, <3>1
    <3> QED
      BY <2>1, <2>6, <3>2
  <2> QED
    BY <2>4, <2>5, <2>6
<1>8. 0 .. n \subseteq T
  <2> HIDE DEF T
  <2> QED
    BY <1>6, <1>7, UpTo
<1>9. sum[n] = balance[n] - balance[0] + d
  BY <1>8
<1> QED
  BY <1>1, <1>9 DEF d

\* An amount in the wrong column, or left out, is off by more than the check lets pass.
LEMMA WrongAmountShows ==
  ASSUME NEW m \in Int, Moves(m), NEW net, net = -m \/ net = 0
  PROVE  net - m = 0 \/ Apart(net - m, 0)
  BY DEF Moves, Apart, Tolerance

\* On a statement without balances the rows stay as they were read, and one misread
\* row does not pass the check.
LEMMA Visibility ==
  ASSUME NEW doc, doc.beginning \in Int, doc.moves \in Seq(Int), doc.balances = FALSE,
         \A i \in 1 .. Len(doc.moves) : Moves(doc.moves[i]),
         NEW reading \in Readings(doc), reading.header.beginning # NoAmount,
         NEW k \in 1 .. Len(doc.moves),
         \A i \in 1 .. Len(doc.moves) : i # k => reading.how[i] = "right",
         Extract(doc, reading).note = "passed"
  PROVE  Extract(doc, reading).rows = doc.moves
<1> DEFINE n == Len(doc.moves)
           rows == RowsRead(doc, reading)
           balance == [i \in 0 .. n |-> Balance(doc, i)]
           d == Net(rows[k]) - doc.moves[k]
<1>1. /\ reading.header \in Headers(doc) /\ n \in Nat
      /\ \A i \in 1 .. n : reading.how[i] \in Hows /\ doc.moves[i] \in Int
      /\ \A i \in 1 .. n : rows[i] = Misread(Row(doc.moves[i], NoAmount), reading.how[i])
      /\ Len(rows) = n /\ DOMAIN rows = 1 .. n
      /\ doc.moves = [i \in 1 .. n |-> doc.moves[i]] /\ DOMAIN doc.moves = 1 .. n
  <2>1. doc.balances \in BOOLEAN
    OBVIOUS
  <2>2. /\ reading.header \in Headers(doc)
        /\ \A i \in 1 .. n : reading.how[i] \in Hows
        /\ \A i \in 1 .. n :
             rows[i] = Misread(Row(doc.moves[i], IF doc.balances THEN Balance(doc, i) ELSE NoAmount),
                               reading.how[i])
        /\ Len(rows) = n /\ DOMAIN rows = 1 .. n
        /\ doc.moves = [i \in 1 .. n |-> doc.moves[i]]
    BY <2>1, ReadingMeans
  <2>3. n \in Nat /\ DOMAIN doc.moves = 1 .. n /\ \A i \in 1 .. n : doc.moves[i] \in Int
    OBVIOUS
  <2>4. \A i : (IF doc.balances THEN Balance(doc, i) ELSE NoAmount) = NoAmount
    OBVIOUS
  <2> HIDE DEF n, rows
  <2> QED
    BY <2>2, <2>3, <2>4
<1>2. /\ Balance(doc, 0) = doc.beginning
      /\ \A i \in 1 .. n : /\ Balance(doc, i - 1) \in Int
                           /\ Balance(doc, i) = Balance(doc, i - 1) + doc.moves[i]
      /\ \A i \in 0 .. n : Balance(doc, i) \in Int
  BY PrintedBalances
<1>0. k \in 1 .. n /\ \A i \in 1 .. n : Moves(doc.moves[i]) /\ (i # k => reading.how[i] = "right")
  OBVIOUS
<1> HIDE DEF n, rows
<1>3. ASSUME NEW i \in 1 .. n
      PROVE  /\ rows[i].balance = NoAmount
             /\ Net(rows[i]) = CASE reading.how[i] = "right" -> doc.moves[i]
                                 [] reading.how[i] = "column" -> -doc.moves[i]
                                 [] OTHER -> 0
  <2>1. doc.moves[i] \in Int /\ reading.how[i] \in Hows
        /\ rows[i] = Misread(Row(doc.moves[i], NoAmount), reading.how[i])
    BY <1>1
  <2> QED
    BY <2>1, MisreadMeans
<1>4. \A i \in 1 .. n : Net(rows[i]) \in Int /\ (i # k => Net(rows[i]) = doc.moves[i])
  <2> TAKE i \in 1 .. n
  <2>1. doc.moves[i] \in Int /\ -doc.moves[i] \in Int
    BY <1>1
  <2> QED
    BY <1>0, <1>3, <2>1
<1>5. d \in Int /\ doc.moves[k] \in Int /\ Net(rows[k]) \in Int
  BY <1>0, <1>1, <1>4
<1>6. d = 0 \/ Apart(d, 0)
  <2>1. Net(rows[k]) \in {doc.moves[k], -doc.moves[k], 0}
    BY <1>0, <1>3
  <2>2. Moves(doc.moves[k])
    BY <1>0
  <2>3. CASE Net(rows[k]) = doc.moves[k]
    BY <1>5, <2>3
  <2>4. CASE Net(rows[k]) = -doc.moves[k] \/ Net(rows[k]) = 0
    BY <1>5, <2>2, <2>4, WrongAmountShows
  <2> QED
    BY <2>1, <2>3, <2>4
<1> DEFINE fixed == Reconciled(reading.header.beginning, rows)
<1>7. fixed = rows
  <2>1. \A i \in 1 .. n : \A prev : Corrected(prev, rows[i]) = rows[i]
    BY <1>3 DEF Corrected
  <2>2. fixed = [i \in 1 .. n |-> rows[i]]
    BY <1>1, <2>1 DEF Reconciled
  <2>3. rows = [i \in 1 .. n |-> rows[i]]
    BY DEF rows, RowsRead, n
  <2> QED
    BY <2>2, <2>3
<1> HIDE DEF fixed
<1>8. /\ Verified(reading.header, rows).rows = rows
      /\ Extract(doc, reading).note =
           IntegrityNote(reading.header.beginning, Ending(reading.header, rows), rows)
  BY <1>7 DEF Verified, Beginning, fixed, Extract, rows
<1>9. Extract(doc, reading).rows = [i \in 1 .. n |-> Net(rows[i])]
  BY <1>1, <1>8 DEF Extract, rows
<1>10. LastBalance(rows) = NoAmount
  <2>1. {i \in DOMAIN rows : rows[i].balance # NoAmount} = {}
    BY <1>1, <1>3
  <2> QED
    BY <2>1 DEF LastBalance
<1>11. /\ reading.header.beginning = doc.beginning
       /\ Ending(reading.header, rows) \in {NoAmount, Balance(doc, n)}
  BY <1>1, <1>10 DEF Headers, Ending, n
<1>12. /\ Ending(reading.header, rows) # NoAmount
       /\ ~Apart(doc.beginning + NetOf(rows), Balance(doc, n))
  BY <1>8, <1>11 DEF IntegrityNote
<1>13. NetOf(rows) = Balance(doc, n) - Balance(doc, 0) + d
  <2>1. \A i \in 0 .. n : balance[i] = Balance(doc, i) /\ balance[i] \in Int
    BY <1>2
  <2>2. \A i \in 1 .. n : i # k => Net(rows[i]) = balance[i] - balance[i - 1]
    <3> TAKE i \in 1 .. n
    <3>1. i \in 0 .. n /\ i - 1 \in 0 .. n
      BY <1>1
    <3>2. balance[i] = balance[i - 1] + doc.moves[i] /\ balance[i - 1] \in Int
          /\ doc.moves[i] \in Int
      BY <1>1, <1>2, <2>1, <3>1
    <3> HIDE DEF d, balance
    <3> QED
      BY <1>4, <3>2
  <2>3. /\ 0 \in 0 .. n /\ n \in 0 .. n /\ k \in 0 .. n /\ k - 1 \in 0 .. n
        /\ n \in Nat /\ Len(rows) = n
    BY <1>0, <1>1
  <2>4. \A i \in 0 .. n : balance[i] \in Int
    BY <2>1
  <2>5. \A i \in 1 .. n : Net(rows[i]) \in Int
    BY <1>4
  <2>6. balance[k] - balance[k - 1] = doc.moves[k]
    BY <1>0, <1>2, <1>5, <2>1, <2>3
  <2> HIDE DEF balance
  <2>7. n \in Nat /\ Len(rows) = n /\ k \in 1 .. n
    BY <1>0, <2>3
  <2>8. NetOf(rows) = balance[n] - balance[0] + (Net(rows[k]) - (balance[k] - balance[k - 1]))
    BY <2>2, <2>4, <2>5, <2>7, OneErrorShifts
  <2> QED
    BY <2>1, <2>3, <2>6, <2>8
<1> HIDE DEF d
<1>14. d = 0
  <2>1. Balance(doc, n) \in Int /\ doc.beginning \in Int /\ Balance(doc, 0) = doc.beginning
    BY <1>1, <1>2
  <2>2. doc.beginning + NetOf(rows) - Balance(doc, n) = d
    BY <1>5, <1>13, <2>1
  <2>3. ~Apart(d, 0)
    BY <1>5, <1>12, <1>13, <2>1, <2>2 DEF Apart
  <2> QED
    BY <1>6, <2>3
<1>15. \A i \in 1 .. n : Net(rows[i]) = doc.moves[i]
  BY <1>4, <1>5, <1>14 DEF d
<1> QED
  BY <1>1, <1>9, <1>15

--------------------------------------------------------------------------------
\* The statements and their extractions.

AnyReading == UNION {Readings(doc) : doc \in Documents}
AnyResult == UNION {{Extract(doc, reading) : reading \in Readings(doc)} : doc \in Documents}

\* A task has a document, then what was read of it, and what was made of that.
TaskOK(t) ==
  /\ t \in [at : {"queued", "reading", "writing", "done", "none"},
            doc : Documents \cup {NoDocument}, reading : AnyReading \cup {NoReading},
            result : AnyResult \cup {NoStatement}]
  /\ t.at # "none" => t.doc \in Documents
  /\ t.at \in {"writing", "done"} =>
       t.reading \in Readings(t.doc) /\ t.result = Extract(t.doc, t.reading)

\* A row is as it was uploaded, failed, or what its extraction made.
RowOK(line, t) ==
  \/ line \in {NoStatement, Processing, [Processing EXCEPT !.status = "failed"]}
  \/ t.at = "done" /\ line = t.result

BankInv ==
  /\ task = [s \in Statements |-> task[s]] /\ statement = [s \in Statements |-> statement[s]]
  /\ \A s \in Statements : TaskOK(task[s]) /\ RowOK(statement[s], task[s])
  /\ NoDuplicatePeriod

\* A step that changes one statement, to nothing or to a key that nobody has.
LEMMA OneStatement ==
  ASSUME BankInv, NEW s \in Statements, NEW line, NEW t, TaskOK(t), RowOK(line, t),
         statement' = [statement EXCEPT ![s] = line], task' = [task EXCEPT ![s] = t],
         \/ line = statement[s] \/ line = NoStatement \/ line.key = NoKey
         \/ \A o \in Statements \ {s} : statement[o] = NoStatement \/ statement[o].key # line.key
  PROVE  BankInv'
<1>1. /\ statement'[s] = line /\ task'[s] = t
      /\ \A o \in Statements \ {s} : statement'[o] = statement[o] /\ task'[o] = task[o]
      /\ task' = [o \in Statements |-> task'[o]] /\ statement' = [o \in Statements |-> statement'[o]]
  BY DEF BankInv
<1>2. \A o \in Statements : TaskOK(task'[o]) /\ RowOK(statement'[o], task'[o])
  BY <1>1 DEF BankInv
<1>3. NoDuplicatePeriod'
  <2> SUFFICES ASSUME NEW p \in Statements, NEW q \in Statements, p # q,
                      statement'[p] # NoStatement, statement'[q] # NoStatement, statement'[p].key # NoKey,
                      statement'[p].key = statement'[q].key
               PROVE  FALSE
    BY DEF NoDuplicatePeriod, Stored
  <2>1. \A a, b \in Statements :
          a # b /\ statement[a] # NoStatement /\ statement[b] # NoStatement /\ statement[a].key # NoKey
            => statement[a].key # statement[b].key
    BY DEF BankInv, NoDuplicatePeriod, Stored
  <2>2. CASE p # s /\ q # s
    BY <1>1, <2>1, <2>2
  <2>3. CASE p = s
    BY <1>1, <2>1, <2>3
  <2>4. CASE q = s
    BY <1>1, <2>1, <2>4
  <2> QED
    BY <2>2, <2>3, <2>4
<1> QED
  BY <1>1, <1>2, <1>3 DEF BankInv

\* Steps that only end tasks.
LEMMA TasksEnd ==
  ASSUME BankInv, UNCHANGED statement, task' = [s \in Statements |-> task'[s]],
         \A s \in Statements :
           task'[s] = task[s] \/ (task'[s] = NoTask /\ task[s].at # "done")
  PROVE  BankInv'
<1>1. TaskOK(NoTask)
  BY DEF TaskOK, NoTask
<1>2. \A s \in Statements : TaskOK(task'[s]) /\ RowOK(statement'[s], task'[s])
  BY <1>1 DEF BankInv, RowOK
<1>3. NoDuplicatePeriod'
  BY DEF BankInv, NoDuplicatePeriod, Stored
<1> QED
  BY <1>2, <1>3 DEF BankInv

\* Every exception leaves a row that says so, or none.
LEMMA FailKeeps ==
  ASSUME BankInv, NEW s \in Statements, Fail(s)
  PROVE  BankInv'
<1> DEFINE line == IF Stored(s) THEN Marked(s) ELSE NoStatement
<1>1. statement' = [statement EXCEPT ![s] = line] /\ task' = [task EXCEPT ![s] = NoTask]
  BY DEF Fail, End
<1>2. TaskOK(NoTask) /\ RowOK(line, NoTask) /\ (line = NoStatement \/ line.key = NoKey)
  BY DEF TaskOK, NoTask, RowOK, Marked, Processing
<1> HIDE DEF line
<1> QED
  BY <1>1, <1>2, OneStatement

\* An upload leaves a queued task of that document.
LEMMA UploadKeeps ==
  ASSUME BankInv, NEW s \in Statements, NEW doc \in Documents, Upload(s, doc)
  PROVE  BankInv'
<1> DEFINE t == [NoTask EXCEPT !.at = "queued", !.doc = doc]
<1>1. statement' = [statement EXCEPT ![s] = Processing] /\ task' = [task EXCEPT ![s] = t]
  BY DEF Upload
<1>3. TaskOK(t)
  BY DEF TaskOK, NoTask
<1>4. RowOK(Processing, t) /\ Processing.key = NoKey
  BY DEF RowOK, Processing
<1> HIDE DEF t
<1> QED
  BY <1>1, <1>3, <1>4, OneStatement

\* Deleting a statement takes the row and lets a running task go on.
LEMMA DeleteKeeps ==
  ASSUME BankInv, NEW s \in Statements, Delete(s)
  PROVE  BankInv'
<1> DEFINE t == IF task[s].at = "done" THEN NoTask ELSE task[s]
<1>1. statement' = [statement EXCEPT ![s] = NoStatement] /\ task' = [task EXCEPT ![s] = t]
  BY DEF Delete, BankInv
<1>2. TaskOK(t) /\ RowOK(NoStatement, t)
  BY DEF TaskOK, NoTask, RowOK, BankInv
<1> HIDE DEF t
<1> QED
  BY <1>1, <1>2, OneStatement

\* Taking up a task changes no statement.
LEMMA BeginKeeps ==
  ASSUME BankInv, NEW s \in Statements, Begin(s)
  PROVE  BankInv'
<1>1. task[s].at = "queued" /\ statement' = statement /\ TaskOK(task[s])
      /\ RowOK(statement[s], task[s])
  BY DEF Begin, BankInv
<1>2. CASE Stored(s)
  <2> DEFINE t == [task[s] EXCEPT !.at = "reading"]
  <2>1. task' = [task EXCEPT ![s] = t] /\ statement' = [statement EXCEPT ![s] = statement[s]]
    BY <1>1, <1>2 DEF Begin, BankInv
  <2>2. TaskOK(t) /\ RowOK(statement[s], t)
    BY <1>1 DEF TaskOK, RowOK
  <2> HIDE DEF t
  <2> QED
    BY <2>1, <2>2, OneStatement
<1>3. CASE ~Stored(s)
  BY <1>1, <1>3, TasksEnd DEF Begin, End, BankInv
<1> QED
  BY <1>2, <1>3

\* Reading a document keeps what the task knows of it true.
LEMMA ReadKeeps ==
  ASSUME BankInv, NEW s \in Statements, Read(s)
  PROVE  BankInv'
<1>1. task[s].at = "reading" /\ TaskOK(task[s]) /\ RowOK(statement[s], task[s])
  BY DEF Read, BankInv
<1>2. PICK reading \in Readings(task[s].doc) :
        IF Taken(s, reading.header.key) THEN Fail(s)
        ELSE /\ task' = [task EXCEPT ![s].at = "writing", ![s].reading = reading,
                                      ![s].result = Extracted[task[s].doc][reading]]
             /\ UNCHANGED statement
  BY DEF Read
<1>3. CASE Taken(s, reading.header.key)
  BY <1>2, <1>3, FailKeeps
<1>4. CASE ~Taken(s, reading.header.key)
  <2> DEFINE t == [task[s] EXCEPT !.at = "writing", !.reading = reading,
                                  !.result = Extracted[task[s].doc][reading]]
  <2>1. task' = [task EXCEPT ![s] = t] /\ statement' = [statement EXCEPT ![s] = statement[s]]
    BY <1>2, <1>4 DEF BankInv
  <2>2. Extracted[task[s].doc][reading] = Extract(task[s].doc, reading)
    BY <1>1, <1>2 DEF TaskOK, Extracted
  <2>3. reading \in AnyReading /\ Extract(task[s].doc, reading) \in AnyResult
    BY <1>1, <1>2 DEF TaskOK, AnyReading, AnyResult
  <2>4. TaskOK(t) /\ RowOK(statement[s], t)
    BY <1>1, <1>2, <2>2, <2>3 DEF TaskOK, RowOK
  <2> HIDE DEF t
  <2> QED
    BY <2>1, <2>4, OneStatement
<1> QED
  BY <1>3, <1>4

\* Writing the result keeps the statement what its task read.
LEMMA CommitKeeps ==
  ASSUME BankInv, NEW s \in Statements, Commit(s)
  PROVE  BankInv'
<1>1. task[s].at = "writing" /\ TaskOK(task[s])
  BY DEF Commit, BankInv
<1>2. CASE Stored(s) /\ Unique(s)
  <2> DEFINE line == task[s].result
             t == [task[s] EXCEPT !.at = "done"]
  <2>1. statement' = [statement EXCEPT ![s] = line] /\ task' = [task EXCEPT ![s] = t]
    BY <1>2 DEF Commit, BankInv
  <2>2. TaskOK(t) /\ t.at = "done" /\ line = t.result
    BY <1>1 DEF TaskOK
  <2>3. line.key = task[s].reading.header.key
    BY <1>1 DEF TaskOK, Extract
  <2>4. line.key = NoKey \/ \A o \in Statements \ {s} :
                             statement[o] = NoStatement \/ statement[o].key # line.key
    BY <1>2, <2>3 DEF Unique, Taken, HasKey, Stored
  <2> HIDE DEF line, t
  <2>5. RowOK(line, t)
    BY <2>2 DEF RowOK
  <2> QED
    BY <2>1, <2>2, <2>4, <2>5, OneStatement
<1>3. CASE ~(Stored(s) /\ Unique(s))
  BY <1>3, FailKeeps DEF Commit
<1> QED
  BY <1>2, <1>3

\* What is stored belongs to what was printed and read, and the periods are distinct.
THEOREM StatementsMatchTasks == BankSpec => []BankInv
<1>1. BankInit => BankInv
  BY DEF BankInit, BankInv, TaskOK, NoTask, RowOK, NoDuplicatePeriod, Stored
<1>2. BankInv /\ [BankNext]_bankVars => BankInv'
  <2> SUFFICES ASSUME BankInv, [BankNext]_bankVars PROVE BankInv'
    OBVIOUS
  <2>1. ASSUME NEW s \in Statements, ReadFails(s) PROVE BankInv'
    BY <2>1, FailKeeps DEF ReadFails
  <2>2. ASSUME NEW s \in Statements, SessionLost(s) PROVE BankInv'
    BY <2>2, TasksEnd DEF SessionLost, End, Running, BankInv
  <2>3. CASE Restart
    BY <2>3, TasksEnd DEF Restart, Running, BankInv
  <2>4. CASE UNCHANGED bankVars
    BY <2>4, TasksEnd DEF bankVars, BankInv
  <2> QED
    BY <2>1, <2>2, <2>3, <2>4, UploadKeeps, DeleteKeeps, BeginKeeps, ReadKeeps, CommitKeeps
       DEF BankNext, Extraction
<1> QED
  BY <1>1, <1>2, PTL DEF BankSpec

\* No two statements of one account and period are stored, however many are extracted
\* at once.
THEOREM PeriodsAreUnique == BankSpec => []NoDuplicatePeriod
<1>1. BankInv => NoDuplicatePeriod
  BY DEF BankInv
<1> QED
  BY <1>1, StatementsMatchTasks, PTL

\* No amount is a single cent: a balance within a cent of the one expected proves
\* nothing about it.
NoSingleCents == \A doc \in Documents : \A i \in 1 .. Len(doc.moves) : Moves(doc.moves[i])

\* A statement that counts as extracted is what its task made of its document.
LEMMA ExtractedMeans ==
  ASSUME BankInv, NEW s \in Statements, InDatabase(s)
  PROVE  /\ task[s].doc \in Documents /\ task[s].reading \in Readings(task[s].doc)
         /\ statement[s] = Extract(task[s].doc, task[s].reading)
<1>1. TaskOK(task[s]) /\ RowOK(statement[s], task[s])
  BY DEF BankInv
<1>2. statement[s] \notin {NoStatement, Processing, [Processing EXCEPT !.status = "failed"]}
  BY DEF InDatabase, Stored, Processing
<1> QED
  BY <1>1, <1>2 DEF TaskOK, RowOK

\* Columns and blanks are put right, however many rows were misread, on a statement
\* that prints its balances and whose opening balance was read.
THEOREM MisreadRowsAreRecovered == NoSingleCents /\ BankSpec => []ColumnsAreRecovered
<1> SUFFICES ASSUME NoSingleCents PROVE BankSpec => []ColumnsAreRecovered
  BY DEF NoSingleCents
<1>1. ASSUME BankInv PROVE ColumnsAreRecovered
  <2> SUFFICES ASSUME NEW s \in Statements, InDatabase(s), task[s].doc.balances,
                      task[s].reading.header.beginning # NoAmount
               PROVE  statement[s].rows = task[s].doc.moves
    BY DEF ColumnsAreRecovered
  <2> DEFINE doc == task[s].doc
             reading == task[s].reading
  <2>1. doc \in Documents /\ reading \in Readings(doc) /\ statement[s] = Extract(doc, reading)
    BY <1>1, ExtractedMeans
  <2>2. doc.beginning \in Int /\ doc.moves \in Seq(Int) /\ doc.balances = TRUE
        /\ \A i \in 1 .. Len(doc.moves) : Moves(doc.moves[i])
    BY <2>1, DocumentsAssumption DEF NoSingleCents
  <2>3. reading.header.beginning # NoAmount
    OBVIOUS
  <2> HIDE DEF doc, reading
  <2>4. Extract(doc, reading).rows = doc.moves
    BY <2>1, <2>2, <2>3, Recovery
  <2> QED
    BY <2>1, <2>4 DEF doc
<1> QED
  BY <1>1, StatementsMatchTasks, PTL

\* "A bad extraction is visible, not silent": with one row misread and the opening
\* balance read, either the rows come out right or the check does not pass.
THEOREM MisreadingShows == NoSingleCents /\ BankSpec => []OneErrorIsVisible
<1> SUFFICES ASSUME NoSingleCents PROVE BankSpec => []OneErrorIsVisible
  BY DEF NoSingleCents
<1>1. ASSUME BankInv PROVE OneErrorIsVisible
  <2> SUFFICES ASSUME NEW s \in Statements, InDatabase(s), statement[s].note = "passed",
                      task[s].reading.header.beginning # NoAmount,
                      Cardinality({i \in DOMAIN task[s].doc.moves :
                                     task[s].reading.how[i] # "right"}) = 1
               PROVE  statement[s].rows = task[s].doc.moves
    BY DEF OneErrorIsVisible
  <2> DEFINE doc == task[s].doc
             reading == task[s].reading
             wrong == {i \in DOMAIN doc.moves : reading.how[i] # "right"}
  <2>1. doc \in Documents /\ reading \in Readings(doc) /\ statement[s] = Extract(doc, reading)
    BY <1>1, ExtractedMeans
  <2>2. doc.beginning \in Int /\ doc.moves \in Seq(Int) /\ doc.balances \in BOOLEAN
        /\ \A i \in 1 .. Len(doc.moves) : Moves(doc.moves[i])
    BY <2>1, DocumentsAssumption DEF NoSingleCents
  <2>3. reading.header.beginning # NoAmount /\ Extract(doc, reading).note = "passed"
        /\ Cardinality(wrong) = 1
    BY <2>1
  <2> HIDE DEF doc, reading
  <2>4. DOMAIN doc.moves = 1 .. Len(doc.moves) /\ Len(doc.moves) \in Nat
    BY <2>2
  <2>5. PICK k \in 1 .. Len(doc.moves) :
          \A i \in 1 .. Len(doc.moves) : i # k => reading.how[i] = "right"
    <3>1. IsFiniteSet(1 .. Len(doc.moves))
      BY <2>4, FS_Interval
    <3>2. IsFiniteSet(wrong) /\ wrong \subseteq 1 .. Len(doc.moves)
      BY <2>4, <3>1, FS_Subset
    <3>3. PICK k : wrong = {k}
      BY <2>3, <3>2, FS_Singleton
    <3>4. k \in 1 .. Len(doc.moves)
      BY <3>2, <3>3
    <3>5. \A i \in 1 .. Len(doc.moves) : i # k => reading.how[i] = "right"
      BY <2>4, <3>3
    <3> QED
      BY <3>4, <3>5
  <2>6. CASE doc.balances = TRUE
    BY <2>1, <2>2, <2>3, <2>6, Recovery DEF doc
  <2>7. CASE doc.balances = FALSE
    <3>1. Extract(doc, reading).rows = doc.moves
      BY <2>1, <2>2, <2>3, <2>5, <2>7, Visibility
    <3> QED
      BY <2>1, <3>1 DEF doc
  <2> QED
    BY <2>2, <2>6, <2>7
<1> QED
  BY <1>1, StatementsMatchTasks, PTL

================================================================================
