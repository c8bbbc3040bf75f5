--------------------------- MODULE ProjectionCalendar ---------------------------
(***************************************************************************)
(* The periods of the projections: which month is collected, when it may   *)
(* be filed and which one users are reminded of.  A date is a record of    *)
(* year, month and day, a period the year and month of a date.  Years and  *)
(* months may have any length that leaves room for the window.             *)
(***************************************************************************)
EXTENDS Integers

CONSTANTS MonthsInYear,      \* 12
          MonthLength,       \* days of each month
          WindowOpensOn      \* 25

ASSUME CalendarAssumption ==
  /\ MonthsInYear \in Nat \ {0}
  /\ WindowOpensOn \in Nat \ {0}
  /\ \A m \in 1 .. MonthsInYear : MonthLength[m] \in Nat /\ WindowOpensOn <= MonthLength[m]

Date == {t \in [y : Nat, m : 1 .. MonthsInYear, d : Nat] : t.d \in 1 .. MonthLength[t.m]}

PeriodOf(t) == [y |-> t.y, m |-> t.m]

NotAfter(a, b) ==
  \/ a.y < b.y
  \/ a.y = b.y /\ a.m < b.m
  \/ a.y = b.y /\ a.m = b.m /\ a.d <= b.d

NextPeriod(t) ==
  IF t.m = MonthsInYear THEN [y |-> t.y + 1, m |-> 1] ELSE [y |-> t.y, m |-> t.m + 1]

WindowOpen(t) == t.d >= WindowOpensOn

(* The 25th of the month before the period's.                              *)
WindowOpensFor(p) ==
  IF p.m = 1 THEN [y |-> p.y - 1, m |-> MonthsInYear, d |-> WindowOpensOn]
             ELSE [y |-> p.y, m |-> p.m - 1, d |-> WindowOpensOn]

LastDayOf(p) == [y |-> p.y, m |-> p.m, d |-> MonthLength[p.m]]

(* The mutant closes the period at the end of the month before it.         *)
ClosesBefore(p, t) == NotAfter(WindowOpensFor(p), t) /\ ~NotAfter([LastDayOf(p) EXCEPT !.d = 1], t)
PeriodEditable(p, t) == NotAfter(WindowOpensFor(p), t) /\ NotAfter(t, LastDayOf(p))

ReminderPeriod(t) == IF WindowOpen(t) THEN NextPeriod(t) ELSE PeriodOf(t)

(* The day after t.                                                        *)
Tomorrow(t) ==
  IF t.d < MonthLength[t.m]
  THEN [t EXCEPT !.d = t.d + 1]
  ELSE [y |-> NextPeriod(t).y, m |-> NextPeriod(t).m, d |-> 1]

================================================================================
