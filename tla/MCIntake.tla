-------------------------------- MODULE MCIntake --------------------------------
(* Intake over a year of two months of three days, the window opening on   *)
(* the second; the story begins near the end of a month or of the year.    *)
EXTENDS Intake, TLC

ShortMonths == [m \in 1 .. 2 |-> 3]
MonthEnds == {[y |-> 1, m |-> 1, d |-> 3], [y |-> 1, m |-> 2, d |-> 3]}

Interchangeable == Permutations(Sessions) \cup Permutations(Requests)

================================================================================
