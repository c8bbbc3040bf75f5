----------------------------- MODULE MCFileRemarks -----------------------------
(***************************************************************************)
(* Values of the constants of FileRemarks for the runs.                    *)
(***************************************************************************)
EXTENDS FileRemarks, TLC

CONSTANTS s1, s2, r1, r2, r3, r4, f0, f1, f2, f3

Moving(f, x) == [Nothing EXCEPT ![f] = x]
MCSplits == {Moving(f1, 2), Moving(f2, 1), [Moving(f1, 1) EXCEPT ![f3] = 1]}

================================================================================
