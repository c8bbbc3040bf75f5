----------------------------- MODULE MCAdjustments -----------------------------
(***************************************************************************)
(* Values of the constants of Adjustments for the runs: a tranche on each  *)
(* of two requests of one supplier.                                        *)
(***************************************************************************)
EXTENDS Adjustments, TLC

CONSTANTS t1, t2, a1, a2, s1, s2, r1, r2

Alike == Permutations({s1, s2}) \cup Permutations({a1, a2})
MCRequestOf == t1 :> r1 @@ t2 :> r2
MCSupplierOf == r1 :> "supplier" @@ r2 :> "supplier"
MCAmountOf == t1 :> 3 @@ t2 :> 2

================================================================================
