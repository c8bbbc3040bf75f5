-------------------------- MODULE MCTrancheConcurrency --------------------------
(***************************************************************************)
(* Values of the constants of TrancheConcurrency for the runs.             *)
(***************************************************************************)
EXTENDS TrancheConcurrency, TLC

CONSTANTS s1, s2
Two == {s1, s2}
Alike == Permutations(Two)

AllButBulk == {"pay", "edit", "add", "delete", "reject", "cancel", "details",
               "transition"}
AuthorTargets == {"hold_by_merchandiser", "pending_payment",
                  "cancelled_by_merchandiser"}
NoTargets == {}

================================================================================
