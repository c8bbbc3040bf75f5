------------------------------ MODULE MCSnapshots ------------------------------
(***************************************************************************)
(* Values of the constants of Snapshots and Dashboards for the runs: two   *)
(* requests, each of a supplier of its own.                                *)
(***************************************************************************)
EXTENDS Dashboards, TLC

CONSTANTS r1, r2, u1, u2

OneEach == r1 :> u1 @@ r2 :> u2
(* One request to be paid and one the tracker brought in.                  *)
MCInit ==
  /\ Init
  /\ request[r1].status = "pending" /\ request[r1].etd = 0
  /\ request[r2].status = "processed" /\ request[r2].etd = 0

MCSpec == MCInit /\ [][Next]_vars /\ Fairness

OneEdge == <<2>>

================================================================================
