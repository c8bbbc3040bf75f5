--------------------------- MODULE MCTrancheLifecycle ---------------------------
(***************************************************************************)
(* Values of the constants of TrancheLifecycle and Outstanding.            *)
(***************************************************************************)
EXTENDS Outstanding

OneEdit == {[status |-> "other", fields |-> "complete", shipped |-> FALSE]}
NoEdits == {}

================================================================================
