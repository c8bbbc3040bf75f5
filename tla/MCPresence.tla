------------------------------- MODULE MCPresence -------------------------------
(* One super admin, who sees every place but the merchandisers' badge and  *)
(* uses the Accounts page; the users touch nothing of each other.  The     *)
(* answer to the dot holds one request.                                    *)
EXTENDS Presence, TLC

CONSTANTS admin, r1, r2, m1, s1, s2

MCRoleOf == [u \in {admin} |-> "super_admin"]
Interchangeable == Permutations({s1, s2}) \cup Permutations({r1, r2})

================================================================================
