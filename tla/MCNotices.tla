------------------------------- MODULE MCNotices -------------------------------
(* Values for checking Notices with TLC: one user of each role that the    *)
(* notices tell apart.  A behaviour is about requests or about items: they *)
(* meet in the queue of the tasks only.                                    *)
EXTENDS Notices

CONSTANTS m, a, h, s

Roles == [u \in {m, a, h, s} |->
            CASE u = m -> "merchandiser" [] u = a -> "accounts_team"
              [] u = h -> "head_of_merchandiser" [] u = s -> "super_admin"]

Untouched ==
  \A r \in Requests :
    /\ origin[r] = "user" /\ status[r] = "none" /\ ~tt[r]
    /\ \A n \in Num : tranche[r][n] = "none"

Apart == (\A i \in Items : item'[i].state = "none") \/ Untouched'

MCSpec == Init /\ [][Next /\ Apart]_vars /\ Fairness

================================================================================
