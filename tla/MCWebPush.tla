------------------------------ MODULE MCWebPush ------------------------------
(* Two users of two households, two endpoints and one plan, on a clock that *)
(* passes the reminder of two dates in three time zones.                    *)
EXTENDS WebPush, TLC

MCZone == {-1, 1, 3}

Symmetry == Permutations(User) \cup Permutations(Household)
              \cup Permutations(Endpoint)
=============================================================================
