----------------------------- MODULE MCHousehold ----------------------------
(***************************************************************************)
(* TLC instances of Household: from an empty database, and from a          *)
(* household of two - the personal household the second user has left is   *)
(* not among the ids, for nobody is in it and it has no code or invitation *)
(* that could bring anybody there.                                         *)
(***************************************************************************)
EXTENDS Household, TLC

CONSTANTS h1, u1, u2

Together ==
  /\ registered = {u1, u2}
  /\ live = {h1}
  /\ used = {h1}
  /\ member = [u \in User |->
       IF u = u1 THEN [hh |-> h1, role |-> "owner"]
       ELSE IF u = u2 THEN [hh |-> h1, role |-> "member"]
       ELSE Homeless]
  /\ inv = [i \in Invitation |-> Unsent]
  /\ code = [h \in Household |-> FALSE]
  /\ req = [s \in Session |-> Free]
  /\ admitted = [i \in Invitation |-> 0]

MCSpec == (HouseholdInit \/ Together) /\ [][HouseholdNext]_householdVars

\* The properties name no user and no household, so that what holds from
\* Together holds from every renaming of it.
Symmetric ==
  Permutations(User) \cup Permutations(Household)
    \cup Permutations(Invitation) \cup Permutations(Session)
=============================================================================
