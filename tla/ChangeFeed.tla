----------------------------- MODULE ChangeFeed -----------------------------
(***************************************************************************)
(* What a household's change log promises to whoever pulls it: rows are    *)
(* only added, at the end, at most one for each record at a time, and each *)
(* is a legal successor of the record's previous row.  A record starts at  *)
(* version 1, each change raises its version by one, and after a tombstone *)
(* it can only start again at version 1 - once the retention job has       *)
(* removed the row.                                                        *)
(***************************************************************************)
EXTENDS Integers

CONSTANT Id
VARIABLE feed

\* Row e follows every row of S.
Follows(S, e) == \A f \in S : f.seq < e.seq

\* e is the last row of its record in S.
IsLast(S, e) == \A f \in S : f.id = e.id => f.seq <= e.seq

\* e may be the next row of its record.
LegalSuccessor(S, e) ==
  \/ /\ e.action = "upsert" /\ e.ver = 1
     /\ \A f \in S : f.id = e.id /\ IsLast(S, f) => f.action = "tombstone"
  \/ \E f \in S : /\ f.id = e.id /\ IsLast(S, f)
                  /\ f.action = "upsert"
                  /\ e.ver = f.ver + 1

Init == feed = {}

Publish ==
  LET new == feed' \ feed
  IN  /\ feed \subseteq feed'
      /\ \A e, f \in new : e.id = f.id \/ e.seq = f.seq => e = f
      /\ \A e \in new : Follows(feed, e) /\ LegalSuccessor(feed, e)

Spec == Init /\ [][Publish]_feed
=============================================================================
