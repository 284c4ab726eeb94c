---------------------------- MODULE MCRestWrites ----------------------------
(* Three POSTs under one key and two PATCHes of one transaction, in a      *)
(* household of one category, on a clock that passes the stale threshold   *)
(* and the key's expiry.                                                   *)
EXTENDS RestWrites, TLC

CONSTANTS lunch, taxi, food, one, plain

\* Two bodies that differ in whether they carry the transaction's id.
MCBody ==
  {[id |-> i, data |-> [name |-> plain, archived |-> FALSE, category |-> food]] :
     i \in {NoId, lunch}}

MCChange == {[id |-> lunch, category |-> food, name |-> plain]}

\* Bound: three POSTs run, or two PATCHes beside one POST.
InPlay ==
  \/ \A p \in Patch : patch[p].stage = "idle"
  \/ Cardinality({r \in Post : post[r].stage # "idle"}) <= 1

Symmetry == Permutations(Post) \cup Permutations(Patch)
=============================================================================
