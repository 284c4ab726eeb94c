----------------------------- MODULE TrataClaims ----------------------------
(***************************************************************************)
(* What comments of the code say of the devices and the server, stated of  *)
(* TrataSync.  TLC finds each of them violated: the code does otherwise.   *)
(***************************************************************************)
EXTENDS TrataSync

\* "The single flagged category delete covers them server-side"
\* (repositories/category.ts, remove): a transaction that a cascade buried
\* without an operation of its own is gone from the server, or a flagged
\* delete of its category is pending.
CascadeCovered ==
  \A d \in Device, t \in Transaction :
    LET r == dev[d].row[t]
    IN  r.deleted /\ ~ Clean(dev[d], t) /\ ~ Pending(d, t) =>
          \/ ~ Live(srv, t)
          \/ \E k \in OpsOf(dev[d], r.data.category) : dev[d].out[k].cascade

\* "Born transactions cannot exist for an unborn category, so a local cascade
\* just wipes the same unborn rows" (repositories/category.ts, remove): a row
\* that vanishes is one the server never heard of.
WipedRowsUnborn ==
  [][\A d \in Device, t \in Transaction :
       HasRow(dev[d], t) /\ ~ HasRow(dev'[d], t) => Unborn(dev[d], t)]_vars
=============================================================================
