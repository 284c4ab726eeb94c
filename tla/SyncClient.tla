----------------------------- MODULE SyncClient -----------------------------
(***************************************************************************)
(* The sync half of a device (packages/local-data): the outbox, the        *)
(* conflict records, the category and transaction repositories that write  *)
(* them, and what the sync engine does with a push result and with a       *)
(* pulled change.                                                          *)
(*                                                                         *)
(* Each operator is one synchronous database transaction of the code, or a *)
(* part of one, as a function of the device's database D:                  *)
(*   self  the device;  made  how many operation ids it has generated      *)
(*   row   the local rows: `version' ver, `serverVersion' sv, tombstone    *)
(*         mark and data; NoRow where there is none                        *)
(*   out   sync_outbox in creation order: a pushed operation with whether  *)
(*         it was sent (sentAt) and how often it failed (attempts, 0 or 1) *)
(*   conf  the unresolved sync_conflicts row of each record                *)
(* A row is CLEAN when ver = sv, otherwise DIRTY.                          *)
(***************************************************************************)
EXTENDS PushEngine, Sequences

NoRow == [ver |-> 0, sv |-> 0, deleted |-> FALSE, data |-> NoData]

NoConflict == [kind |-> "none", state |-> Absent, local |-> NoData]

EmptyDevice(d) ==
  [self |-> d, made |-> 0, row |-> [i \in Id |-> NoRow], out |-> <<>>,
   conf |-> [i \in Id |-> NoConflict]]

HasRow(D, i) == D.row[i].data # NoData

LiveRow(D, i) == HasRow(D, i) /\ ~ D.row[i].deleted

Clean(D, i) == D.row[i].ver = D.row[i].sv

\* The positions of a record's pending operations.
OpsOf(D, i) == {k \in DOMAIN D.out : D.out[k].id = i}

WithRow(D, i, r) == [D EXCEPT !.row[i] = r]

\* The n-th of a finite set of numbers, and a sequence with only the positions
\* K left.
Nth(K, n) == CHOOSE k \in K : Cardinality({j \in K : j <= k}) = n
Kept(s, K) == [n \in 1..Cardinality(K) |-> s[Nth(K, n)]]

-----------------------------------------------------------------------------
(* The outbox.                                                             *)

Enqueued(D, i, action, data, cascade, base) ==
  [D EXCEPT !.made = @ + 1,
            !.out = Append(@, [opId |-> <<D.self, D.made + 1>>, action |-> action,
                               id |-> i, base |-> base, data |-> data,
                               cascade |-> cascade, sent |-> FALSE, tries |-> 0])]

\* removeOperationsFor, dropOperationsFor.
DropOps(D, i) == [D EXCEPT !.out = Kept(@, DOMAIN @ \ OpsOf(D, i))]

\* Mutant: every unconfirmed record is taken for unborn.
UnbornMutant(D, i) == D.row[i].sv = 0

\* hasSentOperations on a record the server never confirmed.
Unborn(D, i) == D.row[i].sv = 0 /\ ~ \E k \in OpsOf(D, i) : D.out[k].sent

\* Mutant: a confirmation clears every operation of the record.
ConfirmedMutant(D, opId, v) ==
  IF \E k \in DOMAIN D.out : D.out[k].opId = opId
  THEN LET i == D.out[CHOOSE k \in DOMAIN D.out : D.out[k].opId = opId].id
       IN  WithRow(DropOps(D, i), i, [D.row[i] EXCEPT !.sv = v, !.ver = v])
  ELSE D

\* One confirmation of applyPushConfirmations: exactly the confirmed
\* operation leaves; the last one of the record makes it CLEAN.
Confirmed(D, opId, v) ==
  IF \E k \in DOMAIN D.out : D.out[k].opId = opId
  THEN LET i == D.out[CHOOSE k \in DOMAIN D.out : D.out[k].opId = opId].id
           E == [D EXCEPT !.out = Kept(@, {k \in DOMAIN @ : @[k].opId # opId})]
       IN  IF ~ HasRow(D, i) THEN E
           ELSE WithRow(E, i, [D.row[i] EXCEPT
                  !.sv = v, !.ver = IF OpsOf(E, i) = {} THEN v ELSE @])
  ELSE D

\* coalesceUnsentOperations: two or more unsent operations of a record
\* become the first of them, carrying the record as it now is - a delete
\* without a payload if it is a tombstone; they go if the record is gone.
Coalesced(D) ==
  LET Unsent(i) == {k \in OpsOf(D, i) : ~ D.out[k].sent}
      Merged == {k \in DOMAIN D.out :
                   ~ D.out[k].sent /\ Cardinality(Unsent(D.out[k].id)) > 1}
      Gone == {k \in Merged : \/ ~ HasRow(D, D.out[k].id)
                              \/ \E j \in Unsent(D.out[k].id) : j < k}
      Whole(o) == LET r == D.row[o.id]
                  IN  IF r.deleted
                      THEN [o EXCEPT !.action = "delete", !.data = NoData, !.cascade = FALSE]
                      ELSE [o EXCEPT !.action = "upsert", !.data = r.data, !.cascade = FALSE]
  IN  [D EXCEPT !.out = Kept([k \in DOMAIN @ |-> IF k \in Merged THEN Whole(@[k])
                                                 ELSE @[k]],
                             DOMAIN @ \ Gone)]

-----------------------------------------------------------------------------
(* The repositories: what the user does.                                   *)

\* hasDuplicateName; validateReferences of a category.
CanWrite(D, i, d) ==
  IF i \in Category
  THEN \/ LiveRow(D, i) /\ D.row[i].data.name = d.name
       \/ \A c \in Category \ {i} : LiveRow(D, c) => D.row[c].data.name # d.name
  ELSE /\ LiveRow(D, d.category)
       /\ D.row[d.category].data.archived =>
            LiveRow(D, i) /\ D.row[i].data.category = d.category

\* create: version 1, never confirmed, never archived.
LocalCreate(D, i, d) ==
  LET new == [d EXCEPT !.archived = FALSE]
  IN  Enqueued(WithRow(D, i, [ver |-> 1, sv |-> 0, deleted |-> FALSE, data |-> new]),
               i, "upsert", new, FALSE, 0)

\* update.
LocalUpdate(D, i, d) ==
  Enqueued(WithRow(D, i, [D.row[i] EXCEPT !.ver = @ + 1, !.data = d]),
           i, "upsert", d, FALSE, D.row[i].sv)

Buried(r) == [r EXCEPT !.deleted = TRUE, !.ver = @ + 1]

\* The live transactions of a category.
Referencing(D, c) ==
  {t \in Transaction : LiveRow(D, t) /\ D.row[t].data.category = c}

\* The rows R become tombstones, those of `gone' vanish, and the operations
\* of all of them go.
Swept(D, R, gone) ==
  [D EXCEPT !.row = [j \in Id |-> IF j \notin R THEN @[j]
                                  ELSE IF j \in gone THEN NoRow ELSE Buried(@[j])],
            !.out = Kept(@, {k \in DOMAIN @ : @[k].id \notin R})]

\* Mutant: an unborn record vanishes, its operations stay queued.
LocalRemoveMutant(D, i, cascade) ==
  IF Unborn(D, i) THEN WithRow(D, i, NoRow)
  ELSE Enqueued(WithRow(D, i, Buried(D.row[i])), i, "delete", NoData, cascade,
                D.row[i].sv)

\* remove: an unborn record vanishes with what refers to it; otherwise it
\* becomes a tombstone with a delete operation, and a cascade buries the
\* referencing transactions without operations of their own.
LocalRemove(D, i, cascade) ==
  LET R == IF i \in Category THEN Referencing(D, i) ELSE {}
  IN  IF Unborn(D, i) THEN Swept(D, {i} \cup R, {i} \cup R)
      ELSE LET E == Enqueued(WithRow(D, i, Buried(D.row[i])), i, "delete", NoData,
                             cascade, D.row[i].sv)
           IN  IF cascade THEN Swept(E, R, {j \in R : Unborn(D, j)}) ELSE E

-----------------------------------------------------------------------------
(* Conflict records.  `state' is the server's row as the device was told,  *)
(* `local' the edit the conflict preserves.                                *)

Recording(D, i, kind, state, local) ==
  [D EXCEPT !.conf[i] = [kind |-> kind, state |-> state, local |-> local]]

\* applyDeleteWins: the tombstone applies, the lost edit is kept.
DeleteWins(D, i, v) ==
  LET E == IF HasRow(D, i)
           THEN WithRow(D, i, [ver |-> v, sv |-> v, deleted |-> TRUE,
                               data |-> D.row[i].data])
           ELSE D
  IN  Recording(DropOps(E, i), i, "deleted",
                [ver |-> v, deleted |-> TRUE, data |-> NoData], D.row[i].data)

MaxOf(a, b) == IF a >= b THEN a ELSE b

\* applyLocalDeleteWins: the local tombstone is based on the remote edit and
\* pushed again; the remote edit is kept.
LocalDeleteWins(D, i, state) ==
  LET r == D.row[i]
      E == WithRow(D, i, [r EXCEPT !.sv = state.ver,
                                   !.ver = MaxOf(@, state.ver + 1)])
  IN  Recording(Enqueued(DropOps(E, i), i, "delete", NoData, FALSE, state.ver),
                i, "deleted", state, state.data)

Resolved(D, i) == [D EXCEPT !.conf[i] = NoConflict]

\* resolveConflictKeepLocal: the local state is pushed again, on the
\* server's version.
KeepLocal(D, i) ==
  LET v == D.conf[i].state.ver
      r == D.row[i]
      E == DropOps(D, i)
      F == WithRow(E, i, [r EXCEPT !.sv = v, !.ver = MaxOf(@, v + 1)])
  IN  Resolved(IF ~ HasRow(D, i) THEN E
               ELSE IF r.deleted THEN Enqueued(F, i, "delete", NoData, FALSE, v)
               ELSE Enqueued(F, i, "upsert", r.data, FALSE, v), i)

\* resolveConflictTakeServer: the row becomes the server's, CLEAN.
TakeServer(D, i) ==
  LET s == D.conf[i].state
      r == IF s.ver = 0 THEN NoRow
           ELSE IF s.deleted \/ s.data = NoData
           THEN [ver |-> s.ver, sv |-> s.ver, deleted |-> TRUE, data |-> D.row[i].data]
           ELSE [ver |-> s.ver, sv |-> s.ver, deleted |-> FALSE, data |-> s.data]
  IN  Resolved(DropOps(IF HasRow(D, i) THEN WithRow(D, i, r) ELSE D, i), i)
=============================================================================
