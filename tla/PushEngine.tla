----------------------------- MODULE PushEngine ----------------------------
(***************************************************************************)
(* The push engine of the server (service/sync.go, sync_engine.go, the     *)
(* category and transaction adapters, the write rules, and the sync writes *)
(* of repository/postgres/sync.go) over one household, with the retention  *)
(* job beside it.                                                          *)
(*                                                                         *)
(* A push batch runs in one database transaction under the household lock  *)
(* (ChangeLogTx), so what one operation does is a function of the          *)
(* household's committed state: Apply(s, op) is the next state and the     *)
(* answer.  The state s is a record:                                       *)
(*   rec      the row of each record; version 0 means there is no row      *)
(*   log      the change_log rows                                          *)
(*   seq      the last allocated log sequence number                       *)
(*   applied  applied_operations: the version answered, or NotApplied      *)
(*                                                                         *)
(* Two of the six entity kinds are modelled: categories, which are         *)
(* referenced, have a unique live name, an in-use guard and a cascading    *)
(* delete, and transactions, which refer to a category.                    *)
(***************************************************************************)
EXTENDS Integers, FiniteSets

CONSTANTS
  Category, Transaction,  \* record ids, by kind
  Name,                   \* category names; of a transaction, its content
  NoCategory,             \* the category reference of a category row
  NoData,                 \* no payload: an absent row, a delete
  OpId,                   \* client-generated operation ids
  MaxVersion, MaxSeq      \* bounds on base versions and on log rows

Id == Category \cup Transaction

ASSUME KindsDisjoint == Category \cap Transaction = {}
ASSUME NoCategoryAssumption == NoCategory \notin Category
ASSUME BoundsAssumption == MaxVersion \in Nat /\ MaxSeq \in Nat
ASSUME TransactionFinite == IsFiniteSet(Transaction)

NotApplied == -1

\* The payload of a record (CategoryFullState, TransactionFullState).
Payload == [name : Name, archived : BOOLEAN, category : Category \cup {NoCategory}]

ASSUME NoDataAssumption == NoData \notin Payload

PayloadOf(i) ==
  IF i \in Category
  THEN {d \in Payload : d.category = NoCategory}
  ELSE {d \in Payload : d.category \in Category /\ ~ d.archived}

\* A row: its optimistic version, its tombstone mark (deleted_at) and data.
Row == [ver : Nat, deleted : BOOLEAN, data : Payload \cup {NoData}]

Absent == [ver |-> 0, deleted |-> FALSE, data |-> NoData]

\* The operations a client can build (SyncOperation): a delete carries no
\* data but the cascade flag.
UpsertOp ==
  UNION {[opId : OpId, action : {"upsert"}, id : {i}, base : 0..MaxVersion,
          data : PayloadOf(i), cascade : {FALSE}] : i \in Id}

DeleteOp ==
  [opId : OpId, action : {"delete"}, id : Id, base : 0..MaxVersion,
   data : {NoData}, cascade : BOOLEAN]

Operation == UpsertOp \cup DeleteOp

Entry == [seq : Nat, id : Id, action : {"upsert", "tombstone"}, ver : Nat]

EmptyServer ==
  [rec |-> [i \in Id |-> Absent], log |-> {}, seq |-> 0,
   applied |-> [o \in OpId |-> NotApplied]]

-----------------------------------------------------------------------------
(* Reads.                                                                  *)

Found(s, i) == s.rec[i].ver > 0

Live(s, i) == Found(s, i) /\ ~ s.rec[i].deleted

\* Mutant: no name check.
NameTakenMutant(s, i, d) == FALSE

\* CategoryNameTaken: another live category of the household has the name.
NameTaken(s, i, d) ==
  \E c \in Category \ {i} : Live(s, c) /\ s.rec[c].data.name = d.name

\* The live transactions of a category.
Dependants(s, c) ==
  {t \in Transaction : Live(s, t) /\ s.rec[t].data.category = c}

\* Mutant: the reference is not checked against live rows.
CategoryValidMutant(s, i, d) == Found(s, d.category)

\* ValidateTransactionWrite on a transaction's category: it is live, and
\* archived only if the row already had it (prevCategoryID).
CategoryValid(s, i, d) ==
  /\ Live(s, d.category)
  /\ s.rec[d.category].data.archived =>
       Live(s, i) /\ s.rec[i].data.category = d.category

-----------------------------------------------------------------------------
(* Answers (domain.SyncPushResult) and outcomes.                           *)

AppliedAnswer(v) ==
  [status |-> "applied", code |-> "", ver |-> v, state |-> Absent]

\* conflictResult with serverStateOf: the row, without data for a tombstone.
ConflictAnswer(s, i, code) ==
  [status |-> "conflict", code |-> code, ver |-> 0,
   state |-> IF Live(s, i) THEN s.rec[i] ELSE [s.rec[i] EXCEPT !.data = NoData]]

ErrorAnswer == [status |-> "error", code |-> "", ver |-> 0, state |-> Absent]

Outcome(s, answer) == [srv |-> s, answer |-> answer]

\* Mutant: the write appends no log row.
LoggedMutant(s, i, r) ==
  [rec |-> [s.rec EXCEPT ![i] = r], log |-> s.log, seq |-> s.seq,
   applied |-> s.applied]

\* A row write with its change_log row (appendChangeLog).
Logged(s, i, r) ==
  [rec |-> [s.rec EXCEPT ![i] = r],
   log |-> s.log \cup {[seq |-> s.seq + 1, id |-> i, ver |-> r.ver,
                       action |-> IF r.deleted THEN "tombstone" ELSE "upsert"]},
   seq |-> s.seq + 1,
   applied |-> s.applied]

-----------------------------------------------------------------------------
(* Upserts.                                                                *)

\* The INSERT of a create.  CreateCategory is not given archived_at, so a
\* category is created active.
CreatedData(i, d) == IF i \in Category THEN [d EXCEPT !.archived = FALSE] ELSE d

\* createSyncEntity.  The id of an orphaned household (AdoptOrphanedID) is
\* not modelled: the household is the only one.
Create(s, op) ==
  IF Found(s, op.id)
  THEN Outcome(s, ConflictAnswer(s, op.id, "SYNC_ALREADY_EXISTS"))
  ELSE Outcome(Logged(s, op.id, [ver |-> 1, deleted |-> FALSE,
                                 data |-> CreatedData(op.id, op.data)]),
               AppliedAnswer(1))

\* Mutant: an update revives a tombstone of the version it was based on.
UpdateMutant(s, op) ==
  IF s.rec[op.id].ver # op.base
  THEN Outcome(s, ConflictAnswer(s, op.id, "SYNC_VERSION_CONFLICT"))
  ELSE Outcome(Logged(s, op.id, [ver |-> op.base + 1, deleted |-> FALSE,
                                 data |-> op.data]),
               AppliedAnswer(op.base + 1))

\* updateSyncEntity: compare-and-set on the base version of a live row.
Update(s, op) ==
  IF ~ Found(s, op.id)
  THEN Outcome(s, ConflictAnswer(s, op.id, "SYNC_VERSION_CONFLICT"))
  ELSE IF s.rec[op.id].deleted
  THEN Outcome(s, ConflictAnswer(s, op.id, "SYNC_DELETED_CONFLICT"))
  ELSE IF s.rec[op.id].ver # op.base
  THEN Outcome(s, ConflictAnswer(s, op.id, "SYNC_VERSION_CONFLICT"))
  ELSE Outcome(Logged(s, op.id, [ver |-> op.base + 1, deleted |-> FALSE,
                                 data |-> op.data]),
               AppliedAnswer(op.base + 1))

\* The upsert half of applySyncEntity: preValidate, postReadValidate, then
\* the base-0 or the update branch.
Upsert(s, op) ==
  IF op.id \in Category /\ NameTaken(s, op.id, op.data)
  THEN Outcome(s, ErrorAnswer)
  ELSE IF op.id \in Transaction /\ ~ CategoryValid(s, op.id, op.data)
  THEN Outcome(s, ErrorAnswer)
  ELSE IF op.base = 0 THEN Create(s, op) ELSE Update(s, op)

-----------------------------------------------------------------------------
(* Deletes.                                                                *)

\* TombstoneX: the row keeps its data; its version rises.
Tombstoned(s, i) ==
  [ver |-> s.rec[i].ver + 1, deleted |-> TRUE, data |-> s.rec[i].data]

\* The order in which UPDATE ... RETURNING lists the cascaded rows.
Orders ==
  {f \in [Transaction -> 1..Cardinality(Transaction)] :
     \A t, u \in Transaction : f[t] = f[u] => t = u}

\* SoftDeleteTransactionsForCategory: every live transaction of category c
\* becomes a tombstone with a log row of its own.
Cascaded(s, c, order) ==
  LET D == Dependants(s, c)
  IN  [rec |-> [i \in Id |-> IF i \in D THEN Tombstoned(s, i) ELSE s.rec[i]],
       log |-> s.log \cup {[seq |-> s.seq + order[t], id |-> t,
                           action |-> "tombstone",
                           ver |-> s.rec[t].ver + 1] : t \in D},
       seq |-> s.seq + Cardinality(Transaction),
       applied |-> s.applied]

\* inUseBlocked: a plain delete of a category with live transactions.
InUse(s, op) ==
  op.id \in Category /\ ~ op.cascade /\ Dependants(s, op.id) # {}

\* deleteSyncEntity: idempotent on missing rows and tombstones.
Delete(s, op, order) ==
  IF ~ Found(s, op.id) THEN Outcome(s, AppliedAnswer(0))
  ELSE IF s.rec[op.id].deleted
  THEN Outcome(s, AppliedAnswer(s.rec[op.id].ver))
  ELSE IF InUse(s, op) THEN Outcome(s, ErrorAnswer)
  ELSE LET d == Logged(s, op.id, Tombstoned(s, op.id))
       IN  Outcome(IF op.id \in Category /\ op.cascade
                   THEN Cascaded(d, op.id, order) ELSE d,
                   AppliedAnswer(s.rec[op.id].ver + 1))

-----------------------------------------------------------------------------
(* One operation of a batch.                                               *)

\* applySyncEntity: dispatch on the action.
Perform(s, op, order) ==
  IF op.action = "delete" THEN Delete(s, op, order) ELSE Upsert(s, op)

\* InsertAppliedOperation.
Recorded(s, o, v) ==
  [rec |-> s.rec, log |-> s.log, seq |-> s.seq,
   applied |-> [s.applied EXCEPT ![o] = v]]

\* Mutant: the stored answer is not consulted.
ApplyMutant(s, op, order) ==
  LET o == Perform(s, op, order)
  IN  IF o.answer.status = "applied"
      THEN Outcome(Recorded(o.srv, op.opId, o.answer.ver), o.answer)
      ELSE o

\* applySyncOperation: an applied opId replays its stored answer; else the
\* operation is applied, and recorded if it was applied.
Apply(s, op, order) ==
  IF s.applied[op.opId] # NotApplied
  THEN Outcome(s, AppliedAnswer(s.applied[op.opId]))
  ELSE LET o == Perform(s, op, order)
       IN  IF o.answer.status = "applied"
           THEN Outcome(Recorded(o.srv, op.opId, o.answer.ver), o.answer)
           ELSE o

-----------------------------------------------------------------------------
(* The retention job (jobs/retention, queries/retention.sql): hard deletes *)
(* of old tombstones; the log keeps its rows.                              *)

\* Mutant: the purge does not ask for tombstones.
PurgeableMutant(s, D) == \A i \in D : Found(s, i)

\* D is a set of tombstones no remaining row refers to: the foreign key of
\* transactions.category_id makes the whole statement fail otherwise.
Purgeable(s, D) ==
  /\ \A i \in D : Found(s, i) /\ s.rec[i].deleted
  /\ \A t \in Transaction \ D : Found(s, t) => s.rec[t].data.category \notin D

Purged(s, D) ==
  [rec |-> [i \in Id |-> IF i \in D THEN Absent ELSE s.rec[i]],
   log |-> s.log, seq |-> s.seq, applied |-> s.applied]
=============================================================================
