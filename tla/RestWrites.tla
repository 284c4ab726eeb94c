----------------------------- MODULE RestWrites -----------------------------
(***************************************************************************)
(* The REST surface beside the sync protocol: POST, PATCH and DELETE of    *)
(* transactions and the writes of categories, over the rows and the log of *)
(* PushEngine, with the idempotency middleware in front of the POST        *)
(* (transport/http/middleware/idempotency.go) and the cleanup job behind   *)
(* it.                                                                     *)
(*                                                                         *)
(* A REST write runs in one transaction under the household lock           *)
(* (withinLockedTx); what precedes it does not: the idempotency key, the   *)
(* read of the current row and the reads of what it refers to are          *)
(* statements of their own, so a request is a small process.  It may stop  *)
(* between any two of them (the client hangs up and the context is         *)
(* cancelled, or the server stops): no step is ever forced, so a request   *)
(* that stopped is one that takes no further step.                         *)
(***************************************************************************)
EXTENDS PushEngine

CONSTANTS
  Post, Patch,   \* POST and PATCH requests
  Key,           \* values of the Idempotency-Key header of one user
  Body,          \* bodies of a POST: a transaction, and its id if it has one
  Change,        \* bodies of a PATCH: the fields of a transaction it sets
  NoId,          \* a body without a client-generated id; no transaction
  Stale, Ttl,    \* pendingStaleThreshold and idempotencyKeyTTL
  MaxTime        \* bound on the clock

ASSUME NoIdAssumption == NoId \notin Transaction
ASSUME BodyAssumption ==
  Body \subseteq [id : Transaction \cup {NoId},
                  data : {d \in Payload : d.category \in Category /\ ~ d.archived}]
ASSUME ChangeAssumption ==
  Change \subseteq [id : Transaction, category : Category \cup {NoCategory},
                    name : Name]
ASSUME TimesAssumption ==
  Stale \in Nat /\ Ttl \in Nat /\ MaxTime \in Nat /\ Stale < Ttl

VARIABLES
  srv,    \* the household (PushEngine)
  keys,   \* the rows of idempotency_keys
  post,   \* the POST requests
  patch,  \* the PATCH requests
  now     \* the clock

vars == <<srv, keys, post, patch, now>>

\* A row of idempotency_keys; `by', the request that created it, is its id.
KeyRow ==
  [by : Post, key : Key, body : Body, created : Nat,
   status : {"pending", "completed", "failed"}, tx : Transaction \cup {NoId}]

\* A POST: the time its key row was created, the key row it is to delete,
\* the transaction it committed and the answer the client was given.
PostState ==
  [stage : {"idle", "clash", "drop", "check", "insert", "persist", "done"},
   key : Key, body : Body, at : Nat, target : Post,
   tx : Transaction \cup {NoId},
   answer : {"none", "created", "replayed", "in_use", "mismatch", "rejected",
             "failed"},
   told : Transaction \cup {NoId}]

\* A PATCH: the fields and the version the client sent (NoCategory leaves the
\* category as it is) and the current row the service read.
PatchState ==
  [stage : {"idle", "check", "write", "done"}, to : Change, version : Nat,
   seen : Row, answer : {"none", "updated", "rejected"}]

\* What the requests carry is chosen beforehand, when they run is not.
Init ==
  /\ srv = EmptyServer
  /\ keys = {}
  /\ \E k \in [Post -> Key], b \in [Post -> Body] :
       post = [q \in Post |-> [stage |-> "idle", key |-> k[q], body |-> b[q],
                 at |-> 0, target |-> q, tx |-> NoId, answer |-> "none",
                 told |-> NoId]]
  /\ \E c \in [Patch -> Change] :
       patch = [p \in Patch |-> [stage |-> "idle", to |-> c[p], version |-> 0,
                  seen |-> Absent, answer |-> "none"]]
  /\ now = 0

Answered(r, stage, answer, told) ==
  post' = [post EXCEPT ![r].stage = stage, ![r].answer = answer, ![r].told = told]

\* The log has room for one more write.
Room == srv.seq + 1 + Cardinality(Transaction) <= MaxSeq

-----------------------------------------------------------------------------
(* The idempotency middleware.                                             *)

\* The unique (user_id, idempotency_key) index.
Taken(r) == \E k \in keys : k.key = post[r].key

\* CreateIdempotencyKey.
Register(r) ==
  /\ post[r].stage = "idle"
  /\ IF Taken(r)
     THEN /\ post' = [post EXCEPT ![r].stage = "clash"]
          /\ UNCHANGED keys
     ELSE /\ keys' = keys \cup
               {[by |-> r, key |-> post[r].key, body |-> post[r].body,
                 created |-> now, status |-> "pending", tx |-> NoId]}
          /\ post' = [post EXCEPT ![r].stage = "check", ![r].at = now]
  /\ UNCHANGED <<srv, patch, now>>

Expired(k) == k.created + Ttl < now

\* Mutant: the threshold is not waited out.
PendingStaleMutant(k) == now >= k.created

\* isPendingStale.
PendingStale(k) == now - k.created > Stale

SameBody(r, k) == k.body = post[r].body

\* GetByUserAndKey and dispatchExisting: a row that is expired, failed or
\* pending for too long is to be deleted (and the client told to try again);
\* a completed one is replayed to the same body.
Dispatch(r) ==
  /\ post[r].stage = "clash"
  /\ \/ /\ ~ Taken(r)
        /\ Answered(r, "done", "in_use", NoId)
     \/ \E k \in keys :
          /\ k.key = post[r].key
          /\ IF \/ Expired(k) \/ k.status = "failed"
                \/ k.status = "pending" /\ PendingStale(k)
             THEN post' = [post EXCEPT ![r].stage = "drop", ![r].target = k.by]
             ELSE IF k.status = "pending"
             THEN Answered(r, "done", "in_use", NoId)
             ELSE IF SameBody(r, k)
             THEN Answered(r, "done", "replayed", k.tx)
             ELSE Answered(r, "done", "mismatch", NoId)
  /\ UNCHANGED <<srv, keys, patch, now>>

\* DeleteIdempotencyKey, by the id of the row that was read.
Dropped(r) == {k \in keys : k.by # post[r].target}

Drop(r) ==
  /\ post[r].stage = "drop"
  /\ keys' = Dropped(r)
  /\ post' = [post EXCEPT ![r].stage = "done", ![r].target = r,
                          ![r].answer = "in_use"]
  /\ UNCHANGED <<srv, patch, now>>

\* Mutant: the answer goes to whatever row has the key.
PersistedMutant(r) ==
  {IF k.key = post[r].key
   THEN [k EXCEPT !.tx = post[r].told,
                  !.status = IF post[r].answer = "created"
                             THEN "completed" ELSE "failed"]
   ELSE k : k \in keys}

\* UpdateIdempotencyKey, by the id of the row the request created.
Persisted(r) ==
  {IF k.by = r
   THEN [k EXCEPT !.tx = post[r].told,
                  !.status = IF post[r].answer = "created"
                             THEN "completed" ELSE "failed"]
   ELSE k : k \in keys}

\* persistResponse, after the client has its answer.
Persist(r) ==
  /\ post[r].stage = "persist"
  /\ keys' = Persisted(r)
  /\ post' = [post EXCEPT ![r].stage = "done"]
  /\ UNCHANGED <<srv, patch, now>>

-----------------------------------------------------------------------------
(* Creating a transaction (TransactionService.Create).                     *)

\* validateCashflowWriteRefs: the category is live, and archived only if the
\* record already has it.
RefValid(c, prev) ==
  Live(srv, c) /\ (srv.rec[c].data.archived => prev = c)

\* ValidateTransactionWrite, by reads that hold no lock.
CheckPost(r) ==
  /\ post[r].stage = "check"
  /\ IF RefValid(post[r].body.data.category, NoCategory)
     THEN post' = [post EXCEPT ![r].stage = "insert"]
     ELSE Answered(r, "persist", "rejected", NoId)
  /\ UNCHANGED <<srv, keys, patch, now>>

\* newEntityID: the id the client generated, or one never used.
IdsFor(b) ==
  IF b.id # NoId THEN {b.id}
  ELSE {t \in Transaction : /\ \A e \in srv.log : e.id # t
                            /\ \A c \in Body : c.id # t}

\* CreateTransaction under the household lock.  The answer may be an error
\* although the commit went through (its acknowledgement was lost), and the
\* database may fail before it.
Insert(r) ==
  /\ post[r].stage = "insert"
  /\ Room
  /\ \/ \E t \in IdsFor(post[r].body) :
          IF Found(srv, t)
          THEN Answered(r, "persist", "rejected", NoId) /\ UNCHANGED srv
          ELSE /\ srv' = Logged(srv, t, [ver |-> 1, deleted |-> FALSE,
                                         data |-> post[r].body.data])
               /\ \E ack \in BOOLEAN :
                    post' = [post EXCEPT
                      ![r].stage = "persist", ![r].tx = t,
                      ![r].answer = IF ack THEN "created" ELSE "failed",
                      ![r].told = IF ack THEN t ELSE NoId]
     \/ Answered(r, "persist", "failed", NoId) /\ UNCHANGED srv
  /\ UNCHANGED <<keys, patch, now>>

-----------------------------------------------------------------------------
(* Updating a transaction (TransactionService.Update).                     *)

\* GetTransaction.  The client sends a version it has read.
Start(p) ==
  /\ patch[p].stage = "idle"
  /\ IF Live(srv, patch[p].to.id)
     THEN \E v \in 1..srv.rec[patch[p].to.id].ver :
            patch' = [patch EXCEPT ![p].stage = "check", ![p].version = v,
                                   ![p].seen = srv.rec[patch[p].to.id]]
     ELSE patch' = [patch EXCEPT ![p].stage = "done", ![p].answer = "rejected"]
  /\ UNCHANGED <<srv, keys, post, now>>

\* The row with the patch applied.
Effective(p, d) ==
  IF patch[p].to.category = NoCategory THEN [d EXCEPT !.name = patch[p].to.name]
  ELSE [d EXCEPT !.category = patch[p].to.category]

\* ValidateTransactionWrite on the effective state.
CheckPatch(p) ==
  /\ patch[p].stage = "check"
  /\ IF RefValid(Effective(p, patch[p].seen.data).category,
                 patch[p].seen.data.category)
     THEN patch' = [patch EXCEPT ![p].stage = "write"]
     ELSE patch' = [patch EXCEPT ![p].stage = "done", ![p].answer = "rejected"]
  /\ UNCHANGED <<srv, keys, post, now>>

\* Mutant: the version is not compared.
WritesMutant(p) == Live(srv, patch[p].to.id)

\* The WHERE clause of UpdateTransaction.
Writes(p) ==
  /\ Live(srv, patch[p].to.id)
  /\ srv.rec[patch[p].to.id].ver = patch[p].version

\* UpdateTransaction under the household lock.
Write(p) ==
  /\ patch[p].stage = "write"
  /\ Room
  /\ IF Writes(p)
     THEN LET r == srv.rec[patch[p].to.id]
          IN  /\ srv' = Logged(srv, patch[p].to.id,
                          [ver |-> r.ver + 1, deleted |-> FALSE,
                           data |-> Effective(p, r.data)])
              /\ patch' = [patch EXCEPT ![p].stage = "done",
                                        ![p].answer = "updated"]
     ELSE /\ patch' = [patch EXCEPT ![p].stage = "done", ![p].answer = "rejected"]
          /\ UNCHANGED srv
  /\ UNCHANGED <<keys, post, now>>

-----------------------------------------------------------------------------
(* Writes that are one transaction from the first read on.  Those that are *)
(* refused change nothing and are not steps.                               *)

\* SoftDeleteTransaction.
DeleteTransaction(t) ==
  /\ Room
  /\ Live(srv, t)
  /\ srv' = Logged(srv, t, Tombstoned(srv, t))
  /\ UNCHANGED <<keys, post, patch, now>>

\* CreateCategory: the id and the live name are unique.
CreateCategory(c, d) ==
  /\ Room
  /\ ~ Found(srv, c) /\ ~ NameTaken(srv, c, d)
  /\ srv' = Logged(srv, c, [ver |-> 1, deleted |-> FALSE, data |-> d])
  /\ UNCHANGED <<keys, post, patch, now>>

\* UpdateCategory: archive or restore it, on the version the client has read.
\* (Its other fields, the name among them, no transaction's check reads.)
ArchiveCategory(c) ==
  /\ Room
  /\ Live(srv, c)
  /\ LET r == srv.rec[c]
     IN  srv' = Logged(srv, c, [ver |-> r.ver + 1, deleted |-> FALSE,
                                data |-> [r.data EXCEPT !.archived = ~ @]])
  /\ UNCHANGED <<keys, post, patch, now>>

\* Mutant: transactions of the category do not block the delete.
MayDeleteMutant(c, cascade) == Live(srv, c)

\* The guard of DeleteCategory (live planned payments are not modelled).
MayDelete(c, cascade) ==
  Live(srv, c) /\ (cascade \/ Dependants(srv, c) = {})

\* DeleteCategory, plain or cascading to its transactions.
DeleteCategory(c, cascade, order) ==
  /\ Room
  /\ MayDelete(c, cascade)
  /\ LET s == Logged(srv, c, Tombstoned(srv, c))
     IN  srv' = IF cascade THEN Cascaded(s, c, order) ELSE s
  /\ UNCHANGED <<keys, post, patch, now>>

\* runOnce of the cleanup job: DeleteExpiredIdempotencyKeys.
Cleanup ==
  /\ \E k \in keys : k.created + Ttl <= now
  /\ keys' = {k \in keys : k.created + Ttl > now}
  /\ UNCHANGED <<srv, post, patch, now>>

Tick ==
  /\ now < MaxTime
  /\ now' = now + 1
  /\ UNCHANGED <<srv, keys, post, patch>>

Next ==
  \/ \E r \in Post : \/ Register(r) \/ Dispatch(r) \/ Drop(r) \/ CheckPost(r)
                     \/ Insert(r) \/ Persist(r)
  \/ \E p \in Patch : Start(p) \/ CheckPatch(p) \/ Write(p)
  \/ \E t \in Transaction : DeleteTransaction(t)
  \/ \E c \in Category :
       \/ \E d \in PayloadOf(c) : CreateCategory(c, d)
       \/ ArchiveCategory(c)
       \/ \E cascade \in BOOLEAN, order \in Orders :
            DeleteCategory(c, cascade, order)
  \/ Cleanup
  \/ Tick

Spec == Init /\ [][Next]_vars

-----------------------------------------------------------------------------
(* Properties.                                                             *)

\* The state has its type, and a key has one row.
TypeOK ==
  /\ srv.rec \in [Id -> Row]
  /\ \A i \in Id : Found(srv, i) => srv.rec[i].data \in PayloadOf(i)
  /\ srv.log \subseteq Entry /\ srv.seq \in Nat
  /\ keys \subseteq KeyRow
  /\ \A k, l \in keys : k.key = l.key => k = l
  /\ post \in [Post -> PostState]
  /\ patch \in [Patch -> PatchState]
  /\ now \in Nat

\* Two requests with one key both create a transaction only if the second was
\* let in more than the stale threshold after the first, or the first client
\* was told of a failure (openspec transactions, Idempotent creation; what the
\* middleware guarantees of it).
RetryWaitsOut ==
  \A r, s \in Post :
    /\ r # s /\ post[r].key = post[s].key
    /\ post[r].tx # NoId /\ post[s].tx # NoId
    => \/ post[s].at - post[r].at > Stale \/ post[r].at - post[s].at > Stale
       \/ post[r].answer = "failed" \/ post[s].answer = "failed"

\* A replayed answer names a transaction that a request with the same key and
\* the same body did commit, and was told of.
ReplayIsTrue ==
  \A r \in Post :
    post[r].answer = "replayed" =>
      \E s \in Post \ {r} :
        /\ post[s].key = post[r].key /\ post[s].body = post[r].body
        /\ post[s].tx = post[r].told /\ post[s].answer = "created"
        /\ Found(srv, post[r].told)

\* An update that succeeds replaces the very row its references were checked
\* against, although the check held no lock.
ReplacesWhatItChecked ==
  [][\A p \in Patch :
       patch[p].answer # "updated" /\ patch'[p].answer = "updated" =>
         patch[p].seen = srv.rec[patch[p].to.id]]_vars

\* The references a POST or a PATCH has checked may be gone when it writes.
\* A transaction left without its category is one of these: the log has it
\* after the category's tombstone.
OrphanIsLate ==
  \A t \in Transaction :
    Live(srv, t) /\ ~ Live(srv, srv.rec[t].data.category) =>
      \E e, f \in srv.log :
        /\ e.id = srv.rec[t].data.category /\ e.action = "tombstone"
        /\ f.id = t /\ e.seq < f.seq /\ f.ver = srv.rec[t].ver
=============================================================================
