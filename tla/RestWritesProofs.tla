--------------------------- MODULE RestWritesProofs --------------------------
(***************************************************************************)
(* Theorems about RestWrites, for every number of requests, keys, records  *)
(* and bodies and every pair of thresholds: what a row can become under    *)
(* the steps of the REST surface, what an update replaces, and what the    *)
(* idempotency middleware guarantees of two requests with one key.         *)
(***************************************************************************)
EXTENDS RestWrites, FiniteSetTheorems, TLAPS

\* The types of the household.
SrvOK(s) ==
  /\ s.rec \in [Id -> Row]
  /\ \A i \in Id : Found(s, i) => s.rec[i].data \in PayloadOf(i)
  /\ s.log \subseteq Entry /\ s.seq \in Nat

\* From s to m, a row stays or goes to its next version.
Advances(s, m) ==
  \A i \in Id : m.rec[i] = s.rec[i] \/ m.rec[i].ver = s.rec[i].ver + 1

\* The types of the requests and their keys.
ReqOK ==
  /\ keys \subseteq KeyRow
  /\ \A k, l \in keys : k.key = l.key => k = l
  /\ post \in [Post -> PostState]
  /\ patch \in [Patch -> PatchState]
  /\ now \in Nat

LEMMA TypeParts == TypeOK <=> SrvOK(srv) /\ ReqOK
BY DEF TypeOK, SrvOK, ReqOK

-----------------------------------------------------------------------------
(* Rows.                                                                   *)

LEMMA CardinalityTransaction == Cardinality(Transaction) \in Nat
BY TransactionFinite, FS_CardinalityType

\* A row that is written with its next version.
LEMMA LoggedOK ==
  ASSUME NEW s, SrvOK(s), NEW i \in Id, NEW r \in Row, r.ver = s.rec[i].ver + 1,
         r.data \in PayloadOf(i)
  PROVE  SrvOK(Logged(s, i, r)) /\ Advances(s, Logged(s, i, r))
<1> DEFINE m == Logged(s, i, r)
           e == [seq |-> s.seq + 1, id |-> i, ver |-> r.ver,
                 action |-> IF r.deleted THEN "tombstone" ELSE "upsert"]
<1>1. /\ m.rec = [s.rec EXCEPT ![i] = r] /\ m.log = s.log \cup {e}
      /\ m.seq = s.seq + 1
  BY DEF Logged
<1>2. s.rec \in [Id -> Row] /\ s.seq \in Nat /\ s.log \subseteq Entry /\ r.ver \in Nat
  BY DEF SrvOK, Row
<1>3. e \in Entry
  <2>1. (IF r.deleted THEN "tombstone" ELSE "upsert") \in {"upsert", "tombstone"}
    OBVIOUS
  <2>2. \A a \in {"upsert", "tombstone"} :
          [seq |-> s.seq + 1, id |-> i, ver |-> r.ver, action |-> a] \in Entry
    BY <1>2 DEF Entry
  <2> QED BY <2>1, <2>2
<1> HIDE DEF m, e
<1>4. /\ m.rec \in [Id -> Row] /\ m.rec[i] = r
      /\ \A j \in Id \ {i} : m.rec[j] = s.rec[j]
  BY <1>1, <1>2
<1>5. \A j \in Id : Found(m, j) => m.rec[j].data \in PayloadOf(j)
  BY <1>4 DEF SrvOK, Found
<1>6. SrvOK(m)
  BY <1>1, <1>2, <1>3, <1>4, <1>5 DEF SrvOK
<1>7. Advances(s, m)
  BY <1>4 DEF Advances
<1> QED BY <1>6, <1>7 DEF m

LEMMA TombstonedOK ==
  ASSUME NEW s, SrvOK(s), NEW i \in Id, Found(s, i)
  PROVE  /\ Tombstoned(s, i) \in Row /\ Tombstoned(s, i).deleted
         /\ Tombstoned(s, i).ver = s.rec[i].ver + 1
         /\ Tombstoned(s, i).data \in PayloadOf(i)
BY DEF Tombstoned, SrvOK, Row

LEMMA OrderFields ==
  ASSUME NEW order \in Orders, NEW t \in Transaction
  PROVE  order[t] \in Nat
<1>1. order \in [Transaction -> 1..Cardinality(Transaction)]
  BY DEF Orders
<1> QED BY <1>1, CardinalityTransaction

\* A cascade writes the next version of the transactions of a category.
LEMMA CascadedOK ==
  ASSUME NEW s, SrvOK(s), NEW c \in Category, NEW order \in Orders
  PROVE  LET m == Cascaded(s, c, order)
         IN  /\ SrvOK(m)
             /\ \A i \in Id : i \notin Transaction => m.rec[i] = s.rec[i]
             /\ \A i \in Id : \/ m.rec[i] = s.rec[i]
                              \/ m.rec[i].ver = s.rec[i].ver + 1
<1> DEFINE m == Cascaded(s, c, order)
           D == Dependants(s, c)
           E == {[seq |-> s.seq + order[t], id |-> t, action |-> "tombstone",
                  ver |-> s.rec[t].ver + 1] : t \in D}
<1>1. /\ m.rec = [i \in Id |-> IF i \in D THEN Tombstoned(s, i) ELSE s.rec[i]]
      /\ m.log = s.log \cup E /\ m.seq = s.seq + Cardinality(Transaction)
  BY DEF Cascaded
<1>2. D \subseteq Transaction /\ D \subseteq Id /\ \A t \in D : Found(s, t)
  BY DEF Dependants, Live, Id
<1>3. s.rec \in [Id -> Row] /\ s.seq \in Nat /\ s.log \subseteq Entry
  BY DEF SrvOK
<1>4. \A t \in D : /\ Tombstoned(s, t) \in Row
                   /\ Tombstoned(s, t).ver = s.rec[t].ver + 1
                   /\ Tombstoned(s, t).data \in PayloadOf(t)
  BY <1>2, TombstonedOK
<1>5. E \subseteq Entry
  <2>1. ASSUME NEW t \in D
        PROVE  [seq |-> s.seq + order[t], id |-> t, action |-> "tombstone",
                ver |-> s.rec[t].ver + 1] \in Entry
    <3>1. order[t] \in Nat /\ t \in Id /\ s.rec[t].ver \in Nat
      BY <1>2, <1>3, OrderFields DEF Row
    <3> QED BY <1>3, <3>1 DEF Entry
  <2> QED BY <2>1
<1> HIDE DEF m, D, E
<1>6. /\ m.rec \in [Id -> Row]
      /\ \A i \in Id : IF i \in D THEN m.rec[i] = Tombstoned(s, i)
                       ELSE m.rec[i] = s.rec[i]
  BY <1>1, <1>3, <1>4
<1>7. \A i \in Id : Found(m, i) => m.rec[i].data \in PayloadOf(i)
  BY <1>4, <1>6 DEF SrvOK, Found
<1>8. SrvOK(m)
  BY <1>1, <1>3, <1>5, <1>6, <1>7, CardinalityTransaction DEF SrvOK
<1>9. \A i \in Id : i \notin Transaction => m.rec[i] = s.rec[i]
  BY <1>2, <1>6
<1>10. \A i \in Id : m.rec[i] = s.rec[i] \/ m.rec[i].ver = s.rec[i].ver + 1
  BY <1>4, <1>6
<1> QED BY <1>8, <1>9, <1>10 DEF m
-----------------------------------------------------------------------------
(* What each step does to the household.                                   *)

LEMMA TransactionKind ==
  ASSUME NEW t \in Transaction
  PROVE  /\ t \in Id /\ t \notin Category
         /\ PayloadOf(t) = {d \in Payload : d.category \in Category /\ ~ d.archived}
BY KindsDisjoint DEF Id, PayloadOf

LEMMA BodyFields ==
  ASSUME NEW b \in Body
  PROVE  /\ b.id \in Transaction \cup {NoId}
         /\ \A t \in Transaction : b.data \in PayloadOf(t)
BY BodyAssumption, TransactionKind

LEMMA ChangeFields ==
  ASSUME NEW c \in Change
  PROVE  /\ c.id \in Transaction /\ c.category \in Category \cup {NoCategory}
         /\ c.name \in Name
BY ChangeAssumption

\* A row of a record that was not there.
LEMMA NewRow ==
  ASSUME NEW s, SrvOK(s), NEW i \in Id, ~ Found(s, i), NEW d \in PayloadOf(i)
  PROVE  LET m == Logged(s, i, [ver |-> 1, deleted |-> FALSE, data |-> d])
         IN  SrvOK(m) /\ Advances(s, m)
<1> DEFINE r == [ver |-> 1, deleted |-> FALSE, data |-> d]
<1>1. s.rec[i].ver = 0
  BY DEF SrvOK, Found, Row
<1>2. d \in Payload
  BY DEF PayloadOf
<1>3. r \in Row /\ r.ver = s.rec[i].ver + 1 /\ r.data \in PayloadOf(i)
  BY <1>1, <1>2 DEF Row
<1> HIDE DEF r
<1>4. SrvOK(Logged(s, i, r)) /\ Advances(s, Logged(s, i, r))
  BY <1>3, LoggedOK
<1> QED BY <1>4 DEF r

LEMMA InsertWrites ==
  ASSUME SrvOK(srv), ReqOK, NEW r \in Post, Insert(r)
  PROVE  SrvOK(srv') /\ Advances(srv, srv')
<1>1. CASE srv' = srv
  BY <1>1 DEF Advances
<1>2. ASSUME NEW t \in IdsFor(post[r].body), ~ Found(srv, t),
             srv' = Logged(srv, t, [ver |-> 1, deleted |-> FALSE,
                                    data |-> post[r].body.data])
      PROVE  SrvOK(srv') /\ Advances(srv, srv')
  <2>1. post[r].body \in Body
    BY DEF ReqOK, PostState
  <2>2. t \in Transaction
    BY <2>1, BodyFields DEF IdsFor
  <2> QED BY <1>2, <2>1, <2>2, BodyFields, TransactionKind, NewRow
<1> QED BY <1>1, <1>2 DEF Insert

LEMMA EffectiveOK ==
  ASSUME ReqOK, NEW p \in Patch, NEW t \in Transaction, NEW d \in PayloadOf(t)
  PROVE  Effective(p, d) \in PayloadOf(t)
<1>1. patch[p].to \in Change
  BY DEF ReqOK, PatchState
<1>2. /\ d.category \in Category /\ ~ d.archived
      /\ d \in [name : Name, archived : BOOLEAN, category : Category \cup {NoCategory}]
  BY TransactionKind DEF Payload
<1>3. CASE patch[p].to.category = NoCategory
  <2>1. Effective(p, d) = [d EXCEPT !.name = patch[p].to.name]
    BY <1>3 DEF Effective
  <2> QED BY <1>1, <1>2, <2>1, ChangeFields, TransactionKind DEF Payload
<1>4. CASE patch[p].to.category # NoCategory
  <2>1. Effective(p, d) = [d EXCEPT !.category = patch[p].to.category]
    BY <1>4 DEF Effective
  <2>2. patch[p].to.category \in Category
    BY <1>1, <1>4, ChangeFields
  <2> QED BY <1>2, <2>1, <2>2, TransactionKind DEF Payload
<1> QED BY <1>3, <1>4

LEMMA WriteWrites ==
  ASSUME SrvOK(srv), ReqOK, NEW p \in Patch, Write(p)
  PROVE  SrvOK(srv') /\ Advances(srv, srv')
<1>1. CASE srv' = srv
  BY <1>1 DEF Advances
<1>2. CASE Writes(p)
  <2> DEFINE t == patch[p].to.id
             r == srv.rec[t]
             n == [ver |-> r.ver + 1, deleted |-> FALSE, data |-> Effective(p, r.data)]
  <2>1. t \in Transaction /\ t \in Id
    BY ChangeFields, TransactionKind DEF ReqOK, PatchState
  <2>2. r \in Row /\ r.data \in PayloadOf(t)
    BY <1>2, <2>1 DEF Writes, Live, SrvOK
  <2>3. Effective(p, r.data) \in PayloadOf(t) /\ Effective(p, r.data) \in Payload
    BY <2>1, <2>2, EffectiveOK DEF PayloadOf
  <2>4. n \in Row /\ n.ver = r.ver + 1 /\ n.data \in PayloadOf(t)
    BY <2>2, <2>3 DEF Row
  <2>5. srv' = Logged(srv, t, n)
    BY <1>2 DEF Write
  <2> HIDE DEF n, t
  <2> QED BY <2>1, <2>4, <2>5, LoggedOK
<1> QED BY <1>1, <1>2 DEF Write

LEMMA DeleteWrites ==
  ASSUME SrvOK(srv), NEW i \in Id, Live(srv, i)
  PROVE  /\ SrvOK(Logged(srv, i, Tombstoned(srv, i)))
         /\ Advances(srv, Logged(srv, i, Tombstoned(srv, i)))
BY TombstonedOK, LoggedOK DEF Live

LEMMA ArchiveWrites ==
  ASSUME SrvOK(srv), NEW c \in Category, ArchiveCategory(c)
  PROVE  SrvOK(srv') /\ Advances(srv, srv')
<1> DEFINE r == srv.rec[c]
           d == [r.data EXCEPT !.archived = ~ @]
           n == [ver |-> r.ver + 1, deleted |-> FALSE, data |-> d]
<1>1. c \in Id /\ r \in Row /\ r.data \in PayloadOf(c)
  BY DEF ArchiveCategory, Live, SrvOK, Id
<1>2. r.data \in Payload /\ r.data.category = NoCategory
  BY <1>1 DEF PayloadOf
<1>3. (~ r.data.archived) \in BOOLEAN
  OBVIOUS
<1>4. d \in Payload /\ d.category = NoCategory
  BY <1>2, <1>3 DEF Payload
<1>5. d \in PayloadOf(c)
  BY <1>4 DEF PayloadOf
<1>6. srv' = Logged(srv, c, n)
  BY DEF ArchiveCategory
<1> HIDE DEF d
<1>7. n \in Row /\ n.ver = r.ver + 1 /\ n.data = d
  BY <1>1, <1>4 DEF Row
<1> HIDE DEF n
<1> QED BY <1>1, <1>5, <1>6, <1>7, LoggedOK

LEMMA DeleteCategoryWrites ==
  ASSUME SrvOK(srv), NEW c \in Category, NEW cascade \in BOOLEAN,
         NEW order \in Orders, DeleteCategory(c, cascade, order)
  PROVE  SrvOK(srv') /\ Advances(srv, srv')
<1> DEFINE s == Logged(srv, c, Tombstoned(srv, c))
           m == Cascaded(s, c, order)
<1>1. c \in Id /\ c \notin Transaction
  BY KindsDisjoint DEF Id
<1>2. SrvOK(s) /\ Advances(srv, s)
  BY <1>1, DeleteWrites DEF DeleteCategory, MayDelete
<1>3. \A i \in Id \ {c} : s.rec[i] = srv.rec[i]
  BY DEF Logged, SrvOK
<1>4. srv' = IF cascade THEN m ELSE s
  BY DEF DeleteCategory
<1> HIDE DEF s
<1>5. /\ SrvOK(m) /\ \A i \in Id : i \notin Transaction => m.rec[i] = s.rec[i]
      /\ \A i \in Id : m.rec[i] = s.rec[i] \/ m.rec[i].ver = s.rec[i].ver + 1
  BY <1>2, CascadedOK
<1> HIDE DEF m
<1>6. Advances(srv, m)
  BY <1>1, <1>2, <1>3, <1>5 DEF Advances
<1> QED BY <1>2, <1>4, <1>5, <1>6

\* Whatever the steps and their order, a row stays or goes to its next version.
LEMMA ServerStep ==
  ASSUME SrvOK(srv), ReqOK, [Next]_vars
  PROVE  SrvOK(srv') /\ Advances(srv, srv')
<1>1. CASE srv' = srv
  BY <1>1 DEF Advances
<1>2. ASSUME NEW t \in Transaction, DeleteTransaction(t)
      PROVE  SrvOK(srv') /\ Advances(srv, srv')
  BY <1>2, TransactionKind, DeleteWrites DEF DeleteTransaction
<1>3. ASSUME NEW c \in Category, NEW d \in PayloadOf(c), CreateCategory(c, d)
      PROVE  SrvOK(srv') /\ Advances(srv, srv')
  BY <1>3, NewRow DEF CreateCategory, Id
<1>4. ASSUME NEW r \in Post, \/ Register(r) \/ Dispatch(r) \/ Drop(r)
                             \/ CheckPost(r) \/ Persist(r)
      PROVE  srv' = srv
  BY <1>4 DEF Register, Dispatch, Drop, CheckPost, Persist
<1>5. ASSUME NEW p \in Patch, Start(p) \/ CheckPatch(p) PROVE srv' = srv
  BY <1>5 DEF Start, CheckPatch
<1>6. ASSUME Cleanup \/ Tick \/ UNCHANGED vars PROVE srv' = srv
  BY <1>6 DEF Cleanup, Tick, vars
<1>7. CASE \E r \in Post : \/ Register(r) \/ Dispatch(r) \/ Drop(r) \/ CheckPost(r)
                           \/ Insert(r) \/ Persist(r)
  BY <1>1, <1>4, <1>7, InsertWrites
<1>8. CASE \E p \in Patch : Start(p) \/ CheckPatch(p) \/ Write(p)
  BY <1>1, <1>5, <1>8, WriteWrites
<1>9. CASE \E c \in Category :
             \/ \E d \in PayloadOf(c) : CreateCategory(c, d)
             \/ ArchiveCategory(c)
             \/ \E cascade \in BOOLEAN, order \in Orders :
                  DeleteCategory(c, cascade, order)
  BY <1>3, <1>9, ArchiveWrites, DeleteCategoryWrites
<1> QED BY <1>1, <1>2, <1>6, <1>7, <1>8, <1>9 DEF Next
-----------------------------------------------------------------------------
(* What the idempotency middleware keeps.                                  *)

\* The request got past the key's index.
Begun(r) == post[r].stage \notin {"idle", "clash", "drop"}

\* The request may still commit a transaction, or did.
Entered(r) == post[r].stage \in {"check", "insert"} \/ post[r].tx # NoId

\* Its row may be deleted: it is stale, or will commit nothing any more.
Spent(r) ==
  /\ Begun(r)
  /\ \/ now - post[r].at > Stale
     \/ post[r].stage = "done" /\ post[r].answer \in {"failed", "rejected"}

Posted(r) ==
  /\ post[r].at <= now
  /\ post[r].stage \in {"idle", "clash", "drop", "check", "insert"} =>
       post[r].answer = "none" /\ post[r].tx = NoId
  /\ post[r].answer \in {"in_use", "mismatch", "replayed", "rejected"} =>
       post[r].tx = NoId
  /\ post[r].stage = "persist" => post[r].answer \in {"created", "rejected", "failed"}
  /\ post[r].answer = "created" =>
       post[r].tx # NoId /\ post[r].told = post[r].tx /\ Found(srv, post[r].tx)
  /\ post[r].stage = "drop" => Spent(post[r].target)

\* A row tells of the request that created it.
RowOK(k) ==
  /\ k.key = post[k.by].key /\ k.body = post[k.by].body /\ k.created = post[k.by].at
  /\ Begun(k.by)
  /\ k.status = "failed" =>
       post[k.by].stage = "done" /\ post[k.by].answer \in {"failed", "rejected"}
  /\ k.status = "completed" => post[k.by].answer = "created" /\ k.tx = post[k.by].told

\* The time a request entered is past, or its row is there, or it failed.
Covered(r) ==
  Entered(r) => \/ \E k \in keys : k.by = r
                \/ now - post[r].at > Stale
                \/ post[r].answer = "failed"

Apart(r, s) ==
  r # s /\ post[r].key = post[s].key /\ Entered(r) /\ Entered(s) =>
    \/ post[s].at - post[r].at > Stale \/ post[r].at - post[s].at > Stale
    \/ post[r].answer = "failed" \/ post[s].answer = "failed"

\* What a replay rests on.
Source(r, told, s) ==
  /\ s # r /\ post[s].key = post[r].key /\ post[s].body = post[r].body
  /\ post[s].tx = told /\ post[s].answer = "created"
  /\ Found(srv, told)

KeyInv ==
  /\ \A r \in Post : Posted(r) /\ Covered(r)
  /\ \A k \in keys : RowOK(k)
  /\ \A r, s \in Post : Apart(r, s)
  /\ \A r \in Post : post[r].answer = "replayed" =>
       \E s \in Post : Source(r, post[r].told, s)

LEMMA PostFields ==
  ASSUME ReqOK, NEW r \in Post
  PROVE  /\ post[r].at \in Nat /\ post[r].target \in Post
         /\ post[r].key \in Key /\ post[r].body \in Body
         /\ post[r].tx \in Transaction \cup {NoId}
         /\ post[r].told \in Transaction \cup {NoId}
BY DEF ReqOK, PostState

LEMMA RowFields ==
  ASSUME ReqOK, NEW k \in keys
  PROVE  k.by \in Post /\ k.created \in Nat /\ k.key \in Key /\ k.body \in Body
         /\ k.tx \in Transaction \cup {NoId}
BY DEF ReqOK, KeyRow

\* No record disappears.
LEMMA FoundStays ==
  ASSUME SrvOK(srv), Advances(srv, srv'), NEW i \in Id, Found(srv, i)
  PROVE  Found(srv, i)'
BY DEF SrvOK, Advances, Found, Row

Keeps == \A i \in Id : Found(srv, i) => Found(srv, i)'

\* Time passes, and other writes are made.
LEMMA Quiet ==
  ASSUME ReqOK, KeyInv, UNCHANGED <<keys, post>>, now' \in Nat, now <= now', Keeps
  PROVE  KeyInv'
<1>1. \A r \in Post : post[r].at \in Nat /\ now \in Nat
        /\ (post[r].tx # NoId => post[r].tx \in Id)
  BY PostFields DEF ReqOK, Id
<1>2. ASSUME NEW r \in Post
      PROVE  /\ Begun(r)' = Begun(r) /\ Entered(r)' = Entered(r)
             /\ now - post[r].at > Stale => now' - post[r].at > Stale
             /\ Spent(r) => Spent(r)'
  <2>1. Begun(r)' = Begun(r)
    BY DEF Begun
  <2>2. Entered(r)' = Entered(r)
    BY DEF Entered
  <2>3. now - post[r].at > Stale => now' - post[r].at > Stale
    BY <1>1, TimesAssumption
  <2> QED BY <2>1, <2>2, <2>3 DEF Spent
<1>3. ASSUME NEW r \in Post PROVE Posted(r)'
  <2>1. Posted(r) /\ post[r].target \in Post
    BY PostFields DEF KeyInv
  <2> QED BY <1>1, <1>2, <2>1 DEF Posted, Keeps
<1>4. ASSUME NEW r \in Post PROVE Covered(r)'
  BY <1>1, <1>2 DEF KeyInv, Covered
<1>5. ASSUME NEW k \in keys' PROVE RowOK(k)'
  BY <1>2, RowFields DEF KeyInv, RowOK
<1>6. ASSUME NEW r \in Post, NEW s \in Post PROVE Apart(r, s)'
  BY <1>2 DEF KeyInv, Apart
<1>7. ASSUME NEW r \in Post, post'[r].answer = "replayed"
      PROVE  \E s \in Post : Source(r, post[r].told, s)'
  <2>1. PICK s \in Post : Source(r, post[r].told, s)
    BY <1>7 DEF KeyInv
  <2>2. post[s].tx \in Id
    BY <1>1, <2>1 DEF KeyInv, Source, Posted
  <2> QED BY <2>1, <2>2 DEF Source, Keeps
<1> QED BY <1>3, <1>4, <1>5, <1>6, <1>7 DEF KeyInv

\* A step of one request that does not begin with it: rows may go when they
\* are spent.
LEMMA OneRequest ==
  ASSUME ReqOK, KeyInv, NEW r \in Post, post' \in [Post -> PostState],
         \A q \in Post \ {r} : post'[q] = post[q],
         post'[r].key = post[r].key, post'[r].body = post[r].body,
         UNCHANGED now, Keeps,
         Begun(r) => Begun(r)' /\ post'[r].at = post[r].at,
         Entered(r)' => Entered(r),
         post[r].answer # "none" =>
           /\ post'[r].answer = post[r].answer /\ post'[r].tx = post[r].tx
           /\ post'[r].told = post[r].told
           /\ (post[r].stage = "done" => post'[r].stage = "done"),
         keys' \subseteq keys,
         \A k \in keys \ keys' : Spent(k.by),
         Posted(r)',
         post'[r].answer = "replayed" /\ post[r].answer # "replayed" =>
           \E s \in Post : Source(r, post'[r].told, s)
  PROVE  KeyInv'
<1>1. \A q \in Post : /\ post[q].at \in Nat /\ post'[q].key = post[q].key
                      /\ post'[q].body = post[q].body
                      /\ (post[q].tx # NoId => post[q].tx \in Id)
                      /\ post[q].target \in Post
  BY PostFields DEF Id
<1>2. \A q \in Post : /\ Begun(q) => Begun(q)' /\ post'[q].at = post[q].at
                      /\ Entered(q)' => Entered(q)
                      /\ post[q].answer # "none" =>
                           /\ post'[q].answer = post[q].answer
                           /\ post'[q].tx = post[q].tx /\ post'[q].told = post[q].told
                           /\ (post[q].stage = "done" => post'[q].stage = "done")
  BY DEF Begun, Entered
<1>3. \A q \in Post : Spent(q) => Spent(q)'
  <2> SUFFICES ASSUME NEW q \in Post, Spent(q) PROVE Spent(q)'
    OBVIOUS
  <2> QED BY <1>2 DEF Spent
<1>4. \A q \in Post : Entered(q) => Begun(q)
  BY DEF KeyInv, Posted, Entered, Begun
<1>5. ASSUME NEW q \in Post PROVE Posted(q)'
  <2>1. CASE q = r
    BY <2>1
  <2>2. CASE q # r
    <3>1. Posted(q) /\ post'[q] = post[q]
      BY <2>2 DEF KeyInv
    <3> QED BY <1>1, <1>3, <3>1 DEF Posted, Keeps
  <2> QED BY <2>1, <2>2
<1>6. ASSUME NEW q \in Post, Entered(q)' PROVE Covered(q)'
  <2>1. Entered(q) /\ Begun(q) /\ Covered(q)
    BY <1>2, <1>4, <1>6 DEF KeyInv
  <2>2. CASE \E k \in keys : k.by = q
    <3>1. PICK k \in keys : k.by = q
      BY <2>2
    <3>2. CASE k \in keys'
      BY <3>1, <3>2 DEF Covered
    <3>3. CASE k \notin keys'
      <4>1. Spent(q)
        BY <3>1, <3>3
      <4>2. CASE now - post[q].at > Stale
        BY <1>2, <2>1, <4>2 DEF Covered
      <4>3. CASE post[q].stage = "done" /\ post[q].answer \in {"failed", "rejected"}
        <5>1. post[q].tx # NoId
          BY <2>1, <4>3 DEF Entered
        <5>2. post[q].answer = "failed"
          BY <4>3, <5>1 DEF KeyInv, Posted
        <5> QED BY <1>2, <5>2 DEF Covered
      <4> QED BY <4>1, <4>2, <4>3 DEF Spent
    <3> QED BY <3>2, <3>3
  <2>3. CASE now - post[q].at > Stale
    BY <1>2, <2>1, <2>3 DEF Covered
  <2>4. CASE post[q].answer = "failed"
    BY <1>2, <2>4 DEF Covered
  <2> QED BY <2>1, <2>2, <2>3, <2>4 DEF Covered
<1>7. ASSUME NEW k \in keys' PROVE RowOK(k)'
  <2>1. k.by \in Post /\ RowOK(k)
    BY <1>7, RowFields DEF KeyInv
  <2> QED BY <1>1, <1>2, <2>1 DEF RowOK
<1>8. ASSUME NEW q \in Post, NEW s \in Post PROVE Apart(q, s)'
  <2>1. Apart(q, s)
    BY DEF KeyInv
  <2> QED BY <1>1, <1>2, <1>4, <2>1 DEF Apart
<1>9. ASSUME NEW q \in Post, post'[q].answer = "replayed"
      PROVE  \E s \in Post : Source(q, post[q].told, s)'
  <2>1. PICK s \in Post : Source(q, post'[q].told, s)
    BY <1>2, <1>9 DEF KeyInv
  <2>2. post[s].tx \in Id
    BY <1>1, <2>1 DEF KeyInv, Source, Posted
  <2> QED BY <1>1, <1>2, <2>1, <2>2 DEF Source, Keeps
<1> QED BY <1>5, <1>6, <1>7, <1>8, <1>9 DEF KeyInv, Covered
-----------------------------------------------------------------------------
(* The steps of a request.                                                 *)

\* A request changes no other, and not what it carries.
Only(r) ==
  /\ post' \in [Post -> PostState]
  /\ \A q \in Post \ {r} : post'[q] = post[q]
  /\ post'[r].key = post[r].key /\ post'[r].body = post[r].body

LEMMA AnsweredEffect ==
  ASSUME ReqOK, NEW r \in Post,
         NEW stage \in {"done", "persist"},
         NEW answer \in {"created", "replayed", "in_use", "mismatch", "rejected", "failed"},
         NEW told \in Transaction \cup {NoId},
         Answered(r, stage, answer, told)
  PROVE  /\ Only(r) /\ post'[r].stage = stage /\ post'[r].answer = answer
         /\ post'[r].told = told /\ post'[r].at = post[r].at
         /\ post'[r].target = post[r].target /\ post'[r].tx = post[r].tx
<1>1. post[r] \in PostState /\ post \in [Post -> PostState]
  BY DEF ReqOK
<1> DEFINE p == [post[r] EXCEPT !.stage = stage, !.answer = answer, !.told = told]
<1>2. /\ p.stage = stage /\ p.answer = answer /\ p.told = told
      /\ p.at = post[r].at /\ p.target = post[r].target /\ p.tx = post[r].tx
      /\ p.key = post[r].key /\ p.body = post[r].body /\ p \in PostState
  BY <1>1 DEF PostState
<1>3. post' = [post EXCEPT ![r] = p]
  BY <1>1 DEF Answered, PostState
<1> HIDE DEF p
<1> QED BY <1>1, <1>2, <1>3 DEF Only

\* The key is taken, or the request gets a row of its own.
LEMMA RegisterEffect ==
  ASSUME ReqOK, NEW r \in Post, Register(r)
  PROVE  /\ Only(r) /\ post[r].stage = "idle"
         /\ post'[r].answer = post[r].answer /\ post'[r].tx = post[r].tx
         /\ post'[r].told = post[r].told
         /\ \/ /\ Taken(r) /\ post'[r].stage = "clash" /\ keys' = keys
               /\ post'[r].at = post[r].at
            \/ /\ ~ Taken(r) /\ post'[r].stage = "check" /\ post'[r].at = now
               /\ keys' = keys \cup
                    {[by |-> r, key |-> post[r].key, body |-> post[r].body,
                      created |-> now, status |-> "pending", tx |-> NoId]}
<1>1. CASE Taken(r)
  BY <1>1 DEF Register, ReqOK, PostState, Only
<1>2. CASE ~ Taken(r)
  BY <1>2 DEF Register, ReqOK, PostState, Only
<1> QED BY <1>1, <1>2

LEMMA RegisterKeeps ==
  ASSUME ReqOK, KeyInv, Keeps, NEW r \in Post, Register(r)
  PROVE  KeyInv' /\ ReqOK'
<1>1. UNCHANGED <<srv, patch, now>> /\ now \in Nat
  BY DEF Register, ReqOK
<1>2. /\ post[r].at \in Nat /\ post[r].at <= now
      /\ post[r].answer = "none" /\ post[r].tx = NoId
  BY RegisterEffect, PostFields DEF KeyInv, Posted
<1>3. CASE Taken(r)
  <2>1. /\ Only(r) /\ post'[r].stage = "clash" /\ keys' = keys
        /\ post'[r].answer = "none" /\ post'[r].tx = NoId /\ post'[r].at = post[r].at
        /\ post[r].stage = "idle"
    BY <1>2, <1>3, RegisterEffect
  <2>2. Posted(r)'
    BY <1>1, <1>2, <2>1 DEF Posted
  <2>3. KeyInv'
    BY <1>1, <1>2, <2>1, <2>2, OneRequest DEF Only, Begun, Entered
  <2>4. ReqOK'
    BY <1>1, <2>1 DEF ReqOK, Only
  <2> QED BY <2>3, <2>4
<1>4. CASE ~ Taken(r)
  <2> DEFINE new == [by |-> r, key |-> post[r].key, body |-> post[r].body,
                     created |-> now, status |-> "pending", tx |-> NoId]
  <2>1. /\ Only(r) /\ post'[r].stage = "check" /\ post'[r].at = now
        /\ keys' = keys \cup {new}
        /\ post'[r].answer = "none" /\ post'[r].tx = NoId
        /\ post[r].stage = "idle"
    BY <1>2, <1>4, RegisterEffect
  <2>2. /\ new \in KeyRow /\ new.by = r /\ new.key = post[r].key
        /\ new.body = post[r].body /\ new.created = now /\ new.status = "pending"
    BY <1>1, PostFields DEF KeyRow
  <2> HIDE DEF new
  <2>3. \A k \in keys : k.key # new.key
    BY <1>4, <2>2 DEF Taken
  <2>4. ReqOK'
    BY <1>1, <2>1, <2>2, <2>3 DEF ReqOK, Only
  <2>5. \A q \in Post \ {r} : post'[q] = post[q]
    BY <2>1 DEF Only
  <2>6. \A q \in Post \ {r} : Begun(q)' = Begun(q) /\ Entered(q)' = Entered(q)
    BY <2>5 DEF Begun, Entered
  <2>7. Begun(r)' /\ Entered(r)' /\ ~ Begun(r)
    BY <2>1 DEF Begun, Entered
  <2>8. \A q \in Post : Spent(q) => Spent(q)'
    BY <1>1, <2>5, <2>6, <2>7 DEF Spent
  <2>9. ASSUME NEW q \in Post PROVE Posted(q)'
    <3>1. CASE q = r
      BY <1>1, <2>1, <3>1 DEF Posted
    <3>2. CASE q # r
      BY <1>1, <2>5, <2>8, <3>2, PostFields DEF KeyInv, Posted
    <3> QED BY <3>1, <3>2
  <2>10. ASSUME NEW q \in Post PROVE Covered(q)'
    <3>1. CASE q = r
      BY <2>1, <2>2, <3>1 DEF Covered
    <3>2. CASE q # r
      BY <1>1, <2>1, <2>5, <2>6, <3>2 DEF KeyInv, Covered
    <3> QED BY <3>1, <3>2
  <2>11. ASSUME NEW k \in keys' PROVE RowOK(k)'
    <3>1. CASE k = new
      BY <2>1, <2>2, <2>7, <3>1 DEF RowOK, Only
    <3>2. CASE k \in keys
      <4>1. RowOK(k) /\ k.by \in Post
        BY <3>2, RowFields DEF KeyInv
      <4>2. k.by # r
        BY <2>7, <4>1 DEF RowOK
      <4> QED BY <2>5, <2>6, <4>1, <4>2 DEF RowOK
    <3> QED BY <2>1, <3>1, <3>2
  <2>12. ASSUME NEW s \in Post, s # r, post[s].key = post[r].key, Entered(s)
         PROVE  post'[r].at - post'[s].at > Stale \/ post'[s].answer = "failed"
    <3>1. \A k \in keys : k.by # s
      BY <2>2, <2>3, <2>12 DEF KeyInv, RowOK
    <3>2. now - post[s].at > Stale \/ post[s].answer = "failed"
      BY <2>12, <3>1 DEF KeyInv, Covered
    <3> QED BY <2>1, <2>5, <2>12, <3>2
  <2>13. ASSUME NEW q \in Post, NEW s \in Post PROVE Apart(q, s)'
    <3>1. CASE q = r
      BY <2>1, <2>5, <2>6, <2>12, <3>1 DEF Apart, Only
    <3>2. CASE s = r
      BY <2>1, <2>5, <2>6, <2>12, <3>2 DEF Apart, Only
    <3>3. CASE q # r /\ s # r
      BY <2>5, <2>6, <3>3 DEF KeyInv, Apart
    <3> QED BY <3>1, <3>2, <3>3
  <2>14. ASSUME NEW q \in Post, post'[q].answer = "replayed"
         PROVE  \E s \in Post : Source(q, post[q].told, s)'
    <3>1. q # r
      BY <2>1, <2>14
    <3>2. PICK s \in Post : Source(q, post[q].told, s)
      BY <2>5, <2>14, <3>1 DEF KeyInv
    <3>3. s # r
      BY <1>2, <3>2 DEF Source
    <3> QED BY <1>1, <2>5, <3>1, <3>2, <3>3 DEF Source
  <2> QED BY <2>4, <2>9, <2>10, <2>11, <2>13, <2>14 DEF KeyInv
<1> QED BY <1>3, <1>4
\* What the answer of a step has to be.
LEMMA AnsweredKeeps ==
  ASSUME ReqOK, KeyInv, Keeps, NEW r \in Post,
         NEW stage \in {"done", "persist"},
         NEW answer \in {"replayed", "in_use", "mismatch", "rejected", "failed"},
         NEW told \in Transaction \cup {NoId},
         post[r].stage \in {"clash", "check", "insert"},
         stage = "persist" => Begun(r) /\ answer \in {"rejected", "failed"},
         stage = "done" => ~ Begun(r),
         Answered(r, stage, answer, told), UNCHANGED <<keys, now, patch>>,
         answer = "replayed" => \E s \in Post : Source(r, told, s)
  PROVE  KeyInv' /\ ReqOK'
<1>1. /\ Only(r) /\ post'[r].stage = stage /\ post'[r].answer = answer
      /\ post'[r].told = told /\ post'[r].at = post[r].at
      /\ post'[r].target = post[r].target /\ post'[r].tx = post[r].tx
  BY AnsweredEffect
<1>2. post[r].answer = "none" /\ post[r].tx = NoId /\ post[r].at <= now
  BY DEF KeyInv, Posted
<1>3. Posted(r)'
  BY <1>1, <1>2 DEF Posted
<1>4. (Begun(r) => Begun(r)') /\ (Entered(r)' => Entered(r))
  BY <1>1, <1>2 DEF Begun, Entered
<1>5. KeyInv'
  BY <1>1, <1>2, <1>3, <1>4, OneRequest DEF Only
<1>6. ReqOK'
  BY <1>1 DEF ReqOK, Only
<1> QED BY <1>5, <1>6

LEMMA DispatchKeeps ==
  ASSUME ReqOK, KeyInv, Keeps, NEW r \in Post, Dispatch(r)
  PROVE  KeyInv' /\ ReqOK'
<1>1. post[r].stage = "clash" /\ UNCHANGED <<srv, keys, patch, now>> /\ ~ Begun(r)
  BY DEF Dispatch, Begun
<1>2. ASSUME NEW answer \in {"in_use", "mismatch"}, Answered(r, "done", answer, NoId)
      PROVE  KeyInv' /\ ReqOK'
  BY <1>1, <1>2, AnsweredKeeps
<1>3. ASSUME NEW k \in keys, k.key = post[r].key, SameBody(r, k),
             k.status \notin {"failed", "pending"}, Answered(r, "done", "replayed", k.tx)
      PROVE  KeyInv' /\ ReqOK'
  <2>1. k.by \in Post /\ RowOK(k) /\ k.status = "completed"
        /\ k.tx \in Transaction \cup {NoId}
    BY <1>3, RowFields DEF KeyInv, ReqOK, KeyRow
  <2>2. Posted(k.by) /\ k.by # r
    BY <1>1, <2>1 DEF KeyInv, RowOK
  <2>3. Source(r, k.tx, k.by)
    BY <1>3, <2>1, <2>2 DEF Source, RowOK, Posted, SameBody
  <2> QED BY <1>1, <1>3, <2>1, <2>3, AnsweredKeeps
<1>4. ASSUME NEW k \in keys, k.key = post[r].key,
             \/ Expired(k) \/ k.status = "failed"
             \/ k.status = "pending" /\ PendingStale(k),
             post' = [post EXCEPT ![r].stage = "drop", ![r].target = k.by]
      PROVE  KeyInv' /\ ReqOK'
  <2>1. k.by \in Post /\ RowOK(k) /\ k.created \in Nat
    BY RowFields DEF KeyInv
  <2>2. /\ post[r] \in PostState /\ post \in [Post -> PostState] /\ now \in Nat
        /\ post[r].answer = "none" /\ post[r].tx = NoId /\ post[r].at <= now
    BY <1>1 DEF ReqOK, KeyInv, Posted
  <2>3. /\ Only(r) /\ post'[r].stage = "drop" /\ post'[r].target = k.by
        /\ post'[r].answer = "none" /\ post'[r].tx = NoId /\ post'[r].at = post[r].at
    BY <1>4, <2>1, <2>2 DEF PostState, Only
  <2>4. Spent(k.by) /\ k.by # r
    <3>1. Expired(k) => now - k.created > Stale
      BY <2>1, <2>2, TimesAssumption DEF Expired
    <3> QED BY <1>1, <1>4, <2>1, <3>1 DEF Spent, PendingStale, RowOK
  <2>5. Spent(k.by)'
    BY <1>1, <2>1, <2>3, <2>4 DEF Spent, Only, Begun
  <2>6. Posted(r)'
    BY <1>1, <2>2, <2>3, <2>5 DEF Posted
  <2>7. KeyInv'
    BY <1>1, <2>2, <2>3, <2>6, OneRequest DEF Only, Begun, Entered
  <2>8. ReqOK'
    BY <1>1, <2>3 DEF ReqOK, Only
  <2> QED BY <2>7, <2>8
<1>5. \A k \in keys : k.status \in {"pending", "completed", "failed"}
  BY DEF ReqOK, KeyRow
<1> QED BY <1>2, <1>3, <1>4, <1>5 DEF Dispatch

LEMMA DropKeeps ==
  ASSUME ReqOK, KeyInv, Keeps, NEW r \in Post, Drop(r)
  PROVE  KeyInv' /\ ReqOK'
<1>1. /\ post[r].stage = "drop" /\ UNCHANGED <<srv, patch, now>>
      /\ keys' = Dropped(r)
  BY DEF Drop
<1>2. /\ post[r] \in PostState /\ post \in [Post -> PostState] /\ now \in Nat
      /\ post[r].answer = "none" /\ post[r].tx = NoId /\ post[r].at <= now
      /\ Spent(post[r].target)
  BY <1>1 DEF ReqOK, KeyInv, Posted
<1>3. /\ Only(r) /\ post'[r].stage = "done" /\ post'[r].answer = "in_use"
      /\ post'[r].tx = NoId /\ post'[r].at = post[r].at
  BY <1>2 DEF Drop, PostState, Only
<1>4. keys' \subseteq keys /\ \A k \in keys \ keys' : Spent(k.by)
  BY <1>1, <1>2 DEF Dropped
<1>5. Posted(r)'
  BY <1>1, <1>2, <1>3 DEF Posted
<1>6. KeyInv'
  BY <1>1, <1>2, <1>3, <1>4, <1>5, OneRequest DEF Only, Begun, Entered
<1>7. ReqOK'
  BY <1>1, <1>3, <1>4 DEF ReqOK, Only
<1> QED BY <1>6, <1>7

LEMMA CheckPostKeeps ==
  ASSUME ReqOK, KeyInv, Keeps, NEW r \in Post, CheckPost(r)
  PROVE  KeyInv' /\ ReqOK'
<1>1. post[r].stage = "check" /\ UNCHANGED <<srv, keys, patch, now>> /\ Begun(r)
  BY DEF CheckPost, Begun
<1>2. CASE Answered(r, "persist", "rejected", NoId)
  BY <1>1, <1>2, AnsweredKeeps
<1>3. CASE post' = [post EXCEPT ![r].stage = "insert"]
  <2>1. /\ post[r] \in PostState /\ post \in [Post -> PostState]
        /\ post[r].answer = "none" /\ post[r].tx = NoId /\ post[r].at <= now
    BY <1>1 DEF ReqOK, KeyInv, Posted
  <2>2. /\ Only(r) /\ post'[r].stage = "insert" /\ post'[r].answer = "none"
        /\ post'[r].tx = NoId /\ post'[r].at = post[r].at
    BY <1>3, <2>1 DEF PostState, Only
  <2>3. Posted(r)'
    BY <1>1, <2>1, <2>2 DEF Posted
  <2>4. KeyInv'
    BY <1>1, <2>1, <2>2, <2>3, OneRequest DEF Only, Begun, Entered
  <2>5. ReqOK'
    BY <1>1, <2>2 DEF ReqOK, Only
  <2> QED BY <2>4, <2>5
<1> QED BY <1>2, <1>3 DEF CheckPost

LEMMA InsertKeeps ==
  ASSUME SrvOK(srv), ReqOK, KeyInv, Keeps, NEW r \in Post, Insert(r)
  PROVE  KeyInv' /\ ReqOK'
<1>1. post[r].stage = "insert" /\ UNCHANGED <<keys, patch, now>> /\ Begun(r) /\ Entered(r)
  BY DEF Insert, Begun, Entered
<1>2. ASSUME NEW answer \in {"rejected", "failed"}, Answered(r, "persist", answer, NoId)
      PROVE  KeyInv' /\ ReqOK'
  BY <1>1, <1>2, AnsweredKeeps
<1>3. ASSUME NEW t \in IdsFor(post[r].body), NEW ack \in BOOLEAN,
             srv' = Logged(srv, t, [ver |-> 1, deleted |-> FALSE,
                                    data |-> post[r].body.data]),
             post' = [post EXCEPT ![r].stage = "persist", ![r].tx = t,
                        ![r].answer = IF ack THEN "created" ELSE "failed",
                        ![r].told = IF ack THEN t ELSE NoId]
      PROVE  KeyInv' /\ ReqOK'
  <2> DEFINE answer == IF ack THEN "created" ELSE "failed"
             told == IF ack THEN t ELSE NoId
  <2>1. t \in Transaction /\ t \in Id /\ t # NoId
    BY PostFields, BodyFields, TransactionKind, NoIdAssumption DEF IdsFor
  <2>2. Found(srv, t)'
    BY <1>3, <2>1 DEF Found, Logged, SrvOK
  <2>3. /\ post[r] \in PostState /\ post \in [Post -> PostState]
        /\ post[r].answer = "none" /\ post[r].tx = NoId /\ post[r].at <= now
    BY <1>1 DEF ReqOK, KeyInv, Posted
  <2>4. /\ answer \in {"created", "failed"} /\ told \in Transaction \cup {NoId}
        /\ answer = "created" => told = t
    BY <2>1
  <2>5. post' = [post EXCEPT ![r] = [post[r] EXCEPT !.stage = "persist", !.tx = t,
                                        !.answer = answer, !.told = told]]
    BY <1>3, <2>3
  <2> HIDE DEF answer, told
  <2>6. /\ Only(r) /\ post'[r].stage = "persist" /\ post'[r].answer = answer
        /\ post'[r].told = told /\ post'[r].tx = t /\ post'[r].at = post[r].at
    BY <2>1, <2>3, <2>4, <2>5 DEF PostState, Only
  <2>7. Posted(r)'
    BY <1>1, <2>1, <2>2, <2>3, <2>4, <2>6 DEF Posted
  <2>8. KeyInv'
    BY <1>1, <2>3, <2>4, <2>6, <2>7, OneRequest DEF Only, Begun
  <2>9. ReqOK'
    BY <1>1, <2>6 DEF ReqOK, Only
  <2> QED BY <2>8, <2>9
<1> QED BY <1>2, <1>3 DEF Insert
LEMMA PersistKeeps ==
  ASSUME ReqOK, KeyInv, NEW r \in Post, Persist(r)
  PROVE  KeyInv' /\ ReqOK'
<1> DEFINE status == IF post[r].answer = "created" THEN "completed" ELSE "failed"
           told(k) == [k EXCEPT !.tx = post[r].told, !.status = status]
           n(k) == IF k.by = r THEN told(k) ELSE k
<1>0. keys' = {n(k) : k \in keys}
  <2>1. keys' = Persisted(r)
    BY DEF Persist
  <2>2. Persisted(r) = {n(k) : k \in keys}
    BY Zenon DEF Persisted
  <2> HIDE DEF n
  <2> QED BY <2>1, <2>2
<1> HIDE DEF n
<1>1. post[r].stage = "persist" /\ UNCHANGED <<srv, patch, now>>
  BY DEF Persist
<1>2. /\ post[r] \in PostState /\ post \in [Post -> PostState] /\ now \in Nat
      /\ Posted(r) /\ post[r].answer \in {"created", "rejected", "failed"}
      /\ post[r].told \in Transaction \cup {NoId}
  BY <1>1, PostFields DEF ReqOK, KeyInv, Posted
<1>3. /\ Only(r) /\ post'[r].stage = "done" /\ post'[r].answer = post[r].answer
      /\ post'[r].tx = post[r].tx /\ post'[r].told = post[r].told
      /\ post'[r].at = post[r].at
  BY <1>2 DEF Persist, PostState, Only
<1>4. ASSUME NEW k \in keys
      PROVE  /\ n(k) \in KeyRow /\ n(k).by = k.by /\ n(k).key = k.key
             /\ n(k).body = k.body /\ n(k).created = k.created
             /\ k.by = r => n(k).status = status /\ n(k).tx = post[r].told
             /\ k.by # r => n(k) = k
  <2>1. k \in KeyRow /\ status \in {"pending", "completed", "failed"}
    BY DEF ReqOK
  <2> HIDE DEF status
  <2>2. /\ told(k) \in KeyRow /\ told(k).by = k.by /\ told(k).key = k.key
        /\ told(k).body = k.body /\ told(k).created = k.created
        /\ told(k).status = status /\ told(k).tx = post[r].told
    BY <1>2, <2>1 DEF KeyRow
  <2>3. n(k) = IF k.by = r THEN told(k) ELSE k
    BY DEF n
  <2> HIDE DEF told
  <2> QED BY <2>1, <2>2, <2>3
<1>5. /\ \A k \in keys' : \E l \in keys : k = n(l)
      /\ \A l \in keys : n(l) \in keys'
  BY <1>0
<1>6. status = "failed" => post[r].answer \in {"failed", "rejected"}
  BY <1>2
<1>7. status = "completed" => post[r].answer = "created"
  OBVIOUS
<1>8. status # "pending"
  OBVIOUS
<1> HIDE DEF told, status
<1>9. \A q \in Post : /\ post'[q].answer = post[q].answer /\ post'[q].tx = post[q].tx
                      /\ post'[q].told = post[q].told /\ post'[q].at = post[q].at
                      /\ post'[q].key = post[q].key /\ post'[q].body = post[q].body
                      /\ Begun(q) => Begun(q)'
                      /\ Entered(q)' => Entered(q)
                      /\ post[q].stage = "done" => post'[q].stage = "done"
  BY <1>3 DEF Only, Begun, Entered
<1>10. \A q \in Post : Spent(q) => Spent(q)'
  BY <1>1, <1>9 DEF Spent
<1>11. ASSUME NEW q \in Post PROVE Posted(q)'
  <2>1. CASE q = r
    BY <1>1, <1>2, <1>3, <2>1 DEF Posted
  <2>2. CASE q # r
    BY <1>1, <1>3, <1>10, <2>2, PostFields DEF KeyInv, Posted, Only
  <2> QED BY <2>1, <2>2
<1>12. ASSUME NEW q \in Post PROVE Covered(q)'
  <2>1. Covered(q)
    BY DEF KeyInv
  <2>2. ASSUME NEW k \in keys, k.by = q PROVE \E l \in keys' : l.by = q
    BY <1>4, <1>5, <2>2
  <2> QED BY <1>1, <1>9, <2>1, <2>2 DEF Covered
<1>13. ASSUME NEW m \in keys' PROVE RowOK(m)'
  <2>1. PICK k \in keys : m = n(k)
    BY <1>5
  <2>2. k.by \in Post /\ RowOK(k)
    BY RowFields DEF KeyInv
  <2>3. CASE k.by = r
    BY <1>3, <1>4, <1>6, <1>7, <1>9, <2>1, <2>2, <2>3 DEF RowOK
  <2>4. CASE k.by # r
    BY <1>4, <1>9, <2>1, <2>2, <2>4 DEF RowOK
  <2> QED BY <2>3, <2>4
<1>14. ASSUME NEW q \in Post, NEW s \in Post PROVE Apart(q, s)'
  BY <1>9 DEF KeyInv, Apart
<1>15. ASSUME NEW q \in Post, post'[q].answer = "replayed"
       PROVE  \E s \in Post : Source(q, post[q].told, s)'
  <2>1. PICK s \in Post : Source(q, post[q].told, s)
    BY <1>9, <1>15 DEF KeyInv
  <2> QED BY <1>1, <1>9, <2>1 DEF Source
<1>16. KeyInv'
  BY <1>11, <1>12, <1>13, <1>14, <1>15 DEF KeyInv
<1>17. keys' \subseteq KeyRow /\ \A k, l \in keys' : k.key = l.key => k = l
  BY <1>4, <1>5 DEF ReqOK
<1>18. ReqOK'
  BY <1>1, <1>3, <1>17 DEF ReqOK, Only
<1> QED BY <1>16, <1>18

\* The rows the cleanup job removes are older than the stale threshold.
LEMMA CleanupKeeps ==
  ASSUME ReqOK, KeyInv, Cleanup
  PROVE  KeyInv' /\ ReqOK'
<1>1. UNCHANGED <<srv, post, patch, now>> /\ keys' = {k \in keys : k.created + Ttl > now}
  BY DEF Cleanup
<1>2. keys' \subseteq keys
  BY <1>1
<1>3. ASSUME NEW k \in keys, k \notin keys' PROVE now - post[k.by].at > Stale
  <2>1. k.created \in Nat /\ k.created = post[k.by].at /\ now \in Nat
    BY RowFields DEF KeyInv, RowOK, ReqOK
  <2> QED BY <1>1, <1>3, <2>1, TimesAssumption
<1>4. ASSUME NEW r \in Post PROVE Posted(r)'
  BY <1>1 DEF KeyInv, Posted, Spent, Begun
<1>5. ASSUME NEW r \in Post PROVE Covered(r)'
  <2>1. Covered(r)
    BY DEF KeyInv
  <2>2. ASSUME NEW k \in keys, k.by = r, k \notin keys' PROVE now - post[r].at > Stale
    BY <1>3, <2>2
  <2> QED BY <1>1, <2>1, <2>2 DEF Covered, Entered
<1>6. \A k \in keys' : RowOK(k)'
  BY <1>1, <1>2 DEF KeyInv, RowOK, Begun
<1>7. /\ \A r, s \in Post : Apart(r, s)'
      /\ \A r \in Post : post'[r].answer = "replayed" =>
           \E s \in Post : Source(r, post[r].told, s)'
  BY <1>1 DEF KeyInv, Apart, Entered, Source
<1>8. KeyInv'
  BY <1>4, <1>5, <1>6, <1>7 DEF KeyInv
<1>9. ReqOK'
  BY <1>1, <1>2 DEF ReqOK
<1> QED BY <1>8, <1>9
-----------------------------------------------------------------------------
(* What a PATCH keeps of the row it read.                                  *)

\* Between the read and the write the row is the one read, or a later version.
Checked(p) ==
  patch[p].stage \in {"check", "write"} =>
    LET r == srv.rec[patch[p].to.id]
    IN  /\ patch[p].version <= patch[p].seen.ver /\ patch[p].seen.ver <= r.ver
        /\ r.ver = patch[p].seen.ver => r = patch[p].seen

PatchInv == \A p \in Patch : Checked(p)

LEMMA PatchFields ==
  ASSUME ReqOK, NEW p \in Patch
  PROVE  /\ patch[p].version \in Nat /\ patch[p].seen \in Row
         /\ patch[p].seen.ver \in Nat
         /\ patch[p].to \in Change /\ patch[p].to.id \in Transaction
         /\ patch[p].to.id \in Id
BY ChangeFields, TransactionKind DEF ReqOK, PatchState, Row

LEMMA RowVersion ==
  ASSUME SrvOK(srv), NEW i \in Id
  PROVE  srv.rec[i] \in Row /\ srv.rec[i].ver \in Nat
BY DEF SrvOK, Row

\* A PATCH that is not a write's own step.
LEMMA CheckedStays ==
  ASSUME SrvOK(srv), SrvOK(srv'), ReqOK, Advances(srv, srv'), NEW p \in Patch,
         patch'[p] = patch[p] \/ patch'[p].stage \in {"idle", "done"}, Checked(p)
  PROVE  Checked(p)'
<1>1. CASE patch'[p].stage \in {"idle", "done"}
  BY <1>1 DEF Checked
<1>2. CASE patch'[p] = patch[p]
  <2>1. LET i == patch[p].to.id
        IN  /\ i \in Id /\ srv.rec[i].ver \in Nat /\ patch[p].seen.ver \in Nat
            /\ patch[p].version \in Nat
            /\ srv'.rec[i] = srv.rec[i] \/ srv'.rec[i].ver = srv.rec[i].ver + 1
    BY PatchFields, RowVersion DEF Advances
  <2> QED BY <1>2, <2>1 DEF Checked
<1> QED BY <1>1, <1>2

\* What a step of a PATCH does to it.
LEMMA PatchEffect ==
  ASSUME SrvOK(srv), ReqOK, NEW p \in Patch, Start(p) \/ CheckPatch(p) \/ Write(p)
  PROVE  /\ patch' \in [Patch -> PatchState]
         /\ \A q \in Patch \ {p} : patch'[q] = patch[q]
         /\ UNCHANGED <<keys, post, now>>
         /\ \/ /\ Live(srv, patch[p].to.id)
               /\ patch'[p].stage = "check" /\ srv' = srv
               /\ patch'[p].seen = srv.rec[patch[p].to.id]
               /\ patch'[p].to = patch[p].to /\ patch'[p].answer = patch[p].answer
               /\ patch'[p].version <= srv.rec[patch[p].to.id].ver
            \/ /\ patch[p].stage = "check" /\ patch'[p].stage = "write" /\ srv' = srv
               /\ RefValid(Effective(p, patch[p].seen.data).category,
                           patch[p].seen.data.category)
               /\ patch'[p].seen = patch[p].seen /\ patch'[p].to = patch[p].to
               /\ patch'[p].version = patch[p].version
               /\ patch'[p].answer = patch[p].answer
            \/ patch'[p].stage = "done" /\ patch'[p].answer = "rejected"
            \/ /\ patch[p].stage = "write" /\ Writes(p)
               /\ patch'[p].stage = "done" /\ patch'[p].answer = "updated"
<1>1. patch \in [Patch -> PatchState] /\ patch[p] \in PatchState
  BY DEF ReqOK
<1>2. UNCHANGED <<keys, post, now>>
  BY DEF Start, CheckPatch, Write
<1>3. ASSUME NEW a \in {"updated", "rejected"},
             patch' = [patch EXCEPT ![p].stage = "done", ![p].answer = a]
      PROVE  /\ patch' \in [Patch -> PatchState]
             /\ \A q \in Patch \ {p} : patch'[q] = patch[q]
             /\ patch'[p].stage = "done" /\ patch'[p].answer = a
  BY <1>1, <1>3 DEF PatchState
<1>4. CASE Start(p)
  <2>1. srv' = srv
    BY <1>4 DEF Start
  <2>2. CASE Live(srv, patch[p].to.id)
    <3>1. srv.rec[patch[p].to.id] \in Row /\ srv.rec[patch[p].to.id].ver \in Nat
      BY PatchFields, RowVersion
    <3>2. PICK v \in 1..srv.rec[patch[p].to.id].ver :
            patch' = [patch EXCEPT ![p].stage = "check", ![p].version = v,
                                   ![p].seen = srv.rec[patch[p].to.id]]
      BY <1>4, <2>2 DEF Start
    <3>3. v \in Nat /\ v <= srv.rec[patch[p].to.id].ver
      BY <3>1
    <3> QED BY <1>1, <1>2, <2>1, <2>2, <3>1, <3>2, <3>3 DEF PatchState
  <2>3. CASE ~ Live(srv, patch[p].to.id)
    BY <1>2, <1>3, <1>4, <2>3 DEF Start
  <2> QED BY <2>2, <2>3
<1>5. CASE CheckPatch(p)
  <2>1. srv' = srv /\ patch[p].stage = "check"
    BY <1>5 DEF CheckPatch
  <2>2. CASE patch' = [patch EXCEPT ![p].stage = "write"]
    <3>1. RefValid(Effective(p, patch[p].seen.data).category,
                   patch[p].seen.data.category)
      BY <1>1, <1>5, <2>2 DEF CheckPatch, PatchState
    <3> QED BY <1>1, <1>2, <2>1, <2>2, <3>1 DEF PatchState
  <2>3. CASE patch' = [patch EXCEPT ![p].stage = "done", ![p].answer = "rejected"]
    BY <1>2, <1>3, <2>3
  <2> QED BY <1>5, <2>2, <2>3 DEF CheckPatch
<1>6. CASE Write(p)
  <2>1. CASE Writes(p)
    <3>1. /\ patch[p].stage = "write"
          /\ patch' = [patch EXCEPT ![p].stage = "done", ![p].answer = "updated"]
      BY <1>6, <2>1 DEF Write
    <3> QED BY <1>2, <1>3, <2>1, <3>1
  <2>2. CASE ~ Writes(p)
    BY <1>2, <1>3, <1>6, <2>2 DEF Write
  <2> QED BY <2>1, <2>2
<1> QED BY <1>4, <1>5, <1>6

LEMMA PatchKeeps ==
  ASSUME SrvOK(srv), SrvOK(srv'), Advances(srv, srv'), ReqOK, KeyInv, Keeps, PatchInv,
         NEW p \in Patch, Start(p) \/ CheckPatch(p) \/ Write(p)
  PROVE  KeyInv' /\ ReqOK' /\ PatchInv'
<1>1. /\ patch' \in [Patch -> PatchState]
      /\ \A q \in Patch \ {p} : patch'[q] = patch[q]
      /\ UNCHANGED <<keys, post, now>>
  BY PatchEffect
<1>2. ReqOK'
  BY <1>1 DEF ReqOK
<1>3. KeyInv'
  BY <1>1, Quiet DEF ReqOK
<1>4. ASSUME NEW q \in Patch PROVE Checked(q)'
  <2>1. CASE q # p \/ patch'[q].stage = "done"
    BY <1>1, <2>1, CheckedStays DEF PatchInv
  <2>2. CASE q = p /\ patch'[p].stage # "done"
    <3>1. CASE srv' = srv /\ patch'[p].stage = "check"
               /\ patch'[p].seen = srv.rec[patch[p].to.id]
               /\ patch'[p].to = patch[p].to
               /\ patch'[p].version <= srv.rec[patch[p].to.id].ver
      <4>1. srv.rec[patch[p].to.id].ver \in Nat
        BY PatchFields, RowVersion
      <4> QED BY <2>2, <3>1, <4>1 DEF Checked
    <3>2. CASE srv' = srv /\ patch[p].stage = "check"
               /\ patch'[p].seen = patch[p].seen /\ patch'[p].to = patch[p].to
               /\ patch'[p].version = patch[p].version
      BY <2>2, <3>2 DEF PatchInv, Checked
    <3> QED BY <2>2, <3>1, <3>2, PatchEffect
  <2> QED BY <2>1, <2>2
<1> QED BY <1>2, <1>3, <1>4 DEF PatchInv

-----------------------------------------------------------------------------
(* The invariant.                                                          *)

IInv == SrvOK(srv) /\ ReqOK /\ KeyInv /\ PatchInv

LEMMA InitHolds ==
  ASSUME Init PROVE IInv
<1>1. SrvOK(srv)
  <2>1. Absent \in Row /\ Absent.ver = 0
    BY DEF Absent, Row
  <2> QED BY <2>1 DEF Init, EmptyServer, SrvOK, Found
<1>2. PICK k \in [Post -> Key], b \in [Post -> Body] :
        post = [q \in Post |-> [stage |-> "idle", key |-> k[q], body |-> b[q],
                 at |-> 0, target |-> q, tx |-> NoId, answer |-> "none",
                 told |-> NoId]]
  BY DEF Init
<1>3. PICK c \in [Patch -> Change] :
        patch = [p \in Patch |-> [stage |-> "idle", to |-> c[p], version |-> 0,
                  seen |-> Absent, answer |-> "none"]]
  BY DEF Init
<1>4. keys = {} /\ now = 0
  BY DEF Init
<1>5. post \in [Post -> PostState]
  BY <1>2 DEF PostState
<1>6. patch \in [Patch -> PatchState]
  <2>1. Absent \in Row
    BY DEF Absent, Row
  <2> QED BY <1>3, <2>1 DEF PatchState
<1>7. ReqOK
  BY <1>4, <1>5, <1>6 DEF ReqOK
<1>8. \A r \in Post : /\ post[r].stage = "idle" /\ post[r].at = 0
                      /\ post[r].answer = "none" /\ post[r].tx = NoId
  BY <1>2
<1>9. KeyInv
  BY <1>4, <1>8 DEF KeyInv, Posted, Covered, Entered, Apart
<1>10. PatchInv
  BY <1>3 DEF PatchInv, Checked
<1> QED BY <1>1, <1>7, <1>9, <1>10 DEF IInv

LEMMA NextHolds ==
  ASSUME IInv, [Next]_vars PROVE IInv'
<1>1. SrvOK(srv) /\ ReqOK /\ KeyInv /\ PatchInv /\ SrvOK(srv') /\ Advances(srv, srv')
  BY ServerStep DEF IInv
<1>2. Keeps
  BY <1>1, FoundStays DEF Keeps
<1>3. patch' = patch => PatchInv'
  BY <1>1, CheckedStays DEF PatchInv
<1>4. ASSUME NEW r \in Post, \/ Register(r) \/ Dispatch(r) \/ Drop(r)
                             \/ CheckPost(r) \/ Insert(r) \/ Persist(r)
      PROVE  IInv'
  <2>1. patch' = patch
    BY <1>4 DEF Register, Dispatch, Drop, CheckPost, Insert, Persist
  <2>2. KeyInv' /\ ReqOK'
    BY <1>1, <1>2, <1>4, RegisterKeeps, DispatchKeeps, DropKeeps, CheckPostKeeps,
       InsertKeeps, PersistKeeps
  <2> QED BY <1>1, <1>3, <2>1, <2>2 DEF IInv
<1>5. ASSUME NEW p \in Patch, Start(p) \/ CheckPatch(p) \/ Write(p) PROVE IInv'
  BY <1>1, <1>2, <1>5, PatchKeeps DEF IInv
<1>6. CASE Cleanup
  <2>1. patch' = patch
    BY <1>6 DEF Cleanup
  <2> QED BY <1>1, <1>3, <1>6, <2>1, CleanupKeeps DEF IInv
<1>7. CASE UNCHANGED <<keys, post, patch>> /\ (now' = now \/ now' = now + 1)
  <2>1. now' \in Nat /\ now <= now'
    BY <1>1, <1>7 DEF ReqOK
  <2>2. ReqOK'
    BY <1>1, <1>7, <2>1 DEF ReqOK
  <2>3. KeyInv'
    BY <1>1, <1>2, <1>7, <2>1, Quiet
  <2> QED BY <1>1, <1>3, <1>7, <2>2, <2>3 DEF IInv
<1>8. CASE Tick
  BY <1>7, <1>8 DEF Tick
<1>9. CASE UNCHANGED vars
  BY <1>7, <1>9 DEF vars
<1>10. ASSUME NEW t \in Transaction, DeleteTransaction(t) PROVE IInv'
  BY <1>7, <1>10 DEF DeleteTransaction
<1>11. CASE \E c \in Category :
              \/ \E d \in PayloadOf(c) : CreateCategory(c, d)
              \/ ArchiveCategory(c)
              \/ \E cascade \in BOOLEAN, order \in Orders :
                   DeleteCategory(c, cascade, order)
  BY <1>7, <1>11 DEF CreateCategory, ArchiveCategory, DeleteCategory
<1> QED BY <1>4, <1>5, <1>6, <1>8, <1>9, <1>10, <1>11 DEF Next

LEMMA Inductive == Spec => []IInv
<1>1. Init => IInv
  BY InitHolds
<1>2. IInv /\ [Next]_vars => IInv'
  BY NextHolds
<1> QED BY <1>1, <1>2, PTL DEF Spec

-----------------------------------------------------------------------------
(* The theorems.                                                           *)

\* The household, the keys and the requests keep their types, and a key has
\* one row, whatever order requests, writes and the cleanup job run in.
THEOREM Typed == Spec => []TypeOK
<1>1. IInv => TypeOK
  BY TypeParts DEF IInv
<1> QED BY <1>1, Inductive, PTL

\* Two requests with one key commit two transactions only if the second came
\* after the stale threshold, or one of the clients was told of a failure.
THEOREM RetriesWait == Spec => []RetryWaitsOut
<1>1. ASSUME IInv PROVE RetryWaitsOut
  <2> SUFFICES ASSUME NEW r \in Post, NEW s \in Post, r # s,
                      post[r].key = post[s].key,
                      post[r].tx # NoId, post[s].tx # NoId
               PROVE  \/ post[s].at - post[r].at > Stale
                      \/ post[r].at - post[s].at > Stale
                      \/ post[r].answer = "failed" \/ post[s].answer = "failed"
    BY DEF RetryWaitsOut
  <2>1. Entered(r) /\ Entered(s) /\ Apart(r, s)
    BY <1>1 DEF Entered, IInv, KeyInv
  <2> QED BY <2>1 DEF Apart
<1> QED BY <1>1, Inductive, PTL

\* A replay names a transaction that a request with the key and the body
\* committed, and that is still on record.
THEOREM ReplaysAreTrue == Spec => []ReplayIsTrue
<1>1. ASSUME IInv PROVE ReplayIsTrue
  <2> SUFFICES ASSUME NEW r \in Post, post[r].answer = "replayed"
               PROVE  \E s \in Post \ {r} :
                        /\ post[s].key = post[r].key /\ post[s].body = post[r].body
                        /\ post[s].tx = post[r].told /\ post[s].answer = "created"
                        /\ Found(srv, post[r].told)
    BY DEF ReplayIsTrue
  <2>1. PICK s \in Post : Source(r, post[r].told, s)
    BY <1>1 DEF IInv, KeyInv
  <2> QED BY <2>1 DEF Source
<1> QED BY <1>1, Inductive, PTL

\* An update replaces the row its references were checked against.
THEOREM UpdatesReplaceWhatTheyChecked == Spec => ReplacesWhatItChecked
<1>1. ASSUME IInv, [Next]_vars, NEW p \in Patch,
             patch[p].answer # "updated", patch'[p].answer = "updated"
      PROVE  patch[p].seen = srv.rec[patch[p].to.id]
  <2>1. SrvOK(srv) /\ ReqOK /\ Checked(p)
    BY <1>1 DEF IInv, PatchInv
  <2>2. ASSUME NEW q \in Patch, Start(q) \/ CheckPatch(q) \/ Write(q)
        PROVE  patch[p].stage = "write" /\ Writes(p)
    <3>1. q = p
      BY <1>1, <2>1, <2>2, PatchEffect
    <3> QED BY <1>1, <2>1, <2>2, <3>1, PatchEffect
  <2>3. \/ \E q \in Patch : Start(q) \/ CheckPatch(q) \/ Write(q)
        \/ patch' = patch
    BY <1>1 DEF Next, vars, Register, Dispatch, Drop, CheckPost, Insert, Persist,
         DeleteTransaction, CreateCategory, ArchiveCategory, DeleteCategory, Cleanup,
         Tick
  <2>4. patch[p].stage = "write" /\ Writes(p)
    BY <1>1, <2>2, <2>3
  <2>5. srv.rec[patch[p].to.id].ver \in Nat /\ patch[p].seen.ver \in Nat
    BY <2>1, PatchFields, RowVersion
  <2> QED BY <2>1, <2>4, <2>5 DEF Checked, Writes
<1>2. IInv /\ [Next]_vars =>
        [\A p \in Patch :
           patch[p].answer # "updated" /\ patch'[p].answer = "updated" =>
             patch[p].seen = srv.rec[patch[p].to.id]]_vars
  BY <1>1
<1> QED BY <1>2, Inductive, PTL DEF Spec, ReplacesWhatItChecked
-----------------------------------------------------------------------------
(* Transactions without their category.                                    *)

\* The log has t's last write after the tombstone of its category.
Late(s, t) ==
  \E e, f \in s.log :
    /\ e.id = s.rec[t].data.category /\ e.action = "tombstone"
    /\ f.id = t /\ e.seq < f.seq /\ f.ver = s.rec[t].ver

\* ... for all that are not of a category in X.
Orphans(s, X) ==
  \A t \in Transaction :
    Live(s, t) /\ ~ Live(s, s.rec[t].data.category)
      /\ s.rec[t].data.category \notin X => Late(s, t)

\* The log ends at the sequence number and tells of every deleted category.
LogTells(s) ==
  /\ \A e \in s.log : e.seq <= s.seq
  /\ \A c \in Category : Found(s, c) /\ s.rec[c].deleted =>
       \E e \in s.log : e.id = c /\ e.action = "tombstone"

\* What a request is about to refer to was there when it was checked.
RefInv ==
  /\ \A r \in Post : post[r].stage = "insert" =>
       Found(srv, post[r].body.data.category)
  /\ \A p \in Patch : patch[p].stage \in {"check", "write"} =>
       patch[p].seen.data \in PayloadOf(patch[p].to.id)
  /\ \A p \in Patch : patch[p].stage = "write" =>
       Found(srv, Effective(p, patch[p].seen.data).category)

LateInv == RefInv /\ LogTells(srv) /\ Orphans(srv, {})

LEMMA CategoryOf ==
  ASSUME NEW s, SrvOK(s), NEW t \in Transaction, Found(s, t)
  PROVE  s.rec[t].data.category \in Category /\ s.rec[t].data.category \in Id
BY TransactionKind DEF SrvOK, Id

\* A row is written: of a transaction, to a category that was there; a
\* category is not deleted while transactions refer to it, or is in X.
LEMMA LoggedLate ==
  ASSUME NEW s, SrvOK(s), LogTells(s), Orphans(s, {}), NEW X,
         NEW i \in Id, NEW r \in Row, r.ver > 0, r.data \in PayloadOf(i),
         i \in Transaction /\ ~ r.deleted => Found(s, r.data.category),
         i \in Category /\ r.deleted => Dependants(s, i) = {} \/ i \in X
  PROVE  LogTells(Logged(s, i, r)) /\ Orphans(Logged(s, i, r), X)
<1> DEFINE m == Logged(s, i, r)
           e == [seq |-> s.seq + 1, id |-> i, ver |-> r.ver,
                 action |-> IF r.deleted THEN "tombstone" ELSE "upsert"]
<1>1. /\ m.rec = [s.rec EXCEPT ![i] = r] /\ m.log = s.log \cup {e}
      /\ m.seq = s.seq + 1
  BY DEF Logged
<1>2. /\ e.seq = s.seq + 1 /\ e.id = i /\ e.ver = r.ver
      /\ r.deleted => e.action = "tombstone"
  OBVIOUS
<1> HIDE DEF m, e
<1>3. /\ s.rec \in [Id -> Row] /\ s.seq \in Nat
      /\ \A f \in s.log : f.seq \in Nat
  BY DEF SrvOK, Entry
<1>4. /\ m.rec[i] = r /\ \A j \in Id \ {i} : m.rec[j] = s.rec[j]
      /\ e \in m.log /\ \A f \in s.log : f \in m.log
  BY <1>1, <1>3
<1>5. LogTells(m)
  <2>1. \A f \in m.log : f.seq <= m.seq
    BY <1>1, <1>2, <1>3 DEF LogTells
  <2>2. ASSUME NEW c \in Category, Found(m, c), m.rec[c].deleted
        PROVE  \E f \in m.log : f.id = c /\ f.action = "tombstone"
    <3>1. CASE c = i
      BY <1>2, <1>4, <2>2, <3>1
    <3>2. CASE c # i
      BY <1>4, <2>2, <3>2 DEF LogTells, Found, Id
    <3> QED BY <3>1, <3>2
  <2> QED BY <2>1, <2>2 DEF LogTells
<1>6. ASSUME NEW t \in Transaction, Live(m, t), ~ Live(m, m.rec[t].data.category),
             m.rec[t].data.category \notin X
      PROVE  Late(m, t)
  <2> DEFINE c == m.rec[t].data.category
  <2>1. t \in Id /\ t \notin Category
    BY TransactionKind
  <2>2. CASE t = i
    <3>1. c \in Category /\ c \in Id /\ c # i
      BY <1>4, <2>1, <2>2, TransactionKind DEF Id
    <3>2. Found(s, c) /\ ~ Live(s, c)
      BY <1>4, <1>6, <2>2, <3>1 DEF Live, Found
    <3>3. PICK f \in s.log : f.id = c /\ f.action = "tombstone"
      BY <3>1, <3>2 DEF LogTells, Live
    <3>4. f.seq < e.seq /\ e.ver = m.rec[t].ver
      BY <1>2, <1>3, <1>4, <2>2 DEF LogTells
    <3> QED BY <1>2, <1>4, <2>2, <3>3, <3>4 DEF Late
  <2>3. CASE t # i
    <3>1. m.rec[t] = s.rec[t] /\ Live(s, t)
      BY <1>4, <1>6, <2>1, <2>3 DEF Live, Found
    <3>2. c \in Category /\ c \in Id
      BY <3>1, CategoryOf DEF Live
    <3>3. ~ Live(s, c)
      <4>1. CASE c = i
        <5>1. r.deleted
          BY <1>4, <1>6, <4>1 DEF Live, Found
        <5> QED BY <1>6, <3>1, <3>2, <4>1, <5>1 DEF Dependants
      <4>2. CASE c # i
        BY <1>4, <1>6, <3>2, <4>2 DEF Live, Found
      <4> QED BY <4>1, <4>2
    <3>4. Late(s, t)
      BY <3>1, <3>3 DEF Orphans
    <3> QED BY <1>4, <3>1, <3>4 DEF Late
  <2> QED BY <2>2, <2>3
<1> QED BY <1>5, <1>6 DEF Orphans, m

\* The cascade takes the transactions of its category with it.
LEMMA CascadedLate ==
  ASSUME NEW s, SrvOK(s), LogTells(s), NEW c \in Category, NEW order \in Orders,
         Orphans(s, {c})
  PROVE  LogTells(Cascaded(s, c, order)) /\ Orphans(Cascaded(s, c, order), {})
<1> DEFINE m == Cascaded(s, c, order)
           D == Dependants(s, c)
           E == {[seq |-> s.seq + order[t], id |-> t, action |-> "tombstone",
                  ver |-> s.rec[t].ver + 1] : t \in D}
<1>1. /\ m.rec = [i \in Id |-> IF i \in D THEN Tombstoned(s, i) ELSE s.rec[i]]
      /\ m.log = s.log \cup E /\ m.seq = s.seq + Cardinality(Transaction)
  BY DEF Cascaded
<1>2. /\ D \subseteq Transaction
      /\ \A t \in Transaction : Live(s, t) /\ s.rec[t].data.category = c => t \in D
      /\ \A t \in D : Tombstoned(s, t).deleted
  BY DEF Dependants, Tombstoned
<1>3. s.seq \in Nat /\ \A f \in s.log : f.seq \in Nat
  BY DEF SrvOK, Entry
<1>4. \A f \in E : f.seq <= s.seq + Cardinality(Transaction)
  <2>1. \A t \in D : order[t] \in 1..Cardinality(Transaction)
    BY <1>2 DEF Orders
  <2>2. SUFFICES ASSUME NEW t \in D
                 PROVE  s.seq + order[t] <= s.seq + Cardinality(Transaction)
    OBVIOUS
  <2> QED BY <1>3, <2>1, CardinalityTransaction
<1> HIDE DEF m, D, E
<1>5. /\ \A i \in Id : m.rec[i] = IF i \in D THEN Tombstoned(s, i) ELSE s.rec[i]
      /\ \A f \in s.log : f \in m.log
  BY <1>1
<1>6. \A k \in Category : k \in Id /\ m.rec[k] = s.rec[k]
  BY <1>2, <1>5, KindsDisjoint DEF Id
<1>7. LogTells(m)
  <2>1. \A f \in m.log : f.seq <= m.seq
    BY <1>1, <1>3, <1>4, CardinalityTransaction DEF LogTells
  <2> QED BY <1>5, <1>6, <2>1 DEF LogTells, Found
<1>8. ASSUME NEW t \in Transaction, Live(m, t), ~ Live(m, m.rec[t].data.category)
      PROVE  Late(m, t)
  <2>1. t \in Id /\ t \notin D /\ m.rec[t] = s.rec[t] /\ Live(s, t)
    BY <1>2, <1>5, <1>8, TransactionKind DEF Live, Found
  <2>2. s.rec[t].data.category \in Category /\ s.rec[t].data.category # c
    BY <1>2, <2>1, CategoryOf DEF Live
  <2>3. ~ Live(s, s.rec[t].data.category)
    BY <1>6, <1>8, <2>1, <2>2 DEF Live, Found
  <2>4. Late(s, t)
    BY <2>1, <2>2, <2>3 DEF Orphans
  <2> QED BY <1>5, <2>1, <2>4 DEF Late
<1> QED BY <1>7, <1>8 DEF Orphans, m

\* A record that is deleted or goes to its next version was there before.
LEMMA NextRow ==
  ASSUME NEW s, SrvOK(s), NEW i \in Id, Found(s, i)
  PROVE  /\ s.rec[i] \in Row /\ s.rec[i].ver \in Nat /\ s.rec[i].ver + 1 > 0
         /\ s.rec[i].data \in PayloadOf(i)
BY DEF SrvOK, Row

LEMMA InsertLate ==
  ASSUME IInv, LateInv, NEW r \in Post, Insert(r)
  PROVE  LogTells(srv') /\ Orphans(srv', {})
<1> USE DEF IInv, LateInv
<1>1. CASE srv' = srv
  BY <1>1
<1>2. ASSUME NEW t \in IdsFor(post[r].body), ~ Found(srv, t),
             srv' = Logged(srv, t, [ver |-> 1, deleted |-> FALSE,
                                    data |-> post[r].body.data])
      PROVE  LogTells(srv') /\ Orphans(srv', {})
  <2> DEFINE d == post[r].body.data
             n == [ver |-> 1, deleted |-> FALSE, data |-> d]
  <2>1. post[r].body \in Body
    BY PostFields
  <2>2. t \in Transaction /\ t \in Id /\ t \notin Category
    BY <2>1, BodyFields, TransactionKind DEF IdsFor
  <2>3. d \in PayloadOf(t) /\ d \in Payload
    BY <2>1, <2>2, BodyFields DEF PayloadOf
  <2>4. Found(srv, d.category)
    BY DEF RefInv, Insert
  <2>5. n \in Row /\ n.ver > 0 /\ n.data = d /\ ~ n.deleted
    BY <2>3 DEF Row
  <2> HIDE DEF n, d
  <2>6. srv' = Logged(srv, t, n)
    BY <1>2 DEF n, d
  <2> QED BY <2>2, <2>3, <2>4, <2>5, <2>6, LoggedLate
<1> QED BY <1>1, <1>2 DEF Insert

LEMMA WriteLate ==
  ASSUME IInv, LateInv, NEW p \in Patch, Write(p)
  PROVE  LogTells(srv') /\ Orphans(srv', {})
<1> USE DEF IInv, LateInv
<1>1. CASE srv' = srv
  BY <1>1
<1>2. CASE Writes(p)
  <2> DEFINE t == patch[p].to.id
             r == srv.rec[t]
             d == Effective(p, r.data)
             n == [ver |-> r.ver + 1, deleted |-> FALSE, data |-> d]
  <2>1. t \in Transaction /\ t \in Id /\ t \notin Category /\ Found(srv, t)
    BY <1>2, PatchFields, TransactionKind DEF Writes, Live
  <2>2. r \in Row /\ r.ver \in Nat /\ r.data \in PayloadOf(t)
    BY <2>1, NextRow
  <2>3. d \in PayloadOf(t) /\ d \in Payload
    BY <2>1, <2>2, EffectiveOK DEF PayloadOf
  <2>4. r = patch[p].seen
    <3>1. Checked(p) /\ patch[p].stage = "write"
      BY DEF PatchInv, Write
    <3>2. patch[p].seen.ver \in Nat /\ patch[p].version \in Nat
      BY PatchFields
    <3> QED BY <1>2, <2>2, <3>1, <3>2 DEF Checked, Writes
  <2>5. Found(srv, d.category)
    BY <2>4 DEF RefInv, Write
  <2>6. n \in Row /\ n.ver > 0 /\ n.data = d /\ ~ n.deleted
    BY <2>2, <2>3 DEF Row
  <2>7. srv' = Logged(srv, t, n)
    BY <1>2 DEF Write
  <2> HIDE DEF n, d, t
  <2> QED BY <2>1, <2>3, <2>5, <2>6, <2>7, LoggedLate
<1> QED BY <1>1, <1>2 DEF Write

\* A record is deleted that nothing refers to.
LEMMA DeleteLate ==
  ASSUME NEW s, SrvOK(s), LogTells(s), Orphans(s, {}), NEW X, NEW i \in Id,
         Found(s, i), i \in Category => Dependants(s, i) = {} \/ i \in X
  PROVE  LET m == Logged(s, i, Tombstoned(s, i))
         IN  LogTells(m) /\ Orphans(m, X)
<1>1. /\ Tombstoned(s, i) \in Row /\ Tombstoned(s, i).deleted
      /\ Tombstoned(s, i).ver = s.rec[i].ver + 1
      /\ Tombstoned(s, i).data \in PayloadOf(i)
  BY TombstonedOK
<1>2. Tombstoned(s, i).ver > 0
  BY <1>1, NextRow
<1> QED BY <1>1, <1>2, LoggedLate

LEMMA CategoryLate ==
  ASSUME IInv, LateInv, NEW c \in Category,
         \/ \E d \in PayloadOf(c) : CreateCategory(c, d)
         \/ ArchiveCategory(c)
         \/ \E cascade \in BOOLEAN, order \in Orders : DeleteCategory(c, cascade, order)
  PROVE  LogTells(srv') /\ Orphans(srv', {})
<1> USE DEF IInv, LateInv
<1>1. c \in Id /\ c \notin Transaction
  BY KindsDisjoint DEF Id
<1>2. ASSUME NEW d \in PayloadOf(c), CreateCategory(c, d)
      PROVE  LogTells(srv') /\ Orphans(srv', {})
  <2> DEFINE n == [ver |-> 1, deleted |-> FALSE, data |-> d]
  <2>1. n \in Row /\ n.ver > 0 /\ n.data = d /\ ~ n.deleted
    BY DEF PayloadOf, Row
  <2>2. srv' = Logged(srv, c, n)
    BY <1>2 DEF CreateCategory
  <2> HIDE DEF n
  <2> QED BY <1>1, <2>1, <2>2, LoggedLate
<1>3. CASE ArchiveCategory(c)
  <2> DEFINE r == srv.rec[c]
             d == [r.data EXCEPT !.archived = ~ @]
             n == [ver |-> r.ver + 1, deleted |-> FALSE, data |-> d]
  <2>1. r \in Row /\ r.ver \in Nat /\ r.data \in PayloadOf(c)
    BY <1>1, <1>3, NextRow DEF ArchiveCategory, Live
  <2>2. r.data \in Payload /\ r.data.category = NoCategory
    BY <2>1 DEF PayloadOf
  <2>3. (~ r.data.archived) \in BOOLEAN
    OBVIOUS
  <2>4. d \in Payload /\ d.category = NoCategory
    BY <2>2, <2>3 DEF Payload
  <2>5. d \in PayloadOf(c)
    BY <2>4 DEF PayloadOf
  <2>6. srv' = Logged(srv, c, n)
    BY <1>3 DEF ArchiveCategory
  <2> HIDE DEF d
  <2>7. n \in Row /\ n.ver > 0 /\ n.data = d /\ ~ n.deleted
    BY <2>1, <2>4 DEF Row
  <2> HIDE DEF n
  <2> QED BY <1>1, <2>5, <2>6, <2>7, LoggedLate
<1>4. ASSUME NEW cascade \in BOOLEAN, NEW order \in Orders,
             DeleteCategory(c, cascade, order)
      PROVE  LogTells(srv') /\ Orphans(srv', {})
  <2> DEFINE s == Logged(srv, c, Tombstoned(srv, c))
  <2>1. Found(srv, c) /\ (cascade \/ Dependants(srv, c) = {})
    BY <1>4 DEF DeleteCategory, MayDelete, Live
  <2>2. srv' = IF cascade THEN Cascaded(s, c, order) ELSE s
    BY <1>4 DEF DeleteCategory
  <2>3. SrvOK(s)
    BY <1>1, <1>4, DeleteWrites DEF DeleteCategory, MayDelete
  <2>4. LogTells(s) /\ Orphans(s, {c}) /\ (~ cascade => Orphans(s, {}))
    BY <1>1, <2>1, DeleteLate
  <2> HIDE DEF s
  <2> QED BY <2>2, <2>3, <2>4, CascadedLate
<1> QED BY <1>2, <1>3, <1>4

\* A POST goes on to its insert only with its category there.
LEMMA PostRefs ==
  ASSUME ReqOK, NEW r \in Post, \/ Register(r) \/ Dispatch(r) \/ Drop(r)
                                \/ CheckPost(r) \/ Insert(r) \/ Persist(r)
  PROVE  \A q \in Post :
           /\ post'[q].body = post[q].body
           /\ post'[q].stage = "insert" =>
                \/ post[q].stage = "insert"
                \/ Found(srv, post[q].body.data.category)
<1>1. post \in [Post -> PostState] /\ post[r] \in PostState
  BY DEF ReqOK
<1>2. ASSUME NEW stage \in {"done", "persist"}, NEW answer, NEW told,
             Answered(r, stage, answer, told)
      PROVE  \A q \in Post : /\ post'[q].body = post[q].body
                             /\ post'[q].stage = "insert" => post[q].stage = "insert"
  BY <1>1, <1>2 DEF Answered, PostState
<1>3. CASE Register(r)
  BY <1>3, RegisterEffect DEF Only
<1>4. CASE Dispatch(r)
  <2>1. ASSUME NEW k \in keys,
               post' = [post EXCEPT ![r].stage = "drop", ![r].target = k.by]
        PROVE  \A q \in Post : /\ post'[q].body = post[q].body
                               /\ post'[q].stage = "insert" => post[q].stage = "insert"
    BY <1>1, <2>1 DEF PostState
  <2> QED BY <1>2, <1>4, <2>1 DEF Dispatch
<1>5. CASE Drop(r)
  BY <1>1, <1>5 DEF Drop, PostState
<1>6. CASE CheckPost(r)
  <2>1. CASE RefValid(post[r].body.data.category, NoCategory)
    BY <1>1, <1>6, <2>1 DEF CheckPost, RefValid, Live, PostState
  <2>2. CASE Answered(r, "persist", "rejected", NoId)
    BY <1>2, <2>2
  <2> QED BY <1>6, <2>1, <2>2 DEF CheckPost
<1>7. CASE Insert(r)
  <2>1. ASSUME NEW t, NEW ack \in BOOLEAN,
               post' = [post EXCEPT
                      ![r].stage = "persist", ![r].tx = t,
                      ![r].answer = IF ack THEN "created" ELSE "failed",
                      ![r].told = IF ack THEN t ELSE NoId]
        PROVE  \A q \in Post : /\ post'[q].body = post[q].body
                               /\ post'[q].stage = "insert" => post[q].stage = "insert"
    BY <1>1, <2>1 DEF PostState
  <2> QED BY <1>2, <1>7, <2>1 DEF Insert
<1>8. CASE Persist(r)
  BY <1>1, <1>8 DEF Persist, PostState
<1> QED BY <1>3, <1>4, <1>5, <1>6, <1>7, <1>8

\* A PATCH goes on to its write only with its category there.
LEMMA PatchRefs ==
  ASSUME SrvOK(srv), ReqOK, Keeps, RefInv, NEW p \in Patch,
         UNCHANGED patch \/ \E q \in Patch : Start(q) \/ CheckPatch(q) \/ Write(q)
  PROVE  /\ patch'[p].stage \in {"check", "write"} =>
              patch'[p].seen.data \in PayloadOf(patch'[p].to.id)
         /\ patch'[p].stage = "write" =>
              Found(srv, Effective(p, patch[p].seen.data).category)'
<1> DEFINE t == patch[p].to.id
           c == Effective(p, patch[p].seen.data).category
<1>1. t \in Transaction /\ t \in Id
  BY PatchFields
<1>2. patch[p].stage \in {"check", "write"} =>
        patch[p].seen.data \in PayloadOf(t) /\ c \in Id
  BY <1>1, EffectiveOK, TransactionKind DEF RefInv, Id
<1>3. CASE patch'[p] = patch[p]
  <2>1. Effective(p, patch[p].seen.data)' = Effective(p, patch[p].seen.data)
    BY <1>3 DEF Effective
  <2> QED BY <1>2, <1>3, <2>1 DEF RefInv, Keeps
<1>4. CASE Start(p) \/ CheckPatch(p) \/ Write(p)
  <2>1. CASE /\ Live(srv, t) /\ patch'[p].stage = "check"
             /\ patch'[p].seen = srv.rec[t] /\ patch'[p].to = patch[p].to
    BY <1>1, <2>1, NextRow DEF Live
  <2>2. CASE /\ patch[p].stage = "check" /\ patch'[p].stage = "write" /\ srv' = srv
             /\ RefValid(c, patch[p].seen.data.category)
             /\ patch'[p].seen = patch[p].seen /\ patch'[p].to = patch[p].to
    <3>1. Effective(p, patch[p].seen.data)' = Effective(p, patch[p].seen.data)
      BY <2>2 DEF Effective
    <3> QED BY <1>2, <2>2, <3>1 DEF RefValid, Live
  <2>3. CASE patch'[p].stage = "done"
    BY <2>3
  <2> QED BY <1>4, <2>1, <2>2, <2>3, PatchEffect
<1> QED BY <1>3, <1>4, PatchEffect

LEMMA LateKept ==
  ASSUME IInv, LateInv, [Next]_vars PROVE LateInv'
<1> USE DEF IInv
<1>1. SrvOK(srv') /\ Keeps /\ ReqOK
  BY ServerStep, FoundStays DEF Keeps
<1>2. \A r \in Post : post[r].body.data.category \in Id
  <2> SUFFICES ASSUME NEW r \in Post PROVE post[r].body.data.category \in Id
    OBVIOUS
  <2>1. post[r].body \in Body
    BY PostFields
  <2> QED BY <2>1, BodyAssumption DEF Id
<1>3. \/ post' = post
      \/ \E r \in Post : \/ Register(r) \/ Dispatch(r) \/ Drop(r)
                         \/ CheckPost(r) \/ Insert(r) \/ Persist(r)
  BY DEF Next, vars, Start, CheckPatch, Write, DeleteTransaction, CreateCategory,
     ArchiveCategory, DeleteCategory, Cleanup, Tick
<1>4. \/ patch' = patch
      \/ \E p \in Patch : Start(p) \/ CheckPatch(p) \/ Write(p)
  BY DEF Next, vars, Register, Dispatch, Drop, CheckPost, Insert, Persist,
     DeleteTransaction, CreateCategory, ArchiveCategory, DeleteCategory, Cleanup, Tick
<1>5. ASSUME NEW r \in Post, post'[r].stage = "insert"
      PROVE  Found(srv, post[r].body.data.category)'
  <2>1. /\ post'[r].body = post[r].body
        /\ post[r].stage = "insert" \/ Found(srv, post[r].body.data.category)
    BY <1>3, <1>5, PostRefs
  <2>2. Found(srv, post[r].body.data.category)
    BY <2>1 DEF LateInv, RefInv
  <2> QED BY <1>1, <1>2, <2>1, <2>2 DEF Keeps
<1>6. RefInv'
  BY <1>1, <1>4, <1>5, PatchRefs DEF LateInv, RefInv
<1>7. LogTells(srv') /\ Orphans(srv', {})
  <2>1. CASE srv' = srv
    BY <2>1 DEF LateInv
  <2>2. ASSUME NEW t \in Transaction, DeleteTransaction(t)
        PROVE  LogTells(srv') /\ Orphans(srv', {})
    BY <2>2, TransactionKind, DeleteLate DEF LateInv, DeleteTransaction, Live
  <2>3. \/ srv' = srv
        \/ \E r \in Post : Insert(r)
        \/ \E p \in Patch : Write(p)
        \/ \E t \in Transaction : DeleteTransaction(t)
        \/ \E c \in Category :
             \/ \E d \in PayloadOf(c) : CreateCategory(c, d)
             \/ ArchiveCategory(c)
             \/ \E cascade \in BOOLEAN, order \in Orders :
                  DeleteCategory(c, cascade, order)
    BY DEF Next, vars, Register, Dispatch, Drop, CheckPost, Persist, Start,
       CheckPatch, Cleanup, Tick
  <2> HIDE DEF IInv
  <2> QED BY <2>1, <2>2, <2>3, InsertLate, WriteLate, CategoryLate
<1> QED BY <1>6, <1>7 DEF LateInv

\* A live transaction whose category is gone was written after the category's
\* tombstone: only a request that had checked its references before leaves one.
THEOREM OrphansAreLate == Spec => []OrphanIsLate
<1>1. ASSUME Init PROVE LateInv
  <2>1. \A i \in Id : ~ Found(srv, i)
    BY <1>1 DEF Init, EmptyServer, Found, Absent
  <2>2. srv.log = {}
    BY <1>1 DEF Init, EmptyServer
  <2>3. LogTells(srv) /\ Orphans(srv, {})
    BY <2>1, <2>2 DEF LogTells, Orphans, Live, Id
  <2>4. RefInv
    BY <1>1 DEF Init, RefInv
  <2> QED BY <2>3, <2>4 DEF LateInv
<1>2. IInv /\ LateInv /\ [Next]_vars => LateInv'
  BY LateKept
<1>3. LateInv => OrphanIsLate
  BY DEF LateInv, Orphans, Late, OrphanIsLate
<1> QED BY <1>1, <1>2, <1>3, Inductive, PTL DEF Spec
=============================================================================
