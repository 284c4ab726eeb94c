----------------------------- MODULE SyncServer -----------------------------
(***************************************************************************)
(* One household on the server: the push engine (PushEngine) applies       *)
(* whatever operations its devices can build, in any order and any number  *)
(* of times, while the retention job purges tombstones.                    *)
(***************************************************************************)
EXTENDS PushEngine

VARIABLES
  srv,      \* the household's committed state
  changes   \* history: how many times an opId has changed the state

vars == <<srv, changes>>

Init == srv = EmptyServer /\ changes = [o \in OpId |-> 0]

\* One operation of a push, delivered once or again.
Push(op) ==
  /\ srv.seq + 1 + Cardinality(Transaction) <= MaxSeq
  /\ \E order \in Orders : srv' = Apply(srv, op, order).srv
  /\ changes' = [changes EXCEPT ![op.opId] =
                   IF srv'.rec = srv.rec THEN @ ELSE @ + 1]

\* One statement of the retention job: old tombstones of one kind.
Purge(Kind) ==
  /\ \E D \in SUBSET Kind \ {{}} : /\ Purgeable(srv, D)
                                   /\ srv' = Purged(srv, D)
  /\ UNCHANGED changes

Next ==
  \/ \E op \in Operation : Push(op)
  \/ Purge(Transaction)
  \/ Purge(Category)

Spec == Init /\ [][Next]_vars

-----------------------------------------------------------------------------
(* Properties.                                                             *)

ServerState ==
  [rec : [Id -> Row], log : SUBSET Entry, seq : Nat,
   applied : [OpId -> Nat \cup {NotApplied}]]

\* The state has its type, and a row has data of its kind.
TypeOK ==
  /\ srv \in ServerState
  /\ changes \in [OpId -> Nat]
  /\ \A i \in Id : Found(srv, i) => srv.rec[i].data \in PayloadOf(i)

\* A live transaction's category is live, whatever operations of the batch
\* and of other devices delete, cascade over, purge or re-create it
\* (openspec transactions: every referenced category exists).
RefsLive ==
  \A t \in Transaction :
    Live(srv, t) => Live(srv, srv.rec[t].data.category)

\* No two live categories have the same name (the unique index behind
\* CategoryNameTaken, which would abort a whole batch).
NamesUnique ==
  \A c, d \in Category :
    /\ Live(srv, c) /\ Live(srv, d)
    /\ srv.rec[c].data.name = srv.rec[d].data.name
    => c = d

EntriesOf(i) == {e \in srv.log : e.id = i}

\* The log's last word on a record is the record's state: its version and
\* whether it is a tombstone; the last word on a purged record is a tombstone
\* (invariants.md 7: no committed change without its log row).
LogAgrees ==
  \A i \in Id :
    \/ EntriesOf(i) = {} /\ srv.rec[i] = Absent
    \/ \E e \in EntriesOf(i) :
         /\ \A f \in EntriesOf(i) : f.seq <= e.seq
         /\ IF Found(srv, i)
            THEN /\ e.ver = srv.rec[i].ver
                 /\ e.action = "tombstone" <=> srv.rec[i].deleted
            ELSE e.action = "tombstone"

\* An operation id changes the household at most once, however often and in
\* whatever state it is delivered (sync.go: replay of applied operations).
OpAppliesOnce == \A o \in OpId : changes[o] <= 1

\* Delete wins: a tombstone is not revived; it stays until it is purged.
TombstoneFinal ==
  [][\A i \in Id :
       Found(srv, i) /\ srv.rec[i].deleted =>
         srv'.rec[i] = srv.rec[i] \/ srv'.rec[i] = Absent]_vars

\* The log implements the change feed pulls are built on.
Feed == INSTANCE ChangeFeed WITH feed <- srv.log
FeedSpec == Feed!Spec
=============================================================================
