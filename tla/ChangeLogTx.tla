---------------------------- MODULE ChangeLogTx ----------------------------
(***************************************************************************)
(* The household change log as its transactions write it and its readers   *)
(* pull it (backend/internal/repository/postgres: tx.go, sync.go,          *)
(* queries/sync.sql; service/sync.go Pull; the cursor half of the client's *)
(* pullPhase).                                                             *)
(*                                                                         *)
(* A writer - a REST mutation (withinLockedTx) or a push batch             *)
(* (WithinHouseholdTx) - opens a transaction, takes the household's        *)
(* advisory lock, then changes records and appends log rows, and commits   *)
(* or rolls back.  `seq' is a global identity column: it is allocated when *)
(* the row is inserted, in every household from the same counter, and a    *)
(* rollback leaves a gap.  A reader pulls one page after its cursor with   *)
(* two statements that share no snapshot: the page of log rows first, the  *)
(* current state of the records it names after.  Everything a transaction  *)
(* wrote becomes visible at once, when it commits.                         *)
(***************************************************************************)
EXTENDS Integers, FiniteSets

CONSTANTS
  Household,    \* the households
  Conn,         \* database connections: each runs one transaction at a time
  Id,           \* record ids
  Reader,       \* devices that pull
  HouseholdOf,  \* the household each device pulls
  PageSize,     \* pull page size (pageSize in Pull)
  MaxSeq        \* bound on allocated sequence numbers

ASSUME PageSizeAssumption == PageSize \in Nat \ {0}
ASSUME MaxSeqAssumption == MaxSeq \in Nat
ASSUME HouseholdOfAssumption == HouseholdOf \in [Reader -> Household]

VARIABLES
  st,       \* st[t]: "idle", "begun" (open, no lock yet) or "locked"
  hh,       \* hh[t]: the household connection t works for
  wrote,    \* wrote[t]: the log rows its open transaction has inserted
  nextSeq,  \* the identity sequence of change_log.seq
  log,      \* the committed change_log rows
  version,  \* version[h][i]: the committed version of record i (0: none)
  cursor,   \* cursor[r]: the cursor device r has stored
  pull,     \* pull[r]: the pull in progress: its phase, rows and states
  seen      \* seen[r]: history, every row delivered to device r

writers == <<st, hh, wrote, nextSeq, log, version>>
readers == <<cursor, pull, seen>>
vars == <<st, hh, wrote, nextSeq, log, version, cursor, pull, seen>>

Row == [seq : Nat, hh : Household, id : Id, ver : Nat]

NoPull == [phase |-> "none", rows |-> {}, states |-> [i \in Id |-> 0]]

Init ==
  /\ st = [t \in Conn |-> "idle"]
  /\ hh \in [Conn -> Household]
  /\ wrote = [t \in Conn |-> {}]
  /\ nextSeq = 1
  /\ log = {}
  /\ version = [h \in Household |-> [i \in Id |-> 0]]
  /\ cursor = [r \in Reader |-> 0]
  /\ pull = [r \in Reader |-> NoPull]
  /\ seen = [r \in Reader |-> {}]

-----------------------------------------------------------------------------
(* Writers.                                                                *)

\* pool.Begin: nothing is locked yet.
Begin(t, h) ==
  /\ st[t] = "idle"
  /\ st' = [st EXCEPT ![t] = "begun"]
  /\ hh' = [hh EXCEPT ![t] = h]
  /\ UNCHANGED <<wrote, nextSeq, log, version, readers>>

\* Mutant: the lock is not taken.
LockFreeMutant(t, h) == TRUE

\* No other open transaction holds the advisory lock of household h.
LockFree(t, h) == \A u \in Conn \ {t} : ~ (st[u] = "locked" /\ hh[u] = h)

\* LockHouseholdChanges: pg_advisory_xact_lock blocks until the holder's
\* transaction ends.
Lock(t) ==
  /\ st[t] = "begun"
  /\ LockFree(t, hh[t])
  /\ st' = [st EXCEPT ![t] = "locked"]
  /\ UNCHANGED <<hh, wrote, nextSeq, log, version, readers>>

\* Mutant: a transaction does not see its own writes.
VersionForMutant(t, i) == version[hh[t]][i]

\* The version of record i that transaction t reads: its own last write, or
\* the committed one.
VersionFor(t, i) ==
  LET own == {x \in wrote[t] : x.id = i}
  IN  IF own = {} THEN version[hh[t]][i]
      ELSE (CHOOSE x \in own : \A y \in own : y.seq <= x.seq).ver

\* One mutation of record i: its write, which raises its version by one, and
\* appendChangeLog, which allocates the row's seq.
Mutate(t, i) ==
  /\ st[t] = "locked"
  /\ nextSeq <= MaxSeq
  /\ wrote' = [wrote EXCEPT ![t] =
       @ \cup {[seq |-> nextSeq, hh |-> hh[t], id |-> i,
                ver |-> VersionFor(t, i) + 1]}]
  /\ nextSeq' = nextSeq + 1
  /\ UNCHANGED <<st, hh, log, version, readers>>

\* Mutant: the log row commits before the record it is about.
CommitMutant(t) ==
  /\ st[t] = "locked"
  /\ log' = log \cup wrote[t]
  /\ wrote' = [wrote EXCEPT ![t] = {}]
  /\ st' = [st EXCEPT ![t] = "idle"]
  /\ UNCHANGED <<hh, nextSeq, version, readers>>

\* tx.Commit: rows and records become visible, and the lock is released.
Commit(t) ==
  /\ st[t] = "locked"
  /\ log' = log \cup wrote[t]
  /\ version' = [version EXCEPT ![hh[t]] = [i \in Id |-> VersionFor(t, i)]]
  /\ wrote' = [wrote EXCEPT ![t] = {}]
  /\ st' = [st EXCEPT ![t] = "idle"]
  /\ UNCHANGED <<hh, nextSeq, readers>>

\* The deferred tx.Rollback - an error from fn, a failed commit, a lost
\* connection, a server crash: the sequence is not rolled back.
Rollback(t) ==
  /\ st[t] \in {"begun", "locked"}
  /\ wrote' = [wrote EXCEPT ![t] = {}]
  /\ st' = [st EXCEPT ![t] = "idle"]
  /\ UNCHANGED <<hh, nextSeq, log, version, readers>>

-----------------------------------------------------------------------------
(* Readers.                                                                *)

\* Mutant: off by one at the cursor.
AfterMutant(h, c) == {x \in log : x.hh = h /\ x.seq > c + 1}

\* The committed rows of household h past cursor c.
After(h, c) == {x \in log : x.hh = h /\ x.seq > c}

\* P answers PullChangeLog: the first PageSize rows after c, by seq.
IsPage(P, h, c) ==
  /\ P \subseteq After(h, c)
  /\ \A x \in P, y \in After(h, c) : y.seq <= x.seq => y \in P
  /\ Cardinality(P) <= PageSize
  /\ Cardinality(P) < PageSize => P = After(h, c)

\* First statement of PullChanges.
PullRows(r) ==
  /\ pull[r].phase = "none"
  /\ \E P \in SUBSET log :
       /\ IsPage(P, HouseholdOf[r], cursor[r])
       /\ pull' = [pull EXCEPT ![r] = [phase |-> "rows", rows |-> P,
                                       states |-> NoPull.states]]
  /\ UNCHANGED <<writers, cursor, seen>>

\* fetchPullStates and its siblings: the records' state as it is by now.
PullStates(r) ==
  /\ pull[r].phase = "rows"
  /\ pull' = [pull EXCEPT ![r].phase = "states",
                          ![r].states = version[HouseholdOf[r]]]
  /\ UNCHANGED <<writers, cursor, seen>>

\* Mutant: an empty page resets the cursor.
NextCursorMutant(P, c) ==
  IF P = {} THEN 0 ELSE CHOOSE s \in {x.seq : x \in P} : \A x \in P : x.seq <= s

\* The cursor a page moves to: nextCursor when the page is full, else the
\* last row's seq, else the cursor itself.
NextCursor(P, c) ==
  IF P = {} THEN c ELSE CHOOSE s \in {x.seq : x \in P} : \A x \in P : x.seq <= s

\* The device applies the page and stores the cursor in one transaction.
Deliver(r) ==
  /\ pull[r].phase = "states"
  /\ cursor' = [cursor EXCEPT ![r] = NextCursor(pull[r].rows, @)]
  /\ seen' = [seen EXCEPT ![r] = @ \cup pull[r].rows]
  /\ pull' = [pull EXCEPT ![r] = NoPull]
  /\ UNCHANGED writers

\* The request or its answer is lost, or the device restarts: the stored
\* cursor stands.
Drop(r) ==
  /\ pull[r].phase # "none"
  /\ pull' = [pull EXCEPT ![r] = NoPull]
  /\ UNCHANGED <<writers, cursor, seen>>

-----------------------------------------------------------------------------
WriterStep(t) ==
  \/ \E h \in Household : Begin(t, h)
  \/ Lock(t)
  \/ \E i \in Id : Mutate(t, i)
  \/ Commit(t)
  \/ Rollback(t)

ReaderStep(r) == PullRows(r) \/ PullStates(r) \/ Deliver(r) \/ Drop(r)

Next == (\E t \in Conn : WriterStep(t)) \/ (\E r \in Reader : ReaderStep(r))

Spec == Init /\ [][Next]_vars

\* A device keeps pulling, and not every answer is lost.
FairSpec ==
  /\ Spec
  /\ \A r \in Reader :
       /\ WF_vars(PullRows(r))
       /\ SF_vars(PullStates(r))
       /\ SF_vars(Deliver(r))

-----------------------------------------------------------------------------
(* Properties.                                                             *)

PullRecord ==
  [phase : {"none", "rows", "states"}, rows : SUBSET Row, states : [Id -> Nat]]

\* Every variable has its type.
TypeOK ==
  /\ st \in [Conn -> {"idle", "begun", "locked"}]
  /\ hh \in [Conn -> Household]
  /\ wrote \in [Conn -> SUBSET Row]
  /\ nextSeq \in Nat
  /\ log \subseteq Row
  /\ version \in [Household -> [Id -> Nat]]
  /\ cursor \in [Reader -> Nat]
  /\ pull \in [Reader -> PullRecord]
  /\ seen \in [Reader -> SUBSET Row]

\* A stored cursor never skips a change: a committed row at or below the
\* cursor of a device of its household was delivered to that device, however
\* its transaction and the others interleaved (tx.go: seq order equals
\* commit-visibility order).
NoSkip ==
  \A r \in Reader : \A x \in log :
    x.hh = HouseholdOf[r] /\ x.seq <= cursor[r] => x \in seen[r]

\* Rows of one record carry its versions in seq order: the client drops a
\* pulled change whose version is not above the one it holds, so a later row
\* with an equal or a lower version would be lost.
VersionsFollowSeq ==
  \A x, y \in log :
    x.hh = y.hh /\ x.id = y.id /\ x.seq < y.seq => x.ver < y.ver

\* The state sent with a page is never older than a row of the page, although
\* the two are read by different statements: applying the page in seq order
\* ends at or after its last row (comment of PullChanges).
StateNotOlder ==
  \A r \in Reader :
    pull[r].phase = "states" =>
      \A x \in pull[r].rows : pull[r].states[x.id] >= x.ver

\* A stored cursor never moves back.
CursorMonotone == [][\A r \in Reader : cursor'[r] >= cursor[r]]_vars

\* Every committed change reaches every device of its household that keeps
\* pulling.
CommittedIsDelivered ==
  \A r \in Reader : \A s \in 1..MaxSeq :
    (\E x \in log : x.seq = s /\ x.hh = HouseholdOf[r])
      ~> (\E x \in seen[r] : x.seq = s)
=============================================================================
