------------------------- MODULE ChangeLogTxProofs -------------------------
(***************************************************************************)
(* Theorems about ChangeLogTx, for every set of connections, households,   *)
(* records and devices and every page size.                                *)
(***************************************************************************)
EXTENDS ChangeLogTx, WellFoundedInduction, TLAPS

(***************************************************************************)
(* A non-empty set of naturals has a least element, and a greatest one if  *)
(* it is bounded.                                                          *)
(***************************************************************************)
LEMMA LeastElement ==
  ASSUME NEW S, S \subseteq Nat, S # {}
  PROVE  \E x \in S : \A y \in S : x <= y
<1> DEFINE R == {p \in Nat \X Nat : p[1] < p[2]}
<1>1. IsWellFoundedOn(R, Nat)
  BY NatLessThanWellFounded DEF OpToRel
<1>2. PICK x \in S : \A y \in S : ~ (<<y, x>> \in R)
  <2> HIDE DEF R
  <2> QED  BY <1>1, WFMin
<1>3. \A y \in S : ~ (y < x)
  <2> SUFFICES ASSUME NEW y \in S, y < x  PROVE FALSE
    OBVIOUS
  <2>1. <<y, x>> \in R
    OBVIOUS
  <2> QED  BY <2>1, <1>2
<1> QED  BY <1>3

LEMMA GreatestElement ==
  ASSUME NEW S, S \subseteq Nat, S # {},
         NEW b \in Nat, \A x \in S : x <= b
  PROVE  \E x \in S : \A y \in S : y <= x
<1> DEFINE U == {n \in Nat : \A x \in S : x <= n}
<1>1. PICK u \in U : \A n \in U : u <= n
  <2>1. b \in U /\ U \subseteq Nat
    OBVIOUS
  <2> HIDE DEF U
  <2> QED  BY <2>1, LeastElement
<1>2. CASE u \in S
  BY <1>2
<1>3. CASE u \notin S
  <2>1. u \in Nat /\ \A x \in S : x \in Nat /\ x < u
    BY <1>3, <1>1
  <2>2. \A x \in S : x <= u - 1
    BY <2>1
  <2>3. u > 0
    <3>1. PICK x \in S : TRUE
      OBVIOUS
    <3>2. x \in Nat /\ x < u
      BY <2>1
    <3> QED  BY <3>2, <2>1
  <2>4. u - 1 \in U
    BY <2>1, <2>2, <2>3
  <2> QED  BY <2>1, <2>4, <1>1
<1> QED  BY <1>2, <1>3

-----------------------------------------------------------------------------
(***************************************************************************)
(* The inductive invariant.  NoSkip alone is not inductive: that a commit  *)
(* adds no row below a cursor follows from Fresh - the rows an open        *)
(* transaction has inserted are above every committed row of its household *)
(* - which holds because the lock excludes every other writer of the       *)
(* household between the first seq allocated and the commit.               *)
(***************************************************************************)
Exclusive ==
  \A t, u \in Conn :
    st[t] = "locked" /\ st[u] = "locked" /\ hh[t] = hh[u] => t = u

OwnRows ==
  \A t \in Conn :
    /\ wrote[t] # {} => st[t] = "locked"
    /\ \A x \in wrote[t] : x.hh = hh[t]

Allocated ==
  /\ nextSeq > 0
  /\ \A x \in log : 0 < x.seq /\ x.seq < nextSeq
  /\ \A t \in Conn : \A x \in wrote[t] : 0 < x.seq /\ x.seq < nextSeq

Fresh ==
  \A t \in Conn : \A x \in wrote[t], y \in log :
    x.hh = y.hh => y.seq < x.seq

CursorCommitted ==
  \A r \in Reader :
    cursor[r] # 0 => \E y \in log : y.hh = HouseholdOf[r] /\ y.seq = cursor[r]

PullIsPrefix ==
  \A r \in Reader :
    /\ pull[r].rows \subseteq After(HouseholdOf[r], cursor[r])
    /\ \A x \in pull[r].rows, y \in After(HouseholdOf[r], cursor[r]) :
         y.seq <= x.seq => y \in pull[r].rows

IInv ==
  /\ TypeOK
  /\ Exclusive
  /\ OwnRows
  /\ Allocated
  /\ Fresh
  /\ CursorCommitted
  /\ PullIsPrefix
  /\ NoSkip

-----------------------------------------------------------------------------
LEMMA InitInv == Init => IInv
BY DEF Init, IInv, TypeOK, Exclusive, OwnRows, Allocated, Fresh,
       CursorCommitted, PullIsPrefix, NoSkip, After, NoPull, PullRecord, Row

(***************************************************************************)
(* The cursor a page moves to is the seq of one of its rows, and no row of *)
(* the page is above it.                                                   *)
(***************************************************************************)
LEMMA NextCursorIsLast ==
  ASSUME NEW P, P # {}, \A x \in P : x.seq \in Nat,
         NEW b \in Nat, \A x \in P : x.seq <= b, NEW c
  PROVE  /\ \E x \in P : NextCursor(P, c) = x.seq
         /\ \A x \in P : x.seq <= NextCursor(P, c)
<1> DEFINE S == {x.seq : x \in P}
<1>1. S \subseteq Nat /\ S # {} /\ \A s \in S : s <= b
  OBVIOUS
<1>2. \E m \in S : \A s \in S : s <= m
  <2> HIDE DEF S
  <2> QED  BY <1>1, GreatestElement
<1>3. \E m \in S : \A x \in P : x.seq <= m
  BY <1>2
<1>4. /\ NextCursor(P, c) \in S
      /\ \A x \in P : x.seq <= NextCursor(P, c)
  BY <1>3 DEF NextCursor
<1> QED  BY <1>4

(***************************************************************************)
(* What VersionFor returns: the version of the last row the transaction    *)
(* wrote for the record, or the committed version if it wrote none.        *)
(***************************************************************************)
LEMMA VersionForLast ==
  ASSUME TypeOK, Allocated, NEW t \in Conn, NEW i \in Id
  PROVE  \/ /\ \A x \in wrote[t] : x.id # i
            /\ VersionFor(t, i) = version[hh[t]][i]
         \/ \E x \in wrote[t] :
              /\ x.id = i
              /\ \A y \in wrote[t] : y.id = i => y.seq <= x.seq
              /\ VersionFor(t, i) = x.ver
<1> DEFINE own == {x \in wrote[t] : x.id = i}
<1>1. CASE own = {}
  BY <1>1 DEF VersionFor
<1>2. CASE own # {}
  <2> DEFINE S == {x.seq : x \in own}
  <2>1. S \subseteq Nat /\ S # {} /\ \A s \in S : s <= nextSeq
    BY <1>2 DEF TypeOK, Allocated, Row
  <2>2. \E m \in S : \A s \in S : s <= m
    <3>1. nextSeq \in Nat
      BY DEF TypeOK
    <3> HIDE DEF S
    <3> QED  BY <2>1, <3>1, GreatestElement
  <2>3. \E x \in own : \A y \in own : y.seq <= x.seq
    BY <2>2
  <2> DEFINE last == CHOOSE x \in own : \A y \in own : y.seq <= x.seq
  <2>4. last \in own /\ \A y \in own : y.seq <= last.seq
    BY <2>3
  <2>5. VersionFor(t, i) = last.ver
    BY <1>2 DEF VersionFor
  <2> QED  BY <2>4, <2>5
<1> QED  BY <1>1, <1>2

LEMMA VersionForType ==
  ASSUME TypeOK, Allocated, NEW t \in Conn, NEW i \in Id
  PROVE  VersionFor(t, i) \in Nat
BY VersionForLast DEF TypeOK, Row

-----------------------------------------------------------------------------
(***************************************************************************)
(* One lemma per action.                                                   *)
(***************************************************************************)
LEMMA BeginStep ==
  ASSUME IInv, NEW t \in Conn, NEW h \in Household, Begin(t, h)
  PROVE  IInv'
<1> USE DEF IInv, Begin, readers
<1>1. TypeOK'
  BY DEF TypeOK
<1>2. Exclusive'
  BY DEF TypeOK, Exclusive
<1>3. OwnRows' /\ Allocated' /\ Fresh'
  BY DEF TypeOK, OwnRows, Allocated, Fresh
<1>4. CursorCommitted' /\ PullIsPrefix' /\ NoSkip'
  BY DEF CursorCommitted, PullIsPrefix, NoSkip, After
<1> QED  BY <1>1, <1>2, <1>3, <1>4

LEMMA LockStep ==
  ASSUME IInv, NEW t \in Conn, Lock(t)
  PROVE  IInv'
<1> USE DEF IInv, Lock, readers
<1>1. TypeOK'
  BY DEF TypeOK
<1>2. Exclusive'
  BY DEF TypeOK, Exclusive, LockFree
<1>3. OwnRows' /\ Allocated' /\ Fresh'
  BY DEF TypeOK, OwnRows, Allocated, Fresh
<1>4. CursorCommitted' /\ PullIsPrefix' /\ NoSkip'
  BY DEF CursorCommitted, PullIsPrefix, NoSkip, After
<1> QED  BY <1>1, <1>2, <1>3, <1>4

LEMMA MutateStep ==
  ASSUME IInv, NEW t \in Conn, NEW i \in Id, Mutate(t, i)
  PROVE  IInv'
<1> USE DEF IInv, Mutate, readers
<1> DEFINE new == [seq |-> nextSeq, hh |-> hh[t], id |-> i,
                   ver |-> VersionFor(t, i) + 1]
<1>1. new \in Row
  BY VersionForType DEF TypeOK, Row
<1>2. wrote' = [wrote EXCEPT ![t] = @ \cup {new}]
  OBVIOUS
<1>3. new.seq = nextSeq /\ new.hh = hh[t]
  OBVIOUS
<1> HIDE DEF new
<1>4. TypeOK'
  BY <1>1, <1>2 DEF TypeOK
<1>5. Exclusive' /\ OwnRows'
  BY <1>2, <1>3 DEF TypeOK, Exclusive, OwnRows
<1>6. Allocated'
  BY <1>2, <1>3 DEF TypeOK, Allocated, Row
<1>7. Fresh'
  BY <1>2, <1>3 DEF TypeOK, Fresh, Allocated
<1>8. CursorCommitted' /\ PullIsPrefix' /\ NoSkip'
  BY DEF CursorCommitted, PullIsPrefix, NoSkip, After
<1> QED  BY <1>4, <1>5, <1>6, <1>7, <1>8

LEMMA CommitStep ==
  ASSUME IInv, NEW t \in Conn, Commit(t)
  PROVE  IInv'
<1> USE DEF IInv, Commit, readers
<1> DEFINE nv == [i \in Id |-> VersionFor(t, i)]
<1>1. nv \in [Id -> Nat]
  BY VersionForType
<1>2. version' = [version EXCEPT ![hh[t]] = nv]
  OBVIOUS
<1> HIDE DEF nv
<1>3. TypeOK'
  BY <1>1, <1>2 DEF TypeOK
<1>4. Exclusive' /\ OwnRows'
  BY DEF TypeOK, Exclusive, OwnRows
<1>5. Allocated'
  BY DEF TypeOK, Allocated
<1>6. Fresh'
  <2> SUFFICES ASSUME NEW u \in Conn, NEW x \in wrote'[u], NEW y \in log',
                      x.hh = y.hh
               PROVE  y.seq < x.seq
    BY DEF Fresh
  <2>1. u # t /\ x \in wrote[u]
    BY DEF TypeOK
  <2>2. y \notin wrote[t]
    BY <2>1 DEF OwnRows, Exclusive
  <2> QED  BY <2>1, <2>2 DEF Fresh
\* A row of t is above every committed row of its household, so above every
\* cursor and every pulled row of that household.
<1>7. ASSUME NEW x \in wrote[t], NEW y \in log, x.hh = y.hh
      PROVE  y.seq < x.seq /\ x.seq \in Nat /\ y.seq \in Nat /\ 0 < x.seq
  BY <1>7 DEF Fresh, Allocated, TypeOK, Row
<1>8. CursorCommitted'
  BY DEF CursorCommitted
<1>9. PullIsPrefix'
  <2> SUFFICES ASSUME NEW r \in Reader
               PROVE  /\ pull[r].rows \subseteq After(HouseholdOf[r], cursor[r])'
                      /\ \A x \in pull[r].rows,
                            y \in After(HouseholdOf[r], cursor[r])' :
                           y.seq <= x.seq => y \in pull[r].rows
    BY DEF PullIsPrefix
  <2>1. pull[r].rows \subseteq After(HouseholdOf[r], cursor[r])'
    BY DEF PullIsPrefix, After
  <2>2. ASSUME NEW x \in pull[r].rows,
               NEW y \in After(HouseholdOf[r], cursor[r])', y.seq <= x.seq
        PROVE  y \in pull[r].rows
    <3>1. x \in log /\ x.hh = HouseholdOf[r] /\ y.hh = HouseholdOf[r]
      BY DEF PullIsPrefix, After
    <3>2. y \notin wrote[t]
      BY <3>1, <2>2, <1>7
    <3>3. y \in After(HouseholdOf[r], cursor[r])
      BY <3>2 DEF After
    <3> QED  BY <3>3, <2>2 DEF PullIsPrefix
  <2> QED  BY <2>1, <2>2
<1>10. NoSkip'
  <2> SUFFICES ASSUME NEW r \in Reader, NEW x \in log',
                      x.hh = HouseholdOf[r], x.seq <= cursor[r]
               PROVE  x \in seen[r]
    BY DEF NoSkip
  <2>1. x \notin wrote[t]
    <3> SUFFICES ASSUME x \in wrote[t]  PROVE FALSE
      OBVIOUS
    <3>1. cursor[r] \in Nat /\ x.seq \in Nat /\ 0 < x.seq
      BY DEF TypeOK, Row, Allocated
    <3>2. PICK y \in log : y.hh = HouseholdOf[r] /\ y.seq = cursor[r]
      BY <3>1 DEF CursorCommitted
    <3> QED  BY <3>1, <3>2, <1>7
  <2> QED  BY <2>1 DEF NoSkip
<1> QED  BY <1>3, <1>4, <1>5, <1>6, <1>8, <1>9, <1>10

LEMMA RollbackStep ==
  ASSUME IInv, NEW t \in Conn, Rollback(t)
  PROVE  IInv'
<1> USE DEF IInv, Rollback, readers
<1>1. TypeOK'
  BY DEF TypeOK
<1>2. Exclusive' /\ OwnRows'
  BY DEF TypeOK, Exclusive, OwnRows
<1>3. Allocated' /\ Fresh'
  BY DEF TypeOK, Allocated, Fresh
<1>4. CursorCommitted' /\ PullIsPrefix' /\ NoSkip'
  BY DEF CursorCommitted, PullIsPrefix, NoSkip, After
<1> QED  BY <1>1, <1>2, <1>3, <1>4

LEMMA PullRowsStep ==
  ASSUME IInv, NEW r \in Reader, PullRows(r)
  PROVE  IInv'
<1> USE DEF IInv, writers
<1>1. PICK P \in SUBSET log :
        /\ IsPage(P, HouseholdOf[r], cursor[r])
        /\ pull' = [pull EXCEPT ![r] = [phase |-> "rows", rows |-> P,
                                        states |-> NoPull.states]]
  BY DEF PullRows
<1>2. UNCHANGED <<writers, cursor, seen>>
  BY DEF PullRows
<1>3. TypeOK'
  BY <1>1, <1>2 DEF TypeOK, NoPull, PullRecord
<1>4. Exclusive' /\ OwnRows' /\ Allocated' /\ Fresh'
  BY <1>2 DEF Exclusive, OwnRows, Allocated, Fresh
<1>5. CursorCommitted' /\ NoSkip'
  BY <1>2 DEF CursorCommitted, NoSkip
<1>6. PullIsPrefix'
  <2>1. pull'[r].rows = P /\ \A q \in Reader \ {r} : pull'[q] = pull[q]
    BY <1>1 DEF TypeOK, NoPull, PullRecord
  <2> QED  BY <2>1, <1>1, <1>2 DEF PullIsPrefix, IsPage, After
<1> QED  BY <1>3, <1>4, <1>5, <1>6

LEMMA PullStatesStep ==
  ASSUME IInv, NEW r \in Reader, PullStates(r)
  PROVE  IInv'
<1> USE DEF IInv, PullStates, writers
<1>1. TypeOK'
  BY HouseholdOfAssumption DEF TypeOK, PullRecord
<1>2. \A q \in Reader : pull'[q].rows = pull[q].rows
  BY DEF TypeOK, PullRecord
<1>3. Exclusive' /\ OwnRows' /\ Allocated' /\ Fresh'
  BY DEF Exclusive, OwnRows, Allocated, Fresh
<1>4. CursorCommitted' /\ PullIsPrefix' /\ NoSkip'
  BY <1>2 DEF CursorCommitted, PullIsPrefix, NoSkip, After
<1> QED  BY <1>1, <1>3, <1>4

LEMMA DeliverStep ==
  ASSUME IInv, NEW r \in Reader, Deliver(r)
  PROVE  /\ IInv'
         /\ \A q \in Reader : cursor'[q] >= cursor[q]
<1> USE DEF IInv, writers
<1> DEFINE P == pull[r].rows
           c == NextCursor(P, cursor[r])
<1>1. /\ cursor' = [cursor EXCEPT ![r] = c]
      /\ seen' = [seen EXCEPT ![r] = @ \cup P]
      /\ pull' = [pull EXCEPT ![r] = NoPull]
      /\ UNCHANGED writers
  BY DEF Deliver
<1>2. /\ P \in SUBSET Row
      /\ \A x \in P : /\ x \in log
                      /\ x.hh = HouseholdOf[r]
                      /\ x.seq > cursor[r]
                      /\ x.seq < nextSeq
      /\ nextSeq \in Nat /\ cursor[r] \in Nat
  BY DEF TypeOK, PullRecord, PullIsPrefix, After, Allocated
<1>3. \/ P = {} /\ c = cursor[r]
      \/ P # {} /\ \E x \in P : c = x.seq
  <2>1. CASE P = {}
    BY <2>1 DEF NextCursor
  <2>2. CASE P # {}
    <3>1. \A x \in P : x.seq \in Nat /\ x.seq <= nextSeq
      BY <1>2 DEF Row
    <3> HIDE DEF P
    <3> QED  BY <2>2, <3>1, <1>2, NextCursorIsLast
  <2> QED  BY <2>1, <2>2
<1>4. c \in Nat /\ c >= cursor[r]
  BY <1>2, <1>3 DEF Row
<1> HIDE DEF P, c
<1>5. TypeOK'
  BY <1>1, <1>2, <1>4 DEF TypeOK, NoPull, PullRecord
<1>6. Exclusive' /\ OwnRows' /\ Allocated' /\ Fresh'
  BY <1>1 DEF Exclusive, OwnRows, Allocated, Fresh
<1>7. CursorCommitted'
  <2>1. c # 0 => \E y \in log : y.hh = HouseholdOf[r] /\ y.seq = c
    BY <1>2, <1>3 DEF CursorCommitted
  <2> QED  BY <2>1, <1>1 DEF CursorCommitted, TypeOK
<1>8. PullIsPrefix'
  <2>1. pull'[r].rows = {} /\ \A q \in Reader \ {r} : pull'[q] = pull[q]
                                               /\ cursor'[q] = cursor[q]
    BY <1>1 DEF TypeOK, NoPull
  <2> QED  BY <2>1, <1>1 DEF PullIsPrefix, After
<1>9. NoSkip'
  <2> SUFFICES ASSUME NEW q \in Reader, NEW x \in log,
                      x.hh = HouseholdOf[q], x.seq <= cursor'[q]
               PROVE  x \in seen'[q]
    BY <1>1 DEF NoSkip
  <2>1. CASE q # r
    BY <2>1, <1>1 DEF NoSkip, TypeOK
  <2>2. CASE q = r /\ x.seq <= cursor[r]
    BY <2>2, <1>1 DEF NoSkip, TypeOK
  <2>3. CASE q = r /\ ~ (x.seq <= cursor[r])
    <3>1. cursor'[r] = c /\ seen'[r] = seen[r] \cup P
      BY <1>1 DEF TypeOK
    <3>2. x.seq \in Nat /\ x.seq > cursor[r] /\ x.seq <= c
      BY <2>3, <3>1, <1>2 DEF TypeOK, Row
    <3>3. x \in After(HouseholdOf[r], cursor[r])
      BY <2>3, <3>2 DEF After
    <3>4. PICK y \in P : c = y.seq
      BY <1>2, <1>3, <3>2
    <3> QED  BY <2>3, <3>1, <3>2, <3>3, <3>4 DEF PullIsPrefix, P
  <2> QED  BY <2>1, <2>2, <2>3
<1>10. \A q \in Reader : cursor'[q] >= cursor[q]
  BY <1>1, <1>4 DEF TypeOK
<1> QED  BY <1>5, <1>6, <1>7, <1>8, <1>9, <1>10

LEMMA DropStep ==
  ASSUME IInv, NEW r \in Reader, Drop(r)
  PROVE  IInv'
<1> USE DEF IInv, Drop, writers
<1>1. TypeOK'
  BY DEF TypeOK, NoPull, PullRecord
<1>2. Exclusive' /\ OwnRows' /\ Allocated' /\ Fresh'
  BY DEF Exclusive, OwnRows, Allocated, Fresh
<1>3. PullIsPrefix'
  <2>1. pull'[r].rows = {} /\ \A q \in Reader \ {r} : pull'[q] = pull[q]
    BY DEF TypeOK, NoPull
  <2> QED  BY <2>1 DEF PullIsPrefix, After
<1>4. CursorCommitted' /\ NoSkip'
  BY DEF CursorCommitted, NoSkip
<1> QED  BY <1>1, <1>2, <1>3, <1>4

LEMMA NextStep == IInv /\ [Next]_vars => IInv'
<1> SUFFICES ASSUME IInv, [Next]_vars  PROVE IInv'
  OBVIOUS
<1>1. CASE UNCHANGED vars
  BY <1>1 DEF vars, IInv, TypeOK, Exclusive, OwnRows, Allocated, Fresh,
              CursorCommitted, PullIsPrefix, NoSkip, After
<1>2. ASSUME NEW t \in Conn, WriterStep(t)  PROVE IInv'
  BY <1>2, BeginStep, LockStep, MutateStep, CommitStep, RollbackStep
  DEF WriterStep
<1>3. ASSUME NEW r \in Reader, ReaderStep(r)  PROVE IInv'
  BY <1>3, PullRowsStep, PullStatesStep, DeliverStep, DropStep DEF ReaderStep
<1> QED  BY <1>1, <1>2, <1>3 DEF Next

(***************************************************************************)
(* In every reachable state the variables have their types.                *)
(***************************************************************************)
THEOREM TypeCorrect == Spec => []TypeOK
<1>1. IInv => TypeOK
  BY DEF IInv
<1> QED  BY <1>1, InitInv, NextStep, PTL DEF Spec

(***************************************************************************)
(* A stored cursor never skips a committed change (tx.go, queries/         *)
(* sync.sql: seq order equals commit-visibility order).                    *)
(***************************************************************************)
THEOREM CursorNeverSkips == Spec => []NoSkip
<1>1. IInv => NoSkip
  BY DEF IInv
<1> QED  BY <1>1, InitInv, NextStep, PTL DEF Spec

(***************************************************************************)
(* A device's stored cursor never moves back.                              *)
(***************************************************************************)
THEOREM CursorNeverMovesBack == Spec => CursorMonotone
<1>1. IInv /\ [Next]_vars => [\A r \in Reader : cursor'[r] >= cursor[r]]_vars
  <2> SUFFICES ASSUME IInv, Next
               PROVE  \A r \in Reader : cursor'[r] >= cursor[r]
    OBVIOUS
  <2>1. ASSUME NEW t \in Conn, WriterStep(t)
        PROVE  cursor' = cursor
    BY <2>1 DEF WriterStep, Begin, Lock, Mutate, Commit, Rollback, readers
  <2>2. ASSUME NEW r \in Reader, ReaderStep(r)
        PROVE  cursor' = cursor \/ Deliver(r)
    BY <2>2 DEF ReaderStep, PullRows, PullStates, Drop
  <2>3. \A q \in Reader : cursor[q] \in Nat
    BY DEF IInv, TypeOK
  <2> QED  BY <2>1, <2>2, <2>3, DeliverStep DEF Next
<1> QED  BY <1>1, InitInv, NextStep, PTL DEF Spec, CursorMonotone

-----------------------------------------------------------------------------
(***************************************************************************)
(* Versions.  The committed version of a record is at least that of each   *)
(* of its log rows, and the rows an open transaction has inserted go on    *)
(* from there in seq order.  Both need the lock: without it two            *)
(* transactions would start from the same committed version.               *)
(***************************************************************************)
LogBelow == \A x \in log : x.ver <= version[x.hh][x.id]

WroteAbove == \A t \in Conn : \A x \in wrote[t] : version[x.hh][x.id] < x.ver

WroteOrdered ==
  \A t \in Conn : \A x, y \in wrote[t] :
    /\ x.id = y.id /\ x.seq < y.seq => x.ver < y.ver
    /\ x.seq = y.seq => x = y

VInv ==
  /\ LogBelow
  /\ WroteAbove
  /\ WroteOrdered
  /\ VersionsFollowSeq
  /\ StateNotOlder

LEMMA InitVInv == Init => VInv
BY DEF Init, VInv, LogBelow, WroteAbove, WroteOrdered, VersionsFollowSeq,
       StateNotOlder, NoPull

(***************************************************************************)
(* The version a transaction reads is the greatest it has written for the  *)
(* record, and never below the committed one.                              *)
(***************************************************************************)
LEMMA VersionForGreatest ==
  ASSUME IInv, VInv, NEW t \in Conn, NEW i \in Id
  PROVE  /\ VersionFor(t, i) \in Nat
         /\ version[hh[t]][i] <= VersionFor(t, i)
         /\ \A x \in wrote[t] : x.id = i => x.ver <= VersionFor(t, i)
<1> USE DEF IInv, VInv
<1>1. VersionFor(t, i) \in Nat /\ version[hh[t]][i] \in Nat
  BY VersionForType DEF TypeOK
<1>2. CASE /\ \A x \in wrote[t] : x.id # i
           /\ VersionFor(t, i) = version[hh[t]][i]
  BY <1>1, <1>2
<1>3. ASSUME NEW x \in wrote[t], x.id = i,
             \A y \in wrote[t] : y.id = i => y.seq <= x.seq,
             VersionFor(t, i) = x.ver
      PROVE  /\ version[hh[t]][i] <= VersionFor(t, i)
             /\ \A y \in wrote[t] : y.id = i => y.ver <= VersionFor(t, i)
  <2>1. version[hh[t]][i] < x.ver
    BY <1>3 DEF WroteAbove, OwnRows
  <2>2. ASSUME NEW y \in wrote[t], y.id = i  PROVE y.ver <= x.ver
    <3>1. x \in Row /\ y \in Row
      BY DEF TypeOK
    <3>2. y.seq \in Nat /\ x.seq \in Nat /\ y.ver \in Nat /\ x.ver \in Nat
      BY <3>1 DEF Row
    <3>3. y.seq <= x.seq
      BY <1>3, <2>2
    <3>4. CASE y.seq = x.seq
      BY <3>2, <3>4 DEF WroteOrdered
    <3>5. CASE y.seq < x.seq
      BY <3>2, <3>5, <2>2, <1>3 DEF WroteOrdered
    <3> QED  BY <3>2, <3>3, <3>4, <3>5
  <2>3. x.ver \in Nat
    BY DEF TypeOK, Row
  <2> QED  BY <2>1, <2>2, <2>3, <1>1, <1>3
<1> QED  BY <1>1, <1>2, <1>3, VersionForLast

LEMMA MutateVersions ==
  ASSUME IInv, VInv, NEW t \in Conn, NEW i \in Id, Mutate(t, i)
  PROVE  VInv'
<1> USE DEF IInv, VInv
<1> DEFINE new == [seq |-> nextSeq, hh |-> hh[t], id |-> i,
                   ver |-> VersionFor(t, i) + 1]
<1>1. /\ wrote' = [wrote EXCEPT ![t] = @ \cup {new}]
      /\ UNCHANGED <<log, version, pull>>
  BY DEF Mutate, readers
<1>2. /\ new.seq = nextSeq /\ new.hh = hh[t] /\ new.id = i
      /\ new.ver = VersionFor(t, i) + 1
  OBVIOUS
<1> HIDE DEF new
<1>3. \A u \in Conn : \A x \in wrote'[u] :
        x \in wrote[u] \/ (u = t /\ x = new)
  BY <1>1 DEF TypeOK
<1>4. LogBelow' /\ VersionsFollowSeq' /\ StateNotOlder'
  BY <1>1 DEF LogBelow, VersionsFollowSeq, StateNotOlder
<1>5. WroteAbove'
  <2>1. version[hh[t]][i] < new.ver
    BY <1>2, VersionForGreatest DEF TypeOK
  <2> QED  BY <2>1, <1>1, <1>2, <1>3 DEF WroteAbove
<1>6. WroteOrdered'
  <2>1. \A x \in wrote[t] : x.seq < new.seq /\ x.seq \in Nat /\ new.seq \in Nat
    BY <1>2 DEF Allocated, TypeOK, Row
  <2>2. \A x \in wrote[t] : x.id = i => x.ver < new.ver
    BY <1>2, VersionForGreatest DEF TypeOK, Row
  <2>3. SUFFICES ASSUME NEW u \in Conn, NEW x \in wrote'[u], NEW y \in wrote'[u]
                 PROVE  /\ x.id = y.id /\ x.seq < y.seq => x.ver < y.ver
                        /\ x.seq = y.seq => x = y
    BY DEF WroteOrdered
  <2>4. CASE x \in wrote[u] /\ y \in wrote[u]
    BY <2>4 DEF WroteOrdered
  <2>5. CASE u = t /\ x = new /\ y \in wrote[t]
    BY <2>1, <2>5
  <2>6. CASE u = t /\ y = new /\ x \in wrote[t]
    BY <2>1, <2>2, <2>6, <1>2
  <2>7. CASE x = new /\ y = new
    BY <2>7, <1>2 DEF TypeOK
  <2> QED  BY <1>3, <2>4, <2>5, <2>6, <2>7
<1> QED  BY <1>4, <1>5, <1>6

LEMMA CommitVersions ==
  ASSUME IInv, VInv, NEW t \in Conn, Commit(t)
  PROVE  VInv'
<1> USE DEF IInv, VInv
<1> DEFINE nv == [i \in Id |-> VersionFor(t, i)]
<1>1. /\ log' = log \cup wrote[t]
      /\ version' = [version EXCEPT ![hh[t]] = nv]
      /\ wrote' = [wrote EXCEPT ![t] = {}]
      /\ st[t] = "locked"
      /\ pull' = pull
  BY DEF Commit, readers
<1>2. \A i \in Id : /\ nv[i] \in Nat
                    /\ version[hh[t]][i] <= nv[i]
                    /\ \A x \in wrote[t] : x.id = i => x.ver <= nv[i]
  BY VersionForGreatest
<1> HIDE DEF nv
<1>3. hh[t] \in Household /\ version \in [Household -> [Id -> Nat]]
  BY DEF TypeOK
<1>4. LogBelow'
  <2> SUFFICES ASSUME NEW x \in log'
               PROVE  x.ver <= version'[x.hh][x.id]
    BY DEF LogBelow
  <2>1. x \in Row
    BY <1>1 DEF TypeOK
  <2>2. CASE x \in wrote[t]
    BY <2>1, <2>2, <1>1, <1>2, <1>3 DEF OwnRows, Row
  <2>3. CASE x \in log /\ x.hh = hh[t]
    <3>1. x.ver <= version[hh[t]][x.id] /\ x.id \in Id /\ x.ver \in Nat
      BY <2>1, <2>3 DEF LogBelow, Row
    <3>2. version[hh[t]][x.id] \in Nat /\ version'[x.hh][x.id] = nv[x.id]
      BY <3>1, <2>3, <1>1, <1>3
    <3> QED  BY <3>1, <3>2, <1>2
  <2>4. CASE x \in log /\ x.hh # hh[t]
    BY <2>1, <2>4, <1>1, <1>3 DEF LogBelow, Row
  <2> QED  BY <2>2, <2>3, <2>4, <1>1
<1>5. WroteAbove'
  <2> SUFFICES ASSUME NEW u \in Conn, NEW x \in wrote'[u]
               PROVE  version'[x.hh][x.id] < x.ver
    BY DEF WroteAbove
  <2>1. u # t /\ x \in wrote[u] /\ x \in Row
    BY <1>1 DEF TypeOK
  <2>2. x.hh # hh[t]
    BY <2>1, <1>1 DEF OwnRows, Exclusive
  <2> QED  BY <2>1, <2>2, <1>1, <1>3 DEF WroteAbove, Row
<1>6. WroteOrdered'
  BY <1>1 DEF WroteOrdered, TypeOK
<1>7. VersionsFollowSeq'
  <2> SUFFICES ASSUME NEW x \in log', NEW y \in log',
                      x.hh = y.hh, x.id = y.id, x.seq < y.seq
               PROVE  x.ver < y.ver
    BY DEF VersionsFollowSeq
  <2>1. x \in Row /\ y \in Row
    BY <1>1 DEF TypeOK
  <2>2. CASE x \in log /\ y \in log
    BY <2>2 DEF VersionsFollowSeq
  <2>3. CASE x \in wrote[t] /\ y \in wrote[t]
    BY <2>3 DEF WroteOrdered
  <2>4. CASE x \in log /\ y \in wrote[t]
    <3>1. x.ver <= version[x.hh][x.id] /\ version[x.hh][x.id] < y.ver
      BY <2>4 DEF LogBelow, WroteAbove
    <3> QED  BY <3>1, <2>1, <1>3 DEF Row
  <2>5. CASE x \in wrote[t] /\ y \in log
    BY <2>5, <2>1 DEF Fresh, Row
  <2> QED  BY <2>2, <2>3, <2>4, <2>5, <1>1
<1>8. StateNotOlder'
  BY <1>1 DEF StateNotOlder
<1> QED  BY <1>4, <1>5, <1>6, <1>7, <1>8

LEMMA PullStatesVersions ==
  ASSUME IInv, VInv, NEW r \in Reader, PullStates(r)
  PROVE  VInv'
<1> USE DEF IInv, VInv
<1>1. UNCHANGED <<wrote, log, version>>
  BY DEF PullStates, writers
<1>2. LogBelow' /\ WroteAbove' /\ WroteOrdered' /\ VersionsFollowSeq'
  BY <1>1 DEF LogBelow, WroteAbove, WroteOrdered, VersionsFollowSeq
<1>3. /\ pull'[r].rows = pull[r].rows
      /\ pull'[r].states = version[HouseholdOf[r]]
      /\ \A q \in Reader \ {r} : pull'[q] = pull[q]
  BY DEF PullStates, TypeOK, PullRecord
<1>4. \A x \in pull[r].rows : version[HouseholdOf[r]][x.id] >= x.ver
  <2> SUFFICES ASSUME NEW x \in pull[r].rows
               PROVE  version[HouseholdOf[r]][x.id] >= x.ver
    OBVIOUS
  <2>1. x \in log /\ x.hh = HouseholdOf[r] /\ x \in Row
    BY DEF PullIsPrefix, After, TypeOK
  <2> QED  BY <2>1, HouseholdOfAssumption DEF LogBelow, TypeOK, Row
<1>5. StateNotOlder'
  BY <1>3, <1>4 DEF StateNotOlder
<1> QED  BY <1>2, <1>5

LEMMA OtherVersions ==
  ASSUME IInv, VInv,
         UNCHANGED <<log, version>>,
         \A t \in Conn : wrote'[t] \subseteq wrote[t],
         \A r \in Reader : pull'[r].phase = "states" => pull'[r] = pull[r]
  PROVE  VInv'
<1> USE DEF VInv
<1>1. LogBelow' /\ WroteAbove' /\ VersionsFollowSeq'
  BY DEF LogBelow, WroteAbove, VersionsFollowSeq
<1>2. WroteOrdered'
  BY DEF WroteOrdered
<1>3. StateNotOlder'
  BY DEF StateNotOlder
<1> QED  BY <1>1, <1>2, <1>3

LEMMA NextVersions == IInv /\ VInv /\ [Next]_vars => VInv'
<1> SUFFICES ASSUME IInv, VInv, [Next]_vars  PROVE VInv'
  OBVIOUS
<1>1. CASE UNCHANGED vars
  BY <1>1, OtherVersions DEF vars
<1>2. ASSUME NEW t \in Conn, WriterStep(t)  PROVE VInv'
  <2>1. CASE \E i \in Id : Mutate(t, i)
    BY <2>1, MutateVersions
  <2>2. CASE Commit(t)
    BY <2>2, CommitVersions
  <2>3. CASE (\E h \in Household : Begin(t, h)) \/ Lock(t) \/ Rollback(t)
    <3>1. UNCHANGED <<log, version, pull>>
      BY <2>3 DEF Begin, Lock, Rollback, readers
    <3>2. \A u \in Conn : wrote'[u] \subseteq wrote[u]
      BY <2>3 DEF Begin, Lock, Rollback, IInv, TypeOK
    <3> QED  BY <3>1, <3>2, OtherVersions
  <2> QED  BY <1>2, <2>1, <2>2, <2>3 DEF WriterStep
<1>3. ASSUME NEW r \in Reader, ReaderStep(r)  PROVE VInv'
  <2>1. CASE PullStates(r)
    BY <2>1, PullStatesVersions
  <2>2. CASE PullRows(r) \/ Deliver(r) \/ Drop(r)
    <3>1. UNCHANGED <<log, version, wrote>>
      BY <2>2 DEF PullRows, Deliver, Drop, writers
    <3>2. \A q \in Reader : pull'[q].phase = "states" => pull'[q] = pull[q]
      <4>1. \/ \E P \in SUBSET log :
                  pull' = [pull EXCEPT ![r] = [phase |-> "rows", rows |-> P,
                                               states |-> NoPull.states]]
            \/ pull' = [pull EXCEPT ![r] = NoPull]
        BY <2>2 DEF PullRows, Deliver, Drop
      <4>2. NoPull.phase = "none"
        BY DEF NoPull
      <4> QED  BY <4>1, <4>2 DEF IInv, TypeOK
    <3> QED  BY <3>1, <3>2, OtherVersions
  <2> QED  BY <1>3, <2>1, <2>2 DEF ReaderStep
<1> QED  BY <1>1, <1>2, <1>3 DEF Next

(***************************************************************************)
(* The rows of a record carry growing versions in seq order.               *)
(***************************************************************************)
THEOREM VersionsAreOrdered == Spec => []VersionsFollowSeq
<1>1. VInv => VersionsFollowSeq
  BY DEF VInv
<1> QED  BY <1>1, InitInv, InitVInv, NextStep, NextVersions, PTL DEF Spec

(***************************************************************************)
(* The state that accompanies a page is never older than a row of the      *)
(* page, although it is read by a later statement.                         *)
(***************************************************************************)
THEOREM PulledStateNotOlder == Spec => []StateNotOlder
<1>1. VInv => StateNotOlder
  BY DEF VInv
<1> QED  BY <1>1, InitInv, InitVInv, NextStep, NextVersions, PTL DEF Spec
=============================================================================
