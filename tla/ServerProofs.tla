---------------------------- MODULE ServerProofs ----------------------------
(***************************************************************************)
(* Theorems about the two parts of the server that keep a household's      *)
(* records and its members, each for every value of its constants:         *)
(*                                                                         *)
(* SyncServer.  Everything an operation can do to the rows and the log is  *)
(* one of three changes (ApplyCases): an upsert, a tombstone of an         *)
(* unreferenced row, or a cascaded tombstone of a category.  Each          *)
(* invariant is shown to survive each change and the purge.                *)
(*                                                                         *)
(* Household.  Whoever is moved by a leave, a removal or a dissolution     *)
(* becomes the owner of a household whose id is new (RehomedFacts), and a  *)
(* join makes members only; the rest is bookkeeping.                       *)
(***************************************************************************)
EXTENDS SyncServer, Household, FiniteSetTheorems, TLAPS

-----------------------------------------------------------------------------
(* SyncServer.                                                             *)

Typed(s) ==
  /\ s \in ServerState
  /\ \A i \in Id : Found(s, i) => s.rec[i].data \in PayloadOf(i)

\* m is s after record i took the live state r.
UpsertTo(s, i, r, m) ==
  /\ r \in Row /\ ~ r.deleted /\ r.data \in PayloadOf(i)
  /\ \/ ~ Found(s, i) /\ r.ver = 1
     \/ Live(s, i) /\ r.ver = s.rec[i].ver + 1
  /\ i \in Category => ~ NameTaken(s, i, r.data)
  /\ i \in Transaction => Live(s, r.data.category)
  /\ m = Logged(s, i, r)

\* m is s after the tombstone of record i, which no live row refers to.
TombstoneTo(s, i, m) ==
  /\ Live(s, i)
  /\ i \in Category => Dependants(s, i) = {}
  /\ m = Logged(s, i, Tombstoned(s, i))

\* m is s after the cascading delete of category c.
CascadeTo(s, c, order, m) ==
  /\ c \in Category /\ Live(s, c)
  /\ m = Cascaded(Logged(s, c, Tombstoned(s, c)), c, order)

\* What one operation does to rows and log.
ChangeTo(s, i, order, m) ==
  \/ m = s
  \/ \E r \in Row : UpsertTo(s, i, r, m)
  \/ TombstoneTo(s, i, m)
  \/ CascadeTo(s, i, order, m)

\* An outcome is applied, or leaves the state alone.
Effect(s, i, order, o) ==
  \/ o.srv = s /\ o.answer.status # "applied"
  \/ /\ ChangeTo(s, i, order, o.srv)
     /\ o.answer.status = "applied"
     /\ o.answer.ver \in Nat

LEMMA CardinalityTransaction == Cardinality(Transaction) \in Nat
BY TransactionFinite, FS_CardinalityType

LEMMA AppliedAnswerVersion ==
  ASSUME NEW v
  PROVE  AppliedAnswer(v).ver = v /\ AppliedAnswer(v).status = "applied"
BY DEF AppliedAnswer

LEMMA CreatedDataType ==
  ASSUME NEW i \in Id, NEW d \in PayloadOf(i)
  PROVE  CreatedData(i, d) \in PayloadOf(i) /\ CreatedData(i, d).name = d.name
<1>1. CASE i \in Category
  BY <1>1 DEF CreatedData, PayloadOf, Payload
<1>2. CASE i \notin Category
  BY <1>2 DEF CreatedData
<1> QED  BY <1>1, <1>2

LEMMA UpsertOpFields ==
  ASSUME NEW op \in UpsertOp
  PROVE  /\ op.id \in Id /\ op.base \in Nat /\ op.opId \in OpId
         /\ op.data \in PayloadOf(op.id) /\ op.action = "upsert"
<1>1. PICK i \in Id :
        op \in [opId : OpId, action : {"upsert"}, id : {i},
               base : 0..MaxVersion, data : PayloadOf(i), cascade : {FALSE}]
  BY DEF UpsertOp
<1>2. 0..MaxVersion \subseteq Nat
  BY BoundsAssumption
<1> QED  BY <1>1, <1>2

LEMMA UpsertCases ==
  ASSUME NEW s, Typed(s), NEW op \in UpsertOp, NEW order
  PROVE  Effect(s, op.id, order, Upsert(s, op))
<1>1. op.id \in Id /\ op.base \in Nat /\ op.data \in PayloadOf(op.id)
  BY UpsertOpFields
<1>2. PayloadOf(op.id) \subseteq Payload
  BY DEF PayloadOf
<1> DEFINE u == Upsert(s, op)
<1>3. CASE u.srv = s /\ u.answer.status # "applied"
  BY <1>3 DEF Effect
<1>4. CASE ~ (u.srv = s /\ u.answer.status # "applied")
  <2>1. /\ op.id \in Category => ~ NameTaken(s, op.id, op.data)
        /\ op.id \in Transaction => CategoryValid(s, op.id, op.data)
    BY <1>4 DEF Upsert, Outcome, ErrorAnswer
  <2>2. CASE op.base = 0
    <3>1. u = Create(s, op)
      BY <2>1, <2>2, KindsDisjoint DEF Upsert, Id
    <3>2. ~ Found(s, op.id)
      BY <3>1, <1>4 DEF Create, Outcome, ConflictAnswer
    <3> DEFINE r == [ver |-> 1, deleted |-> FALSE,
                     data |-> CreatedData(op.id, op.data)]
    <3>3. u.srv = Logged(s, op.id, r) /\ u.answer = AppliedAnswer(1)
      BY <3>1, <3>2 DEF Create, Outcome
    <3>4. r \in Row /\ r.data \in PayloadOf(op.id)
      BY <1>1, <1>2, CreatedDataType DEF Row
    <3>5. op.id \in Category => ~ NameTaken(s, op.id, r.data)
      BY <2>1, <1>1, CreatedDataType DEF NameTaken
    <3>6. op.id \in Transaction => Live(s, r.data.category)
      BY <2>1, KindsDisjoint DEF CategoryValid, CreatedData
    <3>7. UpsertTo(s, op.id, r, u.srv)
      BY <3>2, <3>3, <3>4, <3>5, <3>6 DEF UpsertTo
    <3>8. Effect(s, op.id, order, u)
      <4> HIDE DEF u, r
      <4>1. ChangeTo(s, op.id, order, u.srv)
        BY <3>4, <3>7 DEF ChangeTo
      <4> QED  BY <3>3, <4>1, AppliedAnswerVersion DEF Effect
    <3> QED  BY <3>8
  <2>3. CASE op.base # 0
    <3>1. u = Update(s, op)
      BY <2>1, <2>3, KindsDisjoint DEF Upsert, Id
    <3>2. Found(s, op.id) /\ ~ s.rec[op.id].deleted /\ s.rec[op.id].ver = op.base
      BY <3>1, <1>4 DEF Update, Outcome, ConflictAnswer
    <3> DEFINE r == [ver |-> op.base + 1, deleted |-> FALSE, data |-> op.data]
    <3>3. u.srv = Logged(s, op.id, r) /\ u.answer = AppliedAnswer(op.base + 1)
      BY <3>1, <3>2 DEF Update, Outcome
    <3>4. r \in Row /\ r.data \in PayloadOf(op.id)
      BY <1>1, <1>2 DEF Row
    <3>5. op.id \in Transaction => Live(s, r.data.category)
      BY <2>1 DEF CategoryValid
    <3>6. UpsertTo(s, op.id, r, u.srv)
      BY <2>1, <3>2, <3>3, <3>4, <3>5 DEF UpsertTo, Live
    <3>7. Effect(s, op.id, order, u)
      <4> HIDE DEF u, r
      <4>1. ChangeTo(s, op.id, order, u.srv)
        BY <3>4, <3>6 DEF ChangeTo
      <4> QED  BY <1>1, <3>3, <4>1, AppliedAnswerVersion DEF Effect
    <3> QED  BY <3>7
  <2> QED  BY <2>2, <2>3
<1> QED  BY <1>3, <1>4

LEMMA DeleteCases ==
  ASSUME NEW s, Typed(s), NEW op \in DeleteOp, NEW order
  PROVE  Effect(s, op.id, order, Delete(s, op, order))
<1>1. op.id \in Id
  BY DEF DeleteOp
<1>2. s.rec[op.id].ver \in Nat
  BY <1>1 DEF Typed, ServerState, Row
<1> DEFINE u == Delete(s, op, order)
           d == Logged(s, op.id, Tombstoned(s, op.id))
<1>3. CASE ~ Found(s, op.id) \/ s.rec[op.id].deleted
  BY <1>2, <1>3 DEF Delete, ChangeTo, Effect, Outcome, AppliedAnswer
<1>4. CASE Live(s, op.id) /\ InUse(s, op)
  BY <1>4 DEF Delete, Effect, Outcome, ErrorAnswer, Live
<1>5. CASE Live(s, op.id) /\ ~ InUse(s, op)
  <2>1. /\ u.srv = IF op.id \in Category /\ op.cascade
                   THEN Cascaded(d, op.id, order) ELSE d
        /\ u.answer = AppliedAnswer(s.rec[op.id].ver + 1)
    BY <1>5 DEF Delete, Outcome, Live
  <2>2. ChangeTo(s, op.id, order, u.srv)
    <3>1. CASE op.id \in Category /\ op.cascade
      <4>1. CascadeTo(s, op.id, order, u.srv)
        BY <1>5, <2>1, <3>1 DEF CascadeTo
      <4> HIDE DEF u
      <4> QED  BY <4>1 DEF ChangeTo
    <3>2. CASE ~ (op.id \in Category /\ op.cascade)
      <4>1. TombstoneTo(s, op.id, u.srv)
        BY <1>5, <2>1, <3>2 DEF TombstoneTo, InUse
      <4> HIDE DEF u
      <4> QED  BY <4>1 DEF ChangeTo
    <3> QED  BY <3>1, <3>2
  <2>3. Effect(s, op.id, order, u)
    <3> HIDE DEF u
    <3> QED  BY <1>2, <2>1, <2>2, AppliedAnswerVersion DEF Effect
  <2> QED  BY <2>3
<1> QED  BY <1>3, <1>4, <1>5 DEF Live

(***************************************************************************)
(* One operation of a batch leaves the household alone, or makes one       *)
(* ChangeTo and stores its answer under an opId that had none.             *)
(***************************************************************************)
LEMMA ApplyCases ==
  ASSUME NEW s, Typed(s), NEW op \in Operation, NEW order
  PROVE  \/ Apply(s, op, order).srv = s
         \/ /\ s.applied[op.opId] = NotApplied
            /\ \E m : \E v \in Nat :
                 /\ ChangeTo(s, op.id, order, m)
                 /\ Apply(s, op, order).srv = Recorded(m, op.opId, v)
<1> DEFINE o == Perform(s, op, order)
<1>1. Effect(s, op.id, order, o)
  <2>1. CASE op \in UpsertOp
    <3>1. op.action = "upsert"
      BY <2>1, UpsertOpFields
    <3>2. o = Upsert(s, op)
      BY <3>1 DEF Perform
    <3> QED  BY <2>1, <3>2, UpsertCases
  <2>2. CASE op \in DeleteOp
    <3>1. o = Delete(s, op, order)
      BY <2>2 DEF Perform, DeleteOp
    <3> QED  BY <2>2, <3>1, DeleteCases
  <2> QED  BY <2>1, <2>2 DEF Operation
<1>2. CASE s.applied[op.opId] # NotApplied
  BY <1>2 DEF Apply, Outcome
<1>3. CASE s.applied[op.opId] = NotApplied
  <2>1. Apply(s, op, order) =
          IF o.answer.status = "applied"
          THEN Outcome(Recorded(o.srv, op.opId, o.answer.ver), o.answer)
          ELSE o
    BY <1>3 DEF Apply
  <2>2. CASE o.srv = s /\ o.answer.status # "applied"
    BY <2>1, <2>2
  <2>3. CASE /\ ChangeTo(s, op.id, order, o.srv)
             /\ o.answer.status = "applied"
             /\ o.answer.ver \in Nat
    <3>1. Apply(s, op, order).srv = Recorded(o.srv, op.opId, o.answer.ver)
      BY <2>1, <2>3 DEF Outcome
    <3> HIDE DEF o
    <3> QED  BY <1>3, <2>3, <3>1
  <2> QED  BY <1>1, <2>2, <2>3 DEF Effect
<1> QED  BY <1>2, <1>3

-----------------------------------------------------------------------------
(* The three changes, field by field.                                      *)

LEMMA LoggedFields ==
  ASSUME NEW s, NEW i, NEW r
  PROVE  /\ Logged(s, i, r).rec = [s.rec EXCEPT ![i] = r]
         /\ Logged(s, i, r).log =
              s.log \cup {[seq |-> s.seq + 1, id |-> i, ver |-> r.ver,
                          action |-> IF r.deleted THEN "tombstone" ELSE "upsert"]}
         /\ Logged(s, i, r).seq = s.seq + 1
         /\ Logged(s, i, r).applied = s.applied
BY DEF Logged

LEMMA RecordedFields ==
  ASSUME NEW s, NEW o, NEW v
  PROVE  /\ Recorded(s, o, v).rec = s.rec /\ Recorded(s, o, v).log = s.log
         /\ Recorded(s, o, v).seq = s.seq
         /\ Recorded(s, o, v).applied = [s.applied EXCEPT ![o] = v]
BY DEF Recorded

LEMMA PurgedFields ==
  ASSUME NEW s, NEW D
  PROVE  /\ Purged(s, D).rec = [i \in Id |-> IF i \in D THEN Absent ELSE s.rec[i]]
         /\ Purged(s, D).log = s.log /\ Purged(s, D).seq = s.seq
         /\ Purged(s, D).applied = s.applied
BY DEF Purged

LEMMA TombstonedFields ==
  ASSUME NEW s, Typed(s), NEW i \in Id
  PROVE  /\ Tombstoned(s, i) \in Row
         /\ Tombstoned(s, i).deleted
         /\ Tombstoned(s, i).ver = s.rec[i].ver + 1
         /\ Tombstoned(s, i).data = s.rec[i].data
BY DEF Tombstoned, Typed, ServerState, Row

LEMMA RowFields ==
  ASSUME NEW s, Typed(s), NEW i \in Id
  PROVE  /\ s.rec[i].ver \in Nat /\ s.rec[i].deleted \in BOOLEAN
         /\ s.rec[i].data \in Payload \cup {NoData}
BY DEF Typed, ServerState, Row

LEMMA OrderFields ==
  ASSUME NEW order \in Orders, NEW t \in Transaction
  PROVE  order[t] \in Nat /\ order[t] >= 1 /\ order[t] <= Cardinality(Transaction)
<1>1. order \in [Transaction -> 1..Cardinality(Transaction)]
  BY DEF Orders
<1> QED  BY <1>1, CardinalityTransaction

LEMMA LoggedTombstone ==
  ASSUME NEW s, Typed(s), NEW i \in Id
  PROVE  Logged(s, i, Tombstoned(s, i)).log =
           s.log \cup {[seq |-> s.seq + 1, id |-> i, ver |-> s.rec[i].ver + 1,
                       action |-> "tombstone"]}
<1> DEFINE r == Tombstoned(s, i)
<1>1. r.deleted /\ r.ver = s.rec[i].ver + 1
  BY TombstonedFields
<1> HIDE DEF r
<1>2. Logged(s, i, r).log =
        s.log \cup {[seq |-> s.seq + 1, id |-> i, ver |-> r.ver,
                    action |-> IF r.deleted THEN "tombstone" ELSE "upsert"]}
  BY DEF Logged
<1>3. Logged(s, i, r).log =
        s.log \cup {[seq |-> s.seq + 1, id |-> i, ver |-> s.rec[i].ver + 1,
                    action |-> "tombstone"]}
  BY <1>1, <1>2
<1> QED  BY <1>3 DEF r

(***************************************************************************)
(* A cascade is a set of tombstones: of the category and its dependants.   *)
(***************************************************************************)
LEMMA CascadeFields ==
  ASSUME NEW s, Typed(s), NEW c \in Category, NEW order \in Orders, NEW m,
         CascadeTo(s, c, order, m)
  PROVE  LET D == Dependants(s, c)
         IN  /\ m.rec = [i \in Id |-> IF i = c \/ i \in D
                                     THEN Tombstoned(s, i) ELSE s.rec[i]]
             /\ m.log = s.log
                  \cup {[seq |-> s.seq + 1, id |-> c, ver |-> s.rec[c].ver + 1,
                         action |-> "tombstone"]}
                  \cup {[seq |-> s.seq + 1 + order[t], id |-> t,
                         action |-> "tombstone", ver |-> s.rec[t].ver + 1] : t \in D}
             /\ m.seq = s.seq + 1 + Cardinality(Transaction)
             /\ m.applied = s.applied
<1> DEFINE d == Logged(s, c, Tombstoned(s, c))
           D == Dependants(s, c)
<1>1. c \in Id /\ Transaction \subseteq Id /\ c \notin Transaction
  BY KindsDisjoint DEF Id
<1>2. /\ d.rec = [s.rec EXCEPT ![c] = Tombstoned(s, c)]
      /\ d.log = s.log \cup {[seq |-> s.seq + 1, id |-> c, ver |-> s.rec[c].ver + 1,
                              action |-> "tombstone"]}
      /\ d.seq = s.seq + 1 /\ d.applied = s.applied
  <2>1. d.rec = [s.rec EXCEPT ![c] = Tombstoned(s, c)]
    BY DEF Logged
  <2>2. d.seq = s.seq + 1 /\ d.applied = s.applied
    BY DEF Logged
  <2>3. d.log = s.log \cup {[seq |-> s.seq + 1, id |-> c,
                             ver |-> s.rec[c].ver + 1, action |-> "tombstone"]}
    BY <1>1, LoggedTombstone
  <2> QED  BY <2>1, <2>2, <2>3
<1>3. s.rec \in [Id -> Row] /\ s.seq \in Nat
  BY DEF Typed, ServerState
<1>4. \A i \in Id \ {c} : d.rec[i] = s.rec[i]
  BY <1>2, <1>3
<1>5. d.rec[c] = Tombstoned(s, c)
  BY <1>1, <1>2, <1>3
<1> HIDE DEF d
<1>6. Dependants(d, c) = D
  BY <1>1, <1>4 DEF Dependants, Live, Found
<1>7. \A t \in D : t \in Id \ {c} /\ Tombstoned(d, t) = Tombstoned(s, t)
                  /\ d.rec[t] = s.rec[t]
  BY <1>1, <1>4 DEF Dependants, Tombstoned
<1>8. /\ m.rec = [i \in Id |-> IF i \in Dependants(d, c) THEN Tombstoned(d, i)
                                                      ELSE d.rec[i]]
      /\ m.log = d.log \cup {[seq |-> d.seq + order[t], id |-> t,
                              action |-> "tombstone", ver |-> d.rec[t].ver + 1]
                              : t \in Dependants(d, c)}
      /\ m.seq = d.seq + Cardinality(Transaction)
      /\ m.applied = d.applied
  BY DEF CascadeTo, Cascaded, d
<1>9. m.rec = [i \in Id |-> IF i = c \/ i \in D
                            THEN Tombstoned(s, i) ELSE s.rec[i]]
  BY <1>1, <1>4, <1>5, <1>6, <1>7, <1>8
<1>10. {[seq |-> d.seq + order[t], id |-> t, action |-> "tombstone",
         ver |-> d.rec[t].ver + 1] : t \in Dependants(d, c)}
       = {[seq |-> s.seq + 1 + order[t], id |-> t, action |-> "tombstone",
           ver |-> s.rec[t].ver + 1] : t \in D}
  BY <1>2, <1>6, <1>7
<1> QED  BY <1>2, <1>8, <1>9, <1>10

-----------------------------------------------------------------------------
(* The invariant of the committed state.                                   *)

RefsIn(s) ==
  \A t \in Transaction : Live(s, t) => Live(s, s.rec[t].data.category)

NamesIn(s) ==
  \A c, d \in Category :
    Live(s, c) /\ Live(s, d) /\ s.rec[c].data.name = s.rec[d].data.name => c = d

\* Log rows are numbered up to seq, each differently.
Numbered(s) ==
  /\ \A e \in s.log : e.seq <= s.seq
  /\ \A e, f \in s.log : e.seq = f.seq => e = f

\* e is the log's last word on record i, and says what the row is.
LastWord(s, i, e) ==
  /\ e \in s.log /\ e.id = i
  /\ \A f \in s.log : f.id = i => f.seq <= e.seq
  /\ IF Found(s, i)
     THEN e.ver = s.rec[i].ver /\ (e.action = "tombstone" <=> s.rec[i].deleted)
     ELSE e.action = "tombstone"

\* The log has no row of record i.
Unheard(s, i) == (\A e \in s.log : e.id # i) /\ s.rec[i] = Absent

Heard(s) == \A i \in Id : Unheard(s, i) \/ \E e \in s.log : LastWord(s, i, e)

Good(s) == Typed(s) /\ RefsIn(s) /\ NamesIn(s) /\ Numbered(s) /\ Heard(s)

\* Tombstones of s are rows of m, or purged.
Final(s, m) ==
  \A i \in Id : Found(s, i) /\ s.rec[i].deleted =>
    m.rec[i] = s.rec[i] \/ m.rec[i] = Absent

-----------------------------------------------------------------------------
(* An upsert.                                                              *)

LEMMA CategoryOfTransaction ==
  ASSUME NEW s, Typed(s), NEW t \in Transaction, Found(s, t)
  PROVE  s.rec[t].data.category \in Category
<1>1. t \in Id /\ t \notin Category
  BY KindsDisjoint DEF Id
<1>2. s.rec[t].data \in PayloadOf(t)
  BY <1>1 DEF Typed
<1> QED  BY <1>1, <1>2 DEF PayloadOf

LEMMA LogGrows ==
  ASSUME NEW s, Typed(s), Numbered(s), Heard(s), NEW i \in Id, NEW r \in Row,
         r.ver > 0
  PROVE  LET m == Logged(s, i, r)
         IN  m \in ServerState /\ Numbered(m) /\ Heard(m)
<1> DEFINE m == Logged(s, i, r)
           e == [seq |-> s.seq + 1, id |-> i, ver |-> r.ver,
                 action |-> IF r.deleted THEN "tombstone" ELSE "upsert"]
<1>1. /\ m.rec = [s.rec EXCEPT ![i] = r] /\ m.seq = s.seq + 1
      /\ m.applied = s.applied
  BY DEF Logged
<1>2. m.log = s.log \cup {e}
  BY DEF Logged
<1>3. /\ s.seq \in Nat /\ s.rec \in [Id -> Row] /\ s.log \subseteq Entry
      /\ s.applied \in [OpId -> Nat \cup {NotApplied}]
  BY DEF Typed, ServerState
<1>4. e \in Entry
  BY <1>3 DEF Entry, Row
<1>5. /\ e.seq = s.seq + 1 /\ e.id = i /\ e.ver = r.ver
      /\ e.action = "tombstone" <=> r.deleted
  OBVIOUS
<1>6. m \in ServerState
  <2>1. m.rec \in [Id -> Row]
    BY <1>1, <1>3
  <2>2. m.log \subseteq Entry
    BY <1>2, <1>3, <1>4
  <2>3. m = [rec |-> m.rec, log |-> m.log, seq |-> m.seq, applied |-> m.applied]
    BY DEF Logged
  <2> HIDE DEF m
  <2> QED  BY <1>1, <1>3, <2>1, <2>2, <2>3 DEF ServerState
<1> HIDE DEF m, e
<1>7. \A f \in s.log : f.seq \in Nat /\ f.seq <= s.seq
  BY <1>3 DEF Entry, Numbered
<1>8. Numbered(m)
  BY <1>1, <1>2, <1>3, <1>5, <1>7 DEF Numbered
<1>9. ASSUME NEW j \in Id
      PROVE  Unheard(m, j) \/ \E f \in m.log : LastWord(m, j, f)
  <2>1. CASE j = i
    <3>1. m.rec[j] = r
      BY <1>1, <1>3, <2>1
    <3>2. LastWord(m, j, e)
      BY <1>2, <1>3, <1>5, <1>7, <2>1, <3>1 DEF LastWord, Found
    <3> QED  BY <1>2, <3>2
  <2>2. CASE j # i
    <3>1. m.rec[j] = s.rec[j]
      BY <1>1, <1>3, <2>2
    <3>2. CASE Unheard(s, j)
      BY <1>2, <1>5, <2>2, <3>1, <3>2 DEF Unheard
    <3>3. CASE \E f \in s.log : LastWord(s, j, f)
      <4>1. PICK f \in s.log : LastWord(s, j, f)
        BY <3>3
      <4>2. LastWord(m, j, f)
        BY <1>2, <1>5, <2>2, <3>1, <4>1 DEF LastWord, Found
      <4> QED  BY <1>2, <4>2
    <3> QED  BY <3>2, <3>3 DEF Heard
  <2> QED  BY <2>1, <2>2
<1> QED  BY <1>6, <1>8, <1>9 DEF Heard, m

LEMMA UpsertKeeps ==
  ASSUME NEW s, Good(s), NEW i \in Id, NEW r \in Row, NEW m, UpsertTo(s, i, r, m)
  PROVE  Good(m) /\ Final(s, m)
<1>1. /\ Typed(s) /\ RefsIn(s) /\ NamesIn(s) /\ Numbered(s) /\ Heard(s)
      /\ s.rec \in [Id -> Row]
  BY DEF Good, Typed, ServerState
<1>2. /\ m = Logged(s, i, r) /\ ~ r.deleted /\ r.data \in PayloadOf(i)
      /\ r.ver > 0
      /\ ~ (Found(s, i) /\ s.rec[i].deleted)
  BY <1>1, RowFields DEF UpsertTo, Live, Found
<1>3. m \in ServerState /\ Numbered(m) /\ Heard(m)
  BY <1>1, <1>2, LogGrows
<1>4. m.rec = [s.rec EXCEPT ![i] = r]
  BY <1>2 DEF Logged
<1>5. m.rec[i] = r /\ \A j \in Id \ {i} : m.rec[j] = s.rec[j]
  BY <1>1, <1>4
<1>6. Live(m, i) /\ \A j \in Id : Live(s, j) => Live(m, j)
  BY <1>2, <1>5 DEF Live, Found
<1>7. Typed(m)
  BY <1>1, <1>2, <1>3, <1>5 DEF Typed, Found
<1>8. RefsIn(m)
  <2> SUFFICES ASSUME NEW t \in Transaction, Live(m, t)
               PROVE  Live(m, m.rec[t].data.category)
    BY DEF RefsIn
  <2>1. t \in Id
    BY DEF Id
  <2>2. CASE t = i
    <3>1. r.data.category \in Id
      BY <1>2, <2>2, KindsDisjoint DEF PayloadOf, Id
    <3>2. Live(s, r.data.category)
      BY <2>2 DEF UpsertTo
    <3> QED  BY <1>5, <1>6, <2>2, <3>1, <3>2
  <2>3. CASE t # i
    <3>1. m.rec[t] = s.rec[t] /\ Live(s, t)
      BY <1>5, <2>1, <2>3 DEF Live, Found
    <3>2. s.rec[t].data.category \in Id
      BY <1>1, <3>1, CategoryOfTransaction DEF Live, Id
    <3> QED  BY <1>1, <1>6, <3>1, <3>2 DEF RefsIn
  <2> QED  BY <2>2, <2>3
<1>9. NamesIn(m)
  <2> SUFFICES ASSUME NEW c \in Category, NEW d \in Category,
                      Live(m, c), Live(m, d), c # d,
                      m.rec[c].data.name = m.rec[d].data.name
               PROVE  FALSE
    BY DEF NamesIn
  <2>1. c \in Id /\ d \in Id
    BY DEF Id
  <2>2. CASE c = i
    BY <1>5, <2>1, <2>2 DEF UpsertTo, NameTaken, Live, Found
  <2>3. CASE d = i
    BY <1>5, <2>1, <2>3 DEF UpsertTo, NameTaken, Live, Found
  <2>4. CASE c # i /\ d # i
    BY <1>1, <1>5, <2>1, <2>4 DEF NamesIn, Live, Found
  <2> QED  BY <2>2, <2>3, <2>4
<1>10. Final(s, m)
  BY <1>2, <1>5 DEF Final
<1> QED  BY <1>3, <1>7, <1>8, <1>9, <1>10 DEF Good

-----------------------------------------------------------------------------
(* Tombstones.                                                             *)

\* W is a set of records that become tombstones in m and leave no live
\* reference behind.
Buries(s, W, m) ==
  /\ W \subseteq Id /\ \A i \in W : Live(s, i)
  /\ m.rec = [i \in Id |-> IF i \in W THEN Tombstoned(s, i) ELSE s.rec[i]]
  /\ \A t \in Transaction :
       Live(s, t) /\ s.rec[t].data.category \in W => t \in W

LEMMA BuriesKeeps ==
  ASSUME NEW s, Typed(s), RefsIn(s), NamesIn(s), NEW W, NEW m,
         Buries(s, W, m), m \in ServerState
  PROVE  Typed(m) /\ RefsIn(m) /\ NamesIn(m) /\ Final(s, m)
<1>1. /\ \A i \in W : m.rec[i] = Tombstoned(s, i) /\ i \in Id
      /\ \A i \in Id \ W : m.rec[i] = s.rec[i]
  BY DEF Buries
<1>2. \A i \in W : ~ Live(m, i) /\ m.rec[i].data = s.rec[i].data
  BY <1>1, TombstonedFields DEF Live
<1>3. \A i \in Id \ W : Live(m, i) <=> Live(s, i)
  BY <1>1 DEF Live, Found
<1>4. Typed(m)
  <2> SUFFICES ASSUME NEW i \in Id, Found(m, i)
               PROVE  m.rec[i].data \in PayloadOf(i)
    BY DEF Typed
  <2>1. CASE i \in W
    BY <1>2, <2>1 DEF Typed, Buries, Live
  <2>2. CASE i \notin W
    BY <1>1, <2>2 DEF Typed, Found
  <2> QED  BY <2>1, <2>2
<1>5. RefsIn(m)
  <2> SUFFICES ASSUME NEW t \in Transaction, Live(m, t)
               PROVE  Live(m, m.rec[t].data.category)
    BY DEF RefsIn
  <2>1. t \in Id /\ t \notin W
    BY <1>2 DEF Id
  <2>2. m.rec[t] = s.rec[t] /\ Live(s, t)
    BY <1>1, <1>3, <2>1
  <2>3. s.rec[t].data.category \in Id
    BY <2>2, CategoryOfTransaction DEF Live, Id
  <2>4. s.rec[t].data.category \notin W
    BY <2>1, <2>2 DEF Buries
  <2> QED  BY <1>3, <2>2, <2>3, <2>4 DEF RefsIn
<1>6. NamesIn(m)
  <2> SUFFICES ASSUME NEW c \in Category, NEW d \in Category,
                      Live(m, c), Live(m, d),
                      m.rec[c].data.name = m.rec[d].data.name
               PROVE  c = d
    BY DEF NamesIn
  <2>1. c \in Id \ W /\ d \in Id \ W
    BY <1>2 DEF Id
  <2> QED  BY <1>1, <1>3, <2>1 DEF NamesIn
<1>7. Final(s, m)
  BY <1>1 DEF Final, Buries, Live
<1> QED  BY <1>4, <1>5, <1>6, <1>7

LEMMA TombstoneKeeps ==
  ASSUME NEW s, Good(s), NEW i \in Id, NEW m, TombstoneTo(s, i, m)
  PROVE  Good(m) /\ Final(s, m)
<1>1. /\ Typed(s) /\ RefsIn(s) /\ NamesIn(s) /\ Numbered(s) /\ Heard(s)
      /\ s.rec \in [Id -> Row]
  BY DEF Good, Typed, ServerState
<1>2. m = Logged(s, i, Tombstoned(s, i)) /\ Live(s, i)
  BY DEF TombstoneTo
<1>3. Tombstoned(s, i) \in Row /\ Tombstoned(s, i).ver > 0
  BY <1>1, TombstonedFields, RowFields
<1>4. m \in ServerState /\ Numbered(m) /\ Heard(m)
  BY <1>1, <1>2, <1>3, LogGrows
<1>5. Buries(s, {i}, m)
  <2>1. m.rec = [s.rec EXCEPT ![i] = Tombstoned(s, i)]
    BY <1>2 DEF Logged
  <2>2. m.rec = [j \in Id |-> IF j \in {i} THEN Tombstoned(s, j) ELSE s.rec[j]]
    BY <1>1, <2>1
  <2>3. ASSUME NEW t \in Transaction, Live(s, t), s.rec[t].data.category = i
        PROVE  FALSE
    <3>1. i \in Category
      BY <1>1, <2>3, CategoryOfTransaction DEF Live
    <3> QED  BY <2>3, <3>1 DEF TombstoneTo, Dependants
  <2> QED  BY <1>2, <2>2, <2>3 DEF Buries
<1> QED  BY <1>1, <1>4, <1>5, BuriesKeeps DEF Good

LEMMA CascadeLog ==
  ASSUME NEW s, Good(s), NEW c \in Category, NEW order \in Orders, NEW m,
         CascadeTo(s, c, order, m)
  PROVE  m \in ServerState /\ Numbered(m) /\ Heard(m)
<1>1. Typed(s) /\ Numbered(s) /\ Heard(s)
  BY DEF Good
<1>2. /\ s.seq \in Nat /\ s.rec \in [Id -> Row] /\ s.log \subseteq Entry
      /\ s.applied \in [OpId -> Nat \cup {NotApplied}]
  BY <1>1 DEF Typed, ServerState
<1> DEFINE D == Dependants(s, c)
           e == [seq |-> s.seq + 1, id |-> c, ver |-> s.rec[c].ver + 1,
                 action |-> "tombstone"]
           g(t) == [seq |-> s.seq + 1 + order[t], id |-> t,
                    action |-> "tombstone", ver |-> s.rec[t].ver + 1]
<1>3. /\ m.rec = [i \in Id |-> IF i = c \/ i \in D THEN Tombstoned(s, i)
                                               ELSE s.rec[i]]
      /\ m.log = s.log \cup {e} \cup {g(t) : t \in D}
      /\ m.seq = s.seq + 1 + Cardinality(Transaction)
      /\ m.applied = s.applied
  BY <1>1, CascadeFields
<1>4. /\ c \in Id /\ c \notin Transaction /\ D \subseteq Transaction
      /\ Transaction \subseteq Id
  BY KindsDisjoint DEF Dependants, Id
<1>5. \A i \in Id : s.rec[i].ver \in Nat
  BY <1>1, RowFields
<1>6. e \in Entry /\ \A t \in D : g(t) \in Entry
  BY <1>2, <1>4, <1>5, OrderFields DEF Entry
<1>7. /\ e.seq = s.seq + 1 /\ e.id = c /\ e.ver = s.rec[c].ver + 1
      /\ e.action = "tombstone"
      /\ \A t \in D : /\ g(t).seq = s.seq + 1 + order[t] /\ g(t).id = t
                      /\ g(t).ver = s.rec[t].ver + 1
                      /\ g(t).action = "tombstone"
  OBVIOUS
<1> HIDE DEF e, g, D
<1>8. m \in ServerState
  <2>1. m.rec \in [Id -> Row]
    BY <1>1, <1>2, <1>3, TombstonedFields
  <2>2. m.log \subseteq Entry
    BY <1>2, <1>3, <1>6
  <2>3. m.seq \in Nat
    BY <1>2, <1>3, CardinalityTransaction
  <2>4. m = [rec |-> m.rec, log |-> m.log, seq |-> m.seq, applied |-> m.applied]
    BY DEF CascadeTo, Cascaded
  <2> QED  BY <1>2, <1>3, <2>1, <2>2, <2>3, <2>4 DEF ServerState
<1>9. \A f \in s.log : f.seq \in Nat /\ f.seq <= s.seq
  BY <1>1, <1>2 DEF Entry, Numbered
<1>10. Numbered(m)
  <2>1. ASSUME NEW f \in m.log  PROVE f.seq <= m.seq
    <3>1. CASE f \in s.log
      BY <1>2, <1>3, <1>9, <3>1, CardinalityTransaction
    <3>2. CASE f = e
      BY <1>2, <1>3, <1>7, <3>2, CardinalityTransaction
    <3>3. CASE \E t \in D : f = g(t)
      BY <1>2, <1>3, <1>4, <1>7, <3>3, OrderFields, CardinalityTransaction
    <3> QED  BY <1>3, <3>1, <3>2, <3>3
  <2>2. \A t, u \in D : g(t).seq = g(u).seq => t = u
    <3>1. \A t, u \in Transaction : order[t] = order[u] => t = u
      BY DEF Orders
    <3> QED  BY <1>2, <1>4, <1>7, <3>1, OrderFields
  <2>3. ASSUME NEW f \in m.log, NEW h \in m.log, f.seq = h.seq
        PROVE  f = h
    <3>1. CASE f \in s.log
      BY <1>1, <1>2, <1>3, <1>4, <1>7, <1>9, <2>3, <3>1, OrderFields DEF Numbered
    <3>2. CASE f = e
      BY <1>2, <1>3, <1>4, <1>7, <1>9, <2>3, <3>2, OrderFields
    <3>3. CASE \E t \in D : f = g(t)
      BY <1>2, <1>3, <1>4, <1>7, <1>9, <2>2, <2>3, <3>3, OrderFields
    <3> QED  BY <1>3, <3>1, <3>2, <3>3
  <2> QED  BY <2>1, <2>3 DEF Numbered
<1>11. ASSUME NEW j \in Id
       PROVE  Unheard(m, j) \/ \E f \in m.log : LastWord(m, j, f)
  <2>1. CASE j = c
    <3>1. /\ m.rec[j].ver = s.rec[c].ver + 1 /\ m.rec[j].deleted
      BY <1>1, <1>3, <2>1, TombstonedFields
    <3>2. \A f \in m.log : f.id = j => f.seq <= e.seq
      BY <1>2, <1>3, <1>4, <1>7, <1>9, <2>1
    <3>3. LastWord(m, j, e)
      BY <1>3, <1>5, <1>7, <2>1, <3>1, <3>2 DEF LastWord, Found
    <3> QED  BY <1>3, <3>3
  <2>2. CASE j \in D
    <3>1. /\ m.rec[j].ver = s.rec[j].ver + 1 /\ m.rec[j].deleted
      BY <1>1, <1>3, <1>4, <2>2, TombstonedFields
    <3>2. \A f \in m.log : f.id = j => f.seq <= g(j).seq
      BY <1>2, <1>3, <1>4, <1>7, <1>9, <2>2, OrderFields
    <3>3. g(j) \in m.log
      BY <1>3, <2>2
    <3>4. LastWord(m, j, g(j))
      BY <1>5, <1>7, <2>2, <3>1, <3>2, <3>3 DEF LastWord, Found
    <3> QED  BY <3>3, <3>4
  <2>3. CASE j # c /\ j \notin D
    <3>1. m.rec[j] = s.rec[j]
      BY <1>3, <2>3
    <3>2. \A f \in m.log : f.id = j => f \in s.log
      BY <1>3, <1>7, <2>3
    <3>3. s.log \subseteq m.log
      BY <1>3
    <3>4. CASE Unheard(s, j)
      BY <3>1, <3>2, <3>4 DEF Unheard
    <3>5. CASE \E f \in s.log : LastWord(s, j, f)
      <4>1. PICK f \in s.log : LastWord(s, j, f)
        BY <3>5
      <4>2. LastWord(m, j, f)
        BY <3>1, <3>2, <3>3, <4>1 DEF LastWord, Found
      <4> QED  BY <3>3, <4>2
    <3> QED  BY <1>1, <3>4, <3>5 DEF Heard
  <2> QED  BY <2>1, <2>2, <2>3
<1> QED  BY <1>8, <1>10, <1>11 DEF Heard

LEMMA CascadeKeeps ==
  ASSUME NEW s, Good(s), NEW c \in Category, NEW order \in Orders, NEW m,
         CascadeTo(s, c, order, m), m \in ServerState
  PROVE  Typed(m) /\ RefsIn(m) /\ NamesIn(m) /\ Final(s, m)
<1>1. Typed(s) /\ RefsIn(s) /\ NamesIn(s)
  BY DEF Good
<1> DEFINE D == Dependants(s, c)
<1>2. m.rec = [i \in Id |-> IF i = c \/ i \in D THEN Tombstoned(s, i)
                                               ELSE s.rec[i]]
  BY <1>1, CascadeFields
<1>3. Buries(s, D \cup {c}, m)
  <2>1. D \cup {c} \subseteq Id /\ \A i \in D \cup {c} : Live(s, i)
    BY DEF Dependants, CascadeTo, Id
  <2>2. ASSUME NEW t \in Transaction, Live(s, t),
               s.rec[t].data.category \in D \cup {c}
        PROVE  t \in D
    <3>1. s.rec[t].data.category \in Category
      BY <1>1, <2>2, CategoryOfTransaction DEF Live
    <3>2. s.rec[t].data.category = c
      BY <2>2, <3>1, KindsDisjoint DEF Dependants
    <3> QED  BY <2>2, <3>2 DEF Dependants
  <2> HIDE DEF D
  <2> QED  BY <1>2, <2>1, <2>2 DEF Buries
<1> QED  BY <1>1, <1>3, BuriesKeeps

-----------------------------------------------------------------------------
(* Every step.                                                             *)

LEMMA ChangeKeeps ==
  ASSUME NEW s, Good(s), NEW i \in Id, NEW order \in Orders, NEW m,
         ChangeTo(s, i, order, m)
  PROVE  Good(m) /\ Final(s, m)
<1>1. CASE m = s
  BY <1>1 DEF Final
<1>2. CASE \E r \in Row : UpsertTo(s, i, r, m)
  BY <1>2, UpsertKeeps
<1>3. CASE TombstoneTo(s, i, m)
  BY <1>3, TombstoneKeeps
<1>4. CASE CascadeTo(s, i, order, m)
  <2>1. i \in Category
    BY <1>4 DEF CascadeTo
  <2>2. m \in ServerState /\ Numbered(m) /\ Heard(m)
    BY <1>4, <2>1, CascadeLog
  <2> QED  BY <1>4, <2>1, <2>2, CascadeKeeps DEF Good
<1> QED  BY <1>1, <1>2, <1>3, <1>4 DEF ChangeTo

LEMMA RecordedKeeps ==
  ASSUME NEW m, Good(m), NEW o \in OpId, NEW v \in Nat
  PROVE  Good(Recorded(m, o, v))
<1> DEFINE n == Recorded(m, o, v)
<1>1. /\ n.rec = m.rec /\ n.log = m.log /\ n.seq = m.seq
      /\ n.applied = [m.applied EXCEPT ![o] = v]
  BY DEF Recorded
<1>2. n = [rec |-> n.rec, log |-> n.log, seq |-> n.seq, applied |-> n.applied]
  BY DEF Recorded
<1> HIDE DEF n
<1>3. /\ m.seq \in Nat /\ m.rec \in [Id -> Row] /\ m.log \subseteq Entry
      /\ m.applied \in [OpId -> Nat \cup {NotApplied}]
  BY DEF Good, Typed, ServerState
<1>4. n \in ServerState
  BY <1>1, <1>2, <1>3 DEF ServerState
<1>5. Typed(n) /\ Numbered(n)
  BY <1>1, <1>4 DEF Good, Typed, Numbered, Found
<1>6. RefsIn(n) /\ NamesIn(n)
  BY <1>1 DEF Good, RefsIn, NamesIn, Live, Found
<1>7. Heard(n)
  BY <1>1 DEF Good, Heard, Unheard, LastWord, Found
<1> QED  BY <1>5, <1>6, <1>7 DEF Good, n

LEMMA PurgeKeeps ==
  ASSUME NEW s, Good(s), NEW D \in SUBSET Id, Purgeable(s, D)
  PROVE  Good(Purged(s, D)) /\ Final(s, Purged(s, D))
<1> DEFINE n == Purged(s, D)
<1>1. /\ n.rec = [i \in Id |-> IF i \in D THEN Absent ELSE s.rec[i]]
      /\ n.log = s.log /\ n.seq = s.seq /\ n.applied = s.applied
  BY DEF Purged
<1>2. n = [rec |-> n.rec, log |-> n.log, seq |-> n.seq, applied |-> n.applied]
  BY DEF Purged
<1> HIDE DEF n
<1>3. /\ s.seq \in Nat /\ s.rec \in [Id -> Row] /\ s.log \subseteq Entry
      /\ s.applied \in [OpId -> Nat \cup {NotApplied}]
  BY DEF Good, Typed, ServerState
<1>4. Absent \in Row /\ Absent.ver = 0
  BY DEF Absent, Row
<1>5. /\ \A i \in D : n.rec[i] = Absent /\ ~ Found(n, i)
      /\ \A i \in Id \ D : n.rec[i] = s.rec[i]
  BY <1>1, <1>4 DEF Found
<1>6. \A i \in Id : Live(n, i) <=> Live(s, i)
  BY <1>5 DEF Live, Found, Purgeable
<1>7. \A i \in Id : Live(n, i) => n.rec[i] = s.rec[i]
  BY <1>5 DEF Live
<1>8. Typed(n) /\ Numbered(n)
  <2>1. n \in ServerState
    <3>1. n.rec \in [Id -> Row]
      BY <1>1, <1>3, <1>4
    <3> QED  BY <1>1, <1>2, <1>3, <3>1 DEF ServerState
  <2> QED  BY <1>1, <1>5, <2>1 DEF Good, Typed, Numbered, Found
<1>9. RefsIn(n)
  <2> SUFFICES ASSUME NEW t \in Transaction, Live(n, t)
               PROVE  Live(n, n.rec[t].data.category)
    BY DEF RefsIn
  <2>1. n.rec[t] = s.rec[t] /\ Live(s, t)
    BY <1>6, <1>7 DEF Id
  <2>2. s.rec[t].data.category \in Id
    BY <2>1, CategoryOfTransaction DEF Good, Live, Id
  <2> QED  BY <1>6, <2>1, <2>2 DEF Good, RefsIn
<1>10. NamesIn(n)
  BY <1>6, <1>7 DEF Good, NamesIn, Id
<1>11. Heard(n)
  <2> SUFFICES ASSUME NEW j \in Id
               PROVE  Unheard(n, j) \/ \E f \in n.log : LastWord(n, j, f)
    BY DEF Heard
  <2>1. CASE Unheard(s, j)
    BY <1>1, <1>5, <2>1 DEF Unheard
  <2>2. CASE \E f \in s.log : LastWord(s, j, f)
    <3>1. PICK f \in s.log : LastWord(s, j, f)
      BY <2>2
    <3>2. LastWord(n, j, f)
      BY <1>1, <1>5, <3>1 DEF LastWord, Found, Purgeable
    <3> QED  BY <1>1, <3>2
  <2> QED  BY <2>1, <2>2 DEF Good, Heard
<1>12. Final(s, n)
  BY <1>5 DEF Final
<1> QED  BY <1>8, <1>9, <1>10, <1>11, <1>12 DEF Good, n

-----------------------------------------------------------------------------
(* The theorems.                                                           *)

\* An operation that changed the household has a stored answer.
Counted ==
  /\ changes \in [OpId -> Nat]
  /\ \A o \in OpId : changes[o] <= 1
  /\ \A o \in OpId : srv.applied[o] = NotApplied => changes[o] = 0

IInv == Good(srv) /\ Counted

LEMMA InitInv == Init => IInv
<1> SUFFICES ASSUME Init PROVE IInv
  OBVIOUS
<1>1. /\ srv = [rec |-> srv.rec, log |-> {}, seq |-> 0, applied |-> srv.applied]
      /\ srv.rec = [i \in Id |-> Absent]
      /\ srv.applied = [o \in OpId |-> NotApplied]
      /\ srv.log = {} /\ srv.seq = 0
      /\ changes = [o \in OpId |-> 0]
  BY DEF Init, EmptyServer
<1>2. Absent \in Row /\ Absent.ver = 0
  BY DEF Absent, Row
<1>3. srv \in ServerState
  <2>1. srv.rec \in [Id -> Row] /\ srv.applied \in [OpId -> Nat \cup {NotApplied}]
    BY <1>1, <1>2
  <2> QED  BY <1>1, <2>1 DEF ServerState
<1>4. \A i \in Id : ~ Found(srv, i) /\ srv.rec[i] = Absent
  BY <1>1, <1>2 DEF Found
<1>5. Typed(srv) /\ Numbered(srv)
  BY <1>1, <1>3, <1>4 DEF Typed, Numbered
<1>6. RefsIn(srv) /\ NamesIn(srv)
  BY <1>4 DEF RefsIn, NamesIn, Live, Id
<1>7. Heard(srv)
  BY <1>1, <1>4 DEF Heard, Unheard
<1>8. Counted
  BY <1>1 DEF Counted
<1> QED  BY <1>5, <1>6, <1>7, <1>8 DEF IInv, Good

LEMMA PushStep ==
  ASSUME IInv, NEW op \in Operation, Push(op)
  PROVE  IInv' /\ Final(srv, srv')
<1>1. PICK order \in Orders : srv' = Apply(srv, op, order).srv
  BY DEF Push
<1>2. op.id \in Id /\ op.opId \in OpId
  BY UpsertOpFields DEF Operation, DeleteOp
<1>3. Good(srv) /\ Typed(srv) /\ Counted
  BY DEF IInv, Good
<1>4. changes' = [changes EXCEPT ![op.opId] =
                    IF srv'.rec = srv.rec THEN @ ELSE @ + 1]
  BY DEF Push
<1>5. CASE srv' = srv
  <2>1. changes' = changes
    BY <1>3, <1>4, <1>5 DEF Counted
  <2> QED  BY <1>3, <1>5, <2>1 DEF IInv, Counted, Final
<1>6. CASE /\ srv.applied[op.opId] = NotApplied
           /\ \E m : \E v \in Nat : /\ ChangeTo(srv, op.id, order, m)
                                    /\ srv' = Recorded(m, op.opId, v)
  <2>1. PICK m : \E v \in Nat : /\ ChangeTo(srv, op.id, order, m)
                               /\ srv' = Recorded(m, op.opId, v)
    BY <1>6
  <2>2. PICK v \in Nat : /\ ChangeTo(srv, op.id, order, m)
                        /\ srv' = Recorded(m, op.opId, v)
    BY <2>1
  <2>3. Good(m) /\ Final(srv, m)
    BY <1>2, <1>3, <2>2, ChangeKeeps
  <2>4. Good(srv')
    BY <1>2, <2>2, <2>3, RecordedKeeps
  <2>5. m.rec = srv'.rec /\ srv'.applied = [m.applied EXCEPT ![op.opId] = v]
    BY <2>2 DEF Recorded
  <2>6. Final(srv, srv')
    BY <2>3, <2>5 DEF Final
  <2>7. m.applied = srv.applied
    <3>1. CASE CascadeTo(srv, op.id, order, m)
      BY <3>1 DEF CascadeTo, Cascaded, Logged
    <3>2. CASE ~ CascadeTo(srv, op.id, order, m)
      BY <2>2, <3>2 DEF ChangeTo, UpsertTo, TombstoneTo, Logged
    <3> QED  BY <3>1, <3>2
  <2>8. srv.applied \in [OpId -> Nat \cup {NotApplied}]
    BY <1>3 DEF Typed, ServerState
  <2>9. Counted'
    <3>1. srv'.applied[op.opId] # NotApplied
      BY <1>2, <2>2, <2>5, <2>7, <2>8 DEF NotApplied
    <3>2. \A o \in OpId \ {op.opId} : srv'.applied[o] = srv.applied[o]
      BY <1>2, <2>5, <2>7, <2>8
    <3>3. changes[op.opId] = 0
      BY <1>2, <1>3, <1>6 DEF Counted
    <3>4. changes' \in [OpId -> Nat] /\ changes'[op.opId] <= 1
      BY <1>2, <1>3, <1>4, <3>3 DEF Counted
    <3>5. \A o \in OpId \ {op.opId} : changes'[o] = changes[o]
      BY <1>2, <1>3, <1>4 DEF Counted
    <3> QED  BY <1>3, <3>1, <3>2, <3>4, <3>5 DEF Counted
  <2> QED  BY <2>4, <2>6, <2>9 DEF IInv
<1> QED  BY <1>1, <1>3, <1>5, <1>6, ApplyCases

LEMMA PurgeStep ==
  ASSUME IInv, NEW Kind \in SUBSET Id, Purge(Kind)
  PROVE  IInv' /\ Final(srv, srv')
<1>1. PICK D \in SUBSET Kind \ {{}} : Purgeable(srv, D) /\ srv' = Purged(srv, D)
  BY DEF Purge
<1>2. Good(srv') /\ Final(srv, srv')
  BY <1>1, PurgeKeeps DEF IInv
<1>3. Counted'
  BY <1>1 DEF IInv, Counted, Purge, Purged
<1> QED  BY <1>2, <1>3 DEF IInv

LEMMA NextStep ==
  ASSUME IInv, [Next]_vars
  PROVE  IInv' /\ Final(srv, srv')
<1>1. CASE \E op \in Operation : Push(op)
  BY <1>1, PushStep
<1>2. CASE Purge(Transaction)
  BY <1>2, PurgeStep DEF Id
<1>3. CASE Purge(Category)
  BY <1>3, PurgeStep DEF Id
<1>4. CASE UNCHANGED vars
  BY <1>4 DEF vars, IInv, Counted, Final
<1> QED  BY <1>1, <1>2, <1>3, <1>4 DEF Next

LEMMA Invariance == Spec => []IInv
<1>1. IInv /\ [Next]_vars => IInv'
  BY NextStep
<1> QED  BY InitInv, <1>1, PTL DEF Spec

(***************************************************************************)
(* The state keeps its type, and a row's data is of its kind.              *)
(***************************************************************************)
THEOREM ServerTypeCorrect == Spec => []TypeOK
<1>1. IInv => TypeOK
  BY DEF IInv, Good, Typed, Counted, TypeOK
<1> QED  BY Invariance, <1>1, PTL

(***************************************************************************)
(* A live transaction never refers to a category that is not live.         *)
(***************************************************************************)
THEOREM ReferencesStayLive == Spec => []RefsLive
<1>1. IInv => RefsLive
  BY DEF IInv, Good, RefsIn, RefsLive
<1> QED  BY Invariance, <1>1, PTL

(***************************************************************************)
(* Two live categories never have one name.                                *)
(***************************************************************************)
THEOREM NamesStayUnique == Spec => []NamesUnique
<1>1. IInv => NamesUnique
  BY DEF IInv, Good, NamesIn, NamesUnique
<1> QED  BY Invariance, <1>1, PTL

(***************************************************************************)
(* The log's last word on a record is what the record is.                  *)
(***************************************************************************)
THEOREM LogTellsTheState == Spec => []LogAgrees
<1>1. ASSUME IInv, NEW i \in Id
      PROVE  \/ EntriesOf(i) = {} /\ srv.rec[i] = Absent
             \/ \E e \in EntriesOf(i) :
                  /\ \A f \in EntriesOf(i) : f.seq <= e.seq
                  /\ IF Found(srv, i)
                     THEN /\ e.ver = srv.rec[i].ver
                          /\ e.action = "tombstone" <=> srv.rec[i].deleted
                     ELSE e.action = "tombstone"
  <2>1. CASE Unheard(srv, i)
    BY <2>1 DEF Unheard, EntriesOf
  <2>2. CASE \E e \in srv.log : LastWord(srv, i, e)
    BY <2>2 DEF LastWord, EntriesOf
  <2> QED  BY <1>1, <2>1, <2>2 DEF IInv, Good, Heard
<1>2. IInv => LogAgrees
  BY <1>1 DEF LogAgrees
<1> QED  BY Invariance, <1>2, PTL

(***************************************************************************)
(* However often an operation is delivered, it changes the household once. *)
(***************************************************************************)
THEOREM EveryOpAppliesOnce == Spec => []OpAppliesOnce
<1>1. IInv => OpAppliesOnce
  BY DEF IInv, Counted, OpAppliesOnce
<1> QED  BY Invariance, <1>1, PTL

(***************************************************************************)
(* No operation revives a tombstone.                                       *)
(***************************************************************************)
THEOREM TombstonesAreFinal == Spec => TombstoneFinal
<1>1. ASSUME IInv, [Next]_vars
      PROVE  [\A i \in Id : Found(srv, i) /\ srv.rec[i].deleted =>
                srv'.rec[i] = srv.rec[i] \/ srv'.rec[i] = Absent]_vars
  BY <1>1, NextStep DEF Final
<1> QED  BY Invariance, <1>1, PTL DEF Spec, TombstoneFinal

-----------------------------------------------------------------------------
(* The log implements ChangeFeed.                                          *)

LEMMA SuccessorOfLive ==
  ASSUME NEW s, Good(s), NEW i \in Id, Live(s, i), NEW e,
         e.id = i, e.ver = s.rec[i].ver + 1
  PROVE  Feed!LegalSuccessor(s.log, e)
<1>1. PICK f \in s.log : LastWord(s, i, f)
  <2>1. ~ Unheard(s, i)
    BY DEF Unheard, Live, Found, Absent
  <2> QED  BY <2>1 DEF Good, Heard
<1>2. f.id = i /\ f.ver = s.rec[i].ver /\ f.action # "tombstone"
  BY <1>1 DEF LastWord, Live
<1>3. f.action = "upsert"
  BY <1>1, <1>2 DEF Good, Typed, ServerState, Entry
<1>4. Feed!IsLast(s.log, f)
  BY <1>1 DEF LastWord, Feed!IsLast
<1> QED  BY <1>1, <1>2, <1>3, <1>4 DEF Feed!LegalSuccessor

LEMMA SuccessorOfNone ==
  ASSUME NEW s, Good(s), NEW i \in Id, ~ Found(s, i), NEW e,
         e.id = i, e.ver = 1, e.action = "upsert"
  PROVE  Feed!LegalSuccessor(s.log, e)
<1> SUFFICES ASSUME NEW f \in s.log, f.id = i, Feed!IsLast(s.log, f)
             PROVE  f.action = "tombstone"
  BY DEF Feed!LegalSuccessor
<1>1. PICK g \in s.log : LastWord(s, i, g)
  BY DEF Unheard, Good, Heard
<1>2. f.seq <= g.seq /\ g.seq <= f.seq
  BY <1>1 DEF LastWord, Feed!IsLast
<1>3. f.seq \in Nat /\ g.seq \in Nat
  BY <1>1 DEF Good, Typed, ServerState, Entry
<1>4. f = g
  BY <1>1, <1>2, <1>3 DEF Good, Numbered
<1> QED  BY <1>1, <1>4 DEF LastWord

\* What ChangeFeed asks of a step from log S to log T.
Publishes(S, T) ==
  /\ S \subseteq T
  /\ \A e, f \in T \ S : e.id = f.id \/ e.seq = f.seq => e = f
  /\ \A e \in T \ S : Feed!Follows(S, e) /\ Feed!LegalSuccessor(S, e)

LEMMA OneRowPublishes ==
  ASSUME NEW s, Good(s), NEW e, e.seq = s.seq + 1,
         Feed!LegalSuccessor(s.log, e)
  PROVE  Publishes(s.log, s.log \cup {e})
<1>1. Feed!Follows(s.log, e)
  BY DEF Good, Numbered, Typed, ServerState, Entry, Feed!Follows
<1> QED  BY <1>1 DEF Publishes

LEMMA CascadePublishes ==
  ASSUME NEW s, Good(s), NEW c \in Category, NEW order \in Orders, NEW m,
         CascadeTo(s, c, order, m)
  PROVE  Publishes(s.log, m.log)
<1>1. Typed(s) /\ Live(s, c) /\ s.seq \in Nat
  BY DEF Good, CascadeTo, Typed, ServerState
<1> DEFINE D == Dependants(s, c)
           e == [seq |-> s.seq + 1, id |-> c, ver |-> s.rec[c].ver + 1,
                 action |-> "tombstone"]
           g(t) == [seq |-> s.seq + 1 + order[t], id |-> t,
                    action |-> "tombstone", ver |-> s.rec[t].ver + 1]
<1>2. m.log = s.log \cup {e} \cup {g(t) : t \in D}
  <2>1. /\ m.rec = [i \in Id |-> IF i = c \/ i \in D THEN Tombstoned(s, i)
                                                 ELSE s.rec[i]]
        /\ m.log = s.log \cup {e} \cup {g(t) : t \in D}
        /\ m.seq = s.seq + 1 + Cardinality(Transaction)
        /\ m.applied = s.applied
    BY <1>1, CascadeFields
  <2> QED  BY <2>1
<1>3. /\ c \in Id /\ c \notin Transaction /\ D \subseteq Transaction
      /\ Transaction \subseteq Id /\ \A t \in D : Live(s, t)
  BY KindsDisjoint DEF Dependants, Id
<1>4. /\ e.seq = s.seq + 1 /\ e.id = c /\ e.ver = s.rec[c].ver + 1
      /\ \A t \in D : /\ g(t).seq = s.seq + 1 + order[t] /\ g(t).id = t
                      /\ g(t).ver = s.rec[t].ver + 1
  OBVIOUS
<1> HIDE DEF e, g, D
<1>5. \A f \in s.log : f.seq \in Nat /\ f.seq <= s.seq
  BY DEF Good, Typed, ServerState, Entry, Numbered
<1>6. /\ Feed!Follows(s.log, e) /\ Feed!LegalSuccessor(s.log, e)
  BY <1>1, <1>3, <1>4, <1>5, SuccessorOfLive DEF Feed!Follows
<1>7. ASSUME NEW t \in D
      PROVE  Feed!Follows(s.log, g(t)) /\ Feed!LegalSuccessor(s.log, g(t))
  BY <1>1, <1>3, <1>4, <1>5, <1>7, OrderFields, SuccessorOfLive DEF Feed!Follows
<1>8. \A t, u \in Transaction : order[t] = order[u] => t = u
  BY DEF Orders
<1>9. ASSUME NEW f \in m.log \ s.log, NEW h \in m.log \ s.log,
             f.id = h.id \/ f.seq = h.seq
      PROVE  f = h
  <2>1. CASE f = e
    BY <1>1, <1>2, <1>3, <1>4, <1>9, <2>1, OrderFields
  <2>2. CASE \E t \in D : f = g(t)
    BY <1>1, <1>2, <1>3, <1>4, <1>8, <1>9, <2>2, OrderFields
  <2> QED  BY <1>2, <2>1, <2>2
<1> QED  BY <1>2, <1>6, <1>7, <1>9 DEF Publishes

LEMMA ChangePublishes ==
  ASSUME NEW s, Good(s), NEW i \in Id, NEW order \in Orders, NEW m,
         ChangeTo(s, i, order, m)
  PROVE  Publishes(s.log, m.log)
<1>1. CASE m = s
  BY <1>1 DEF Publishes
<1>2. CASE \E r \in Row : UpsertTo(s, i, r, m)
  <2>1. PICK r \in Row : UpsertTo(s, i, r, m)
    BY <1>2
  <2> DEFINE e == [seq |-> s.seq + 1, id |-> i, ver |-> r.ver, action |-> "upsert"]
  <2>2. m.log = s.log \cup {e}
    BY <2>1 DEF UpsertTo, Logged
  <2>3. e.seq = s.seq + 1 /\ e.id = i /\ e.ver = r.ver /\ e.action = "upsert"
    OBVIOUS
  <2> HIDE DEF e
  <2>4. Feed!LegalSuccessor(s.log, e)
    BY <2>1, <2>3, SuccessorOfLive, SuccessorOfNone DEF UpsertTo
  <2> QED  BY <2>2, <2>3, <2>4, OneRowPublishes
<1>3. CASE TombstoneTo(s, i, m)
  <2> DEFINE e == [seq |-> s.seq + 1, id |-> i, ver |-> s.rec[i].ver + 1,
                   action |-> "tombstone"]
  <2>1. m.log = s.log \cup {e}
    BY <1>3, LoggedTombstone DEF TombstoneTo, Good
  <2>2. e.seq = s.seq + 1 /\ e.id = i /\ e.ver = s.rec[i].ver + 1
    OBVIOUS
  <2> HIDE DEF e
  <2>3. Feed!LegalSuccessor(s.log, e)
    BY <1>3, <2>2, SuccessorOfLive DEF TombstoneTo
  <2> QED  BY <2>1, <2>2, <2>3, OneRowPublishes
<1>4. CASE CascadeTo(s, i, order, m)
  BY <1>4, CascadePublishes DEF CascadeTo
<1> QED  BY <1>1, <1>2, <1>3, <1>4 DEF ChangeTo

LEMMA NextPublishes ==
  ASSUME IInv, [Next]_vars
  PROVE  Publishes(srv.log, srv'.log)
<1>1. CASE srv'.log = srv.log
  BY <1>1 DEF Publishes
<1>2. CASE \E op \in Operation : Push(op)
  <2>1. PICK op \in Operation : Push(op)
    BY <1>2
  <2>2. PICK order \in Orders : srv' = Apply(srv, op, order).srv
    BY <2>1 DEF Push
  <2>3. op.id \in Id
    BY UpsertOpFields DEF Operation, DeleteOp
  <2>4. CASE \E m : \E v \in Nat : /\ ChangeTo(srv, op.id, order, m)
                                  /\ srv' = Recorded(m, op.opId, v)
    <3>1. PICK m : \E v \in Nat : /\ ChangeTo(srv, op.id, order, m)
                                 /\ srv' = Recorded(m, op.opId, v)
      BY <2>4
    <3>2. Publishes(srv.log, m.log)
      BY <2>3, <3>1, ChangePublishes DEF IInv
    <3>3. srv'.log = m.log
      BY <3>1 DEF Recorded
    <3> QED  BY <3>2, <3>3
  <2> QED  BY <1>1, <2>2, <2>4, ApplyCases DEF IInv, Good
<1>3. CASE Purge(Transaction) \/ Purge(Category)
  BY <1>1, <1>3 DEF Purge, Purged
<1> QED  BY <1>1, <1>2, <1>3 DEF Next, vars

(***************************************************************************)
(* The change log of the server is a change feed.                          *)
(***************************************************************************)
THEOREM LogImplementsFeed == Spec => FeedSpec
<1>1. Init => Feed!Init
  BY DEF Init, EmptyServer, Feed!Init
<1>2. ASSUME IInv, [Next]_vars
      PROVE  [Feed!Publish]_(srv.log)
  <2>1. Publishes(srv.log, srv'.log)
    BY <1>2, NextPublishes
  <2> QED  BY <2>1 DEF Publishes, Feed!Publish
<1> QED  BY Invariance, <1>1, <1>2, PTL DEF Spec, FeedSpec, Feed!Spec

-----------------------------------------------------------------------------
(* Household.                                                              *)

\* An unfinished request is that of a registered user, about a household
\* and an invitation of which there once was a row.
RequestOK(q) ==
  /\ q.phase \in {"authed", "join", "leave"} => q.user \in registered
  /\ q.phase \in {"authed", "join", "dissolve", "invite"} => q.hh \in Household
  /\ q.phase = "invite" => q.other \in User
  /\ q.list \subseteq registered

\* An invitation has let one user in if it is accepted, and none otherwise.
AdmissionOK(i) == admitted[i] = IF inv[i].accepted THEN 1 ELSE 0

HouseholdInv ==
  /\ HouseholdTypeOK
  /\ \A s \in Session : RequestOK(req[s])
  /\ OneOwner
  /\ \A i \in Invitation : AdmissionOK(i)

-----------------------------------------------------------------------------
(* What createPersonalHouseholdTx does.                                    *)

LEMMA RehomedFacts ==
  ASSUME NEW M \in [User -> Membership], NEW L, NEW U \in SUBSET User,
         used \subseteq Household, Rehomed(M, L, U)
  PROVE  /\ member' \in [User -> Membership]
         /\ \A u \in U : /\ member'[u].role = "owner"
                         /\ member'[u].hh \in Household \ used
                         /\ member'[u].hh \in live'
                         /\ M[u] = Homeless
         /\ \A u \in User \ U : member'[u] = M[u]
         /\ \A u, v \in U : member'[u].hh = member'[v].hh => u = v
         /\ L \subseteq live' /\ used \subseteq used' /\ used' \subseteq Household
         /\ L \subseteq used => live' \subseteq used'
<1>1. PICK home \in Injection(U, Household \ used) :
        /\ member' = [u \in User |-> IF u \in U THEN [hh |-> home[u], role |-> "owner"]
                                                ELSE M[u]]
        /\ live' = L \cup {home[u] : u \in U}
        /\ used' = used \cup {home[u] : u \in U}
  BY DEF Rehomed
<1>2. /\ home \in [U -> Household \ used]
      /\ \A u, v \in U : home[u] = home[v] => u = v
  BY <1>1 DEF Injection, IsInjective
<1>3. \A u \in U : M[u] = Homeless
  BY DEF Rehomed
<1>4. \A u \in U : [hh |-> home[u], role |-> "owner"] \in Membership
  BY <1>2 DEF Membership
<1>5. member' \in [User -> Membership]
  BY <1>1, <1>4
<1>6. \A u \in U : member'[u] = [hh |-> home[u], role |-> "owner"]
  BY <1>1
<1>7. \A u \in User \ U : member'[u] = M[u]
  BY <1>1
<1>8. used' \subseteq Household
  BY <1>1, <1>2
<1> QED  BY <1>1, <1>2, <1>3, <1>5, <1>6, <1>7, <1>8

-----------------------------------------------------------------------------
(* The invariant: reads, moves between households, and the rest.           *)

LEMMA FreeRequest == Free \in Request /\ RequestOK(Free)
BY DEF Free, Request, RequestOK

LEMMA InitInvariant == HouseholdInit => HouseholdInv
<1> SUFFICES ASSUME HouseholdInit  PROVE HouseholdInv
  OBVIOUS
<1>1. Homeless \in Membership /\ Unsent \in InvitationRow
  BY DEF Homeless, Membership, Unsent, InvitationRow
<1>2. HouseholdTypeOK
  BY <1>1, FreeRequest DEF HouseholdInit, HouseholdTypeOK, Unsent
<1>3. \A s \in Session : RequestOK(req[s])
  BY FreeRequest DEF HouseholdInit
<1>4. OneOwner
  BY DEF HouseholdInit, OneOwner, Homeless
<1>5. \A i \in Invitation : AdmissionOK(i)
  BY DEF HouseholdInit, AdmissionOK, Unsent
<1> QED  BY <1>2, <1>3, <1>4, <1>5 DEF HouseholdInv

\* A request that reads, or ends.
LEMMA GoesKeepsInvariant ==
  ASSUME HouseholdInv, NEW s \in Session, NEW q \in Request, RequestOK(q), Goes(s, q)
  PROVE  HouseholdInv'
<1>1. UNCHANGED rows /\ req' = [req EXCEPT ![s] = q]
  BY DEF Goes
<1>2. req' \in [Session -> Request]
  BY <1>1 DEF HouseholdInv, HouseholdTypeOK
<1>3. HouseholdTypeOK'
  BY <1>1, <1>2 DEF HouseholdInv, HouseholdTypeOK, rows
<1>4. (\A t \in Session : RequestOK(req[t]))'
  BY <1>1 DEF HouseholdInv, RequestOK, rows, HouseholdTypeOK
<1>5. OneOwner' /\ (\A i \in Invitation : AdmissionOK(i))'
  BY <1>1 DEF HouseholdInv, OneOwner, AdmissionOK, rows
<1> QED  BY <1>3, <1>4, <1>5 DEF HouseholdInv

\* Whatever happens to the rows, the requests stay in order: one of them may
\* end, and accounts may be added.
LEMMA RequestsStay ==
  ASSUME HouseholdInv, UNCHANGED req \/ \E s \in Session : Done(s),
         registered \subseteq registered'
  PROVE  req' \in [Session -> Request] /\ (\A t \in Session : RequestOK(req[t]))'
<1>1. req' \in [Session -> Request]
  BY FreeRequest DEF HouseholdInv, HouseholdTypeOK, Done
<1>2. \A t \in Session : req'[t] = req[t] \/ req'[t] = Free
  BY DEF HouseholdInv, HouseholdTypeOK, Done
<1>3. \A t \in Session : RequestOK(req'[t])
  BY <1>2, FreeRequest DEF HouseholdInv
<1> QED  BY <1>1, <1>3 DEF RequestOK

\* Of the users U, each gets a household that is new; the others keep theirs,
\* among the households L.
LEMMA RehomedKeeps ==
  ASSUME HouseholdInv, NEW L \in SUBSET live, NEW U \in SUBSET registered',
         NEW M \in [User -> Membership],
         Rehomed(M, L, U),
         \A u \in User : M[u] = Homeless \/ (M[u] = member[u] /\ M[u].hh \in L),
         registered \subseteq registered', registered' \subseteq User
  PROVE  /\ live' \subseteq used' /\ used' \subseteq Household /\ L \subseteq live'
         /\ member' \in [User -> Membership]
         /\ \A u \in User :
              \/ member'[u] = Homeless
              \/ /\ u \in registered'
                 /\ member'[u].hh \in live'
                 /\ member'[u].role \in {"owner", "member"}
         /\ OneOwner'
<1>1. U \in SUBSET User /\ used \subseteq Household /\ L \subseteq used
  BY DEF HouseholdInv, HouseholdTypeOK
<1>2. /\ member' \in [User -> Membership]
      /\ \A u \in U : /\ member'[u].role = "owner"
                      /\ member'[u].hh \in Household \ used
                      /\ member'[u].hh \in live'
      /\ \A u \in User \ U : member'[u] = M[u]
      /\ \A u, v \in U : member'[u].hh = member'[v].hh => u = v
      /\ L \subseteq live' /\ used' \subseteq Household /\ live' \subseteq used'
  BY <1>1, RehomedFacts
<1>3. \A u \in User \ U : member'[u] = Homeless
                          \/ (member'[u] = member[u] /\ member[u].hh \in L)
  BY <1>2
<1>4. ASSUME NEW u \in User
      PROVE  \/ member'[u] = Homeless
  \/ /\ u \in registered'
     /\ member'[u].hh \in live'
     /\ member'[u].role \in {"owner", "member"}
  <2>1. CASE u \in U
    BY <2>1, <1>2
  <2>2. CASE u \notin U
    <3>1. \/ member[u] = Homeless
          \/ u \in registered /\ member[u].role \in {"owner", "member"}
      BY DEF HouseholdInv, HouseholdTypeOK
    <3> QED  BY <2>2, <3>1, <1>2, <1>3
  <2> QED  BY <2>1, <2>2
<1>5. ASSUME NEW u \in User, NEW v \in User,
             member'[u].role = "owner", member'[v].role = "owner",
             member'[u].hh = member'[v].hh
      PROVE  u = v
  <2>1. \A w \in User \ U :
          member'[w].role = "owner" => member'[w] = member[w] /\ member[w].hh \in used
    BY <1>1, <1>3 DEF Homeless
  <2>2. CASE u \in U /\ v \in U
    BY <2>2, <1>2, <1>5
  <2>3. CASE u \notin U /\ v \notin U
    BY <2>1, <2>3, <1>5 DEF HouseholdInv, OneOwner
  <2>4. CASE u \in U <=> v \notin U
    BY <2>1, <2>4, <1>2, <1>5
  <2> QED  BY <2>2, <2>3, <2>4
<1>6. OneOwner'
  BY <1>5 DEF OneOwner
<1> QED  BY <1>2, <1>4, <1>6

\* Register, LeaveHousehold and RemoveMember: one user, u, moves.
LEMMA MoveKeepsInvariant ==
  ASSUME HouseholdInv, UNCHANGED req \/ \E s \in Session : Done(s),
         NEW u \in registered', registered \subseteq registered', registered' \subseteq User,
         Rehomed([member EXCEPT ![u] = Homeless], live, {u}),
         UNCHANGED <<inv, code, admitted>>
  PROVE  HouseholdInv'
<1> DEFINE M == [member EXCEPT ![u] = Homeless]
<1>1. M \in [User -> Membership]
  BY DEF HouseholdInv, HouseholdTypeOK, Membership, Homeless
<1>2. \A w \in User : M[w] = Homeless \/ (M[w] = member[w] /\ M[w].hh \in live)
  BY DEF HouseholdInv, HouseholdTypeOK
<1>3. /\ live' \subseteq used' /\ used' \subseteq Household /\ live \subseteq live'
      /\ member' \in [User -> Membership]
      /\ \A w \in User :
           \/ member'[w] = Homeless
           \/ /\ w \in registered'
              /\ member'[w].hh \in live'
              /\ member'[w].role \in {"owner", "member"}
      /\ OneOwner'
  <2> HIDE DEF M
  <2>1. Rehomed(M, live, {u})
    BY DEF M
  <2> QED  BY <1>1, <1>2, <2>1, RehomedKeeps
<1>4. req' \in [Session -> Request] /\ (\A t \in Session : RequestOK(req[t]))'
  BY RequestsStay
<1>5. HouseholdTypeOK'
  BY <1>3, <1>4 DEF HouseholdInv, HouseholdTypeOK
<1>6. (\A i \in Invitation : AdmissionOK(i))'
  BY DEF HouseholdInv, AdmissionOK
<1> QED  BY <1>3, <1>4, <1>5, <1>6 DEF HouseholdInv

\* Revocations, new and refreshed invitations, and their age: rows of
\* household_invitations change, and nothing that tells who was let in.
LEMMA InvitationsKeepInvariant ==
  ASSUME HouseholdInv, UNCHANGED req \/ \E s \in Session : Done(s),
         NEW i \in Invitation, NEW r \in InvitationRow,
         r.hh \in live, r.accepted = inv[i].accepted,
         inv' = [inv EXCEPT ![i] = r],
         UNCHANGED <<registered, live, used, member, code, admitted>>
  PROVE  HouseholdInv'
<1>1. req' \in [Session -> Request] /\ (\A t \in Session : RequestOK(req[t]))'
  BY RequestsStay
<1>2. inv \in [Invitation -> InvitationRow] /\ inv' \in [Invitation -> InvitationRow]
  BY DEF HouseholdInv, HouseholdTypeOK
<1>3. \A j \in Invitation : inv'[j].hh \in live \cup {NoHousehold}
  BY <1>2 DEF HouseholdInv, HouseholdTypeOK
<1>4. HouseholdTypeOK'
  BY <1>1, <1>2, <1>3 DEF HouseholdInv, HouseholdTypeOK
<1>5. \A j \in Invitation : inv'[j].accepted = inv[j].accepted
  BY <1>2
<1>6. (\A j \in Invitation : AdmissionOK(j))'
  BY <1>5 DEF HouseholdInv, AdmissionOK
<1>7. OneOwner'
  BY DEF HouseholdInv, OneOwner
<1> QED  BY <1>1, <1>4, <1>6, <1>7 DEF HouseholdInv

LEMMA JoinKeepsInvariant ==
  ASSUME HouseholdInv, NEW s \in Session, JoinHousehold(s)
  PROVE  HouseholdInv'
<1> DEFINE u == req[s].user
           i == req[s].inv
           h == req[s].hh
<1>1. u \in registered /\ u \in User /\ h \in Household /\ i \in Invitation \cup {NoInvitation}
  BY DEF HouseholdInv, HouseholdTypeOK, RequestOK, JoinHousehold, Is, Request
<1>2. req' \in [Session -> Request] /\ (\A t \in Session : RequestOK(req[t]))'
  BY RequestsStay DEF JoinHousehold
<1>3. CASE UNCHANGED <<member, inv, admitted>>
  <2>1. HouseholdTypeOK'
    BY <1>2, <1>3 DEF HouseholdInv, HouseholdTypeOK, JoinHousehold
  <2>2. OneOwner' /\ (\A j \in Invitation : AdmissionOK(j))'
    BY <1>3 DEF HouseholdInv, OneOwner, AdmissionOK
  <2> QED  BY <1>2, <2>1, <2>2 DEF HouseholdInv
<1>4. CASE /\ i # NoInvitation => Claimable(i)
           /\ h \in live
           /\ member' = [member EXCEPT ![u] = [hh |-> h, role |-> "member"]]
           /\ inv' = [j \in Invitation |->
                        IF j = i THEN [inv[j] EXCEPT !.accepted = TRUE] ELSE inv[j]]
           /\ admitted' = [j \in Invitation |->
                             IF j = i THEN admitted[j] + 1 ELSE admitted[j]]
  <2>1. [hh |-> h, role |-> "member"] \in Membership
    BY <1>1 DEF Membership
  <2>2. member' \in [User -> Membership]
    BY <1>4, <2>1 DEF HouseholdInv, HouseholdTypeOK
  <2>3. \A w \in User : IF w = u THEN member'[w] = [hh |-> h, role |-> "member"]
                                 ELSE member'[w] = member[w]
    BY <1>4 DEF HouseholdInv, HouseholdTypeOK
  <2>4. \A j \in Invitation : inv'[j] \in InvitationRow /\ inv'[j].hh = inv[j].hh
    BY <1>4 DEF HouseholdInv, HouseholdTypeOK, InvitationRow
  <2>5. admitted' \in [Invitation -> Nat]
    BY <1>4 DEF HouseholdInv, HouseholdTypeOK
  <2>6. HouseholdTypeOK'
    <3>1. UNCHANGED <<registered, live, used, code>>
      BY DEF JoinHousehold
    <3>2. \A w \in User : \/ member'[w] = Homeless
                          \/ /\ w \in registered
                             /\ member'[w].hh \in live
                             /\ member'[w].role \in {"owner", "member"}
      BY <1>1, <1>4, <2>3 DEF HouseholdInv, HouseholdTypeOK
    <3>3. inv' \in [Invitation -> InvitationRow]
      BY <1>4, <2>4
    <3> QED  BY <1>2, <2>2, <2>4, <2>5, <3>1, <3>2, <3>3 DEF HouseholdInv, HouseholdTypeOK
  <2>7. OneOwner'
    BY <2>3 DEF HouseholdInv, OneOwner
  <2>8. ASSUME NEW j \in Invitation  PROVE AdmissionOK(j)'
    <3>1. CASE j = i
      <4>1. ~ inv[j].accepted /\ inv'[j].accepted /\ admitted[j] = 0
        BY <1>4, <3>1, NoInvitationAssumption
           DEF HouseholdInv, HouseholdTypeOK, InvitationRow, AdmissionOK, Claimable, Pending
      <4>2. admitted'[j] = 1
        BY <1>4, <3>1, <4>1
      <4> QED  BY <4>1, <4>2 DEF AdmissionOK
    <3>2. CASE j # i
      BY <1>4, <3>2 DEF HouseholdInv, AdmissionOK
    <3> QED  BY <3>1, <3>2
  <2> QED  BY <1>2, <2>6, <2>7, <2>8 DEF HouseholdInv
<1> QED  BY <1>3, <1>4 DEF JoinHousehold

LEMMA SweepKeepsInvariant ==
  ASSUME HouseholdInv, NEW s \in Session, Sweep(s)
  PROVE  HouseholdInv'
<1> DEFINE h == req[s].hh
           Gone == [u \in User |-> IF member[u].hh = h THEN Homeless ELSE member[u]]
<1>1. h \in Household /\ req[s].list \subseteq registered
  BY DEF HouseholdInv, RequestOK, Sweep, Is
<1>2. req' \in [Session -> Request] /\ (\A t \in Session : RequestOK(req[t]))'
  BY RequestsStay DEF Sweep
<1>3. /\ Gone \in [User -> Membership]
      /\ \A u \in User : Gone[u] = Homeless
                         \/ (Gone[u] = member[u] /\ Gone[u].hh \in live \ {h})
  <2>1. Homeless \in Membership
    BY DEF Membership, Homeless
  <2> QED  BY <2>1 DEF HouseholdInv, HouseholdTypeOK
<1>4. Rehomed(Gone, live \ {h}, req[s].list)
      /\ UNCHANGED <<registered, admitted>>
  BY DEF Sweep
<1>5. /\ live' \subseteq used' /\ used' \subseteq Household /\ live \ {h} \subseteq live'
      /\ member' \in [User -> Membership]
      /\ \A u \in User :
           \/ member'[u] = Homeless
           \/ /\ u \in registered'
              /\ member'[u].hh \in live'
              /\ member'[u].role \in {"owner", "member"}
      /\ OneOwner'
  <2> HIDE DEF Gone, h
  <2>1. live \ {h} \in SUBSET live /\ req[s].list \in SUBSET registered'
    BY <1>1, <1>4
  <2>2. registered \subseteq registered' /\ registered' \subseteq User
    BY <1>4 DEF HouseholdInv, HouseholdTypeOK
  <2> QED  BY <1>3, <1>4, <2>1, <2>2, RehomedKeeps
<1>6. /\ inv' \in [Invitation -> InvitationRow]
      /\ \A i \in Invitation : inv'[i].hh \in live' \cup {NoHousehold}
      /\ \A i \in Invitation : inv'[i].accepted = inv[i].accepted
  <2>1. inv' = [i \in Invitation |-> IF inv[i].hh = h
                                     THEN [inv[i] EXCEPT !.hh = NoHousehold] ELSE inv[i]]
    BY DEF Sweep
  <2>2. \A i \in Invitation : /\ inv'[i] \in InvitationRow
                              /\ inv'[i].accepted = inv[i].accepted
    BY <2>1 DEF HouseholdInv, HouseholdTypeOK, InvitationRow
  <2>3. \A i \in Invitation : inv'[i].hh \in (live \ {h}) \cup {NoHousehold}
    BY <2>1 DEF HouseholdInv, HouseholdTypeOK, InvitationRow
  <2> QED  BY <1>5, <2>1, <2>2, <2>3
<1>7. code' \in [Household -> BOOLEAN] /\ \A g \in Household : code'[g] => g \in live'
  BY <1>1, <1>5 DEF Sweep, HouseholdInv, HouseholdTypeOK
<1>8. HouseholdTypeOK'
  BY <1>2, <1>4, <1>5, <1>6, <1>7 DEF HouseholdInv, HouseholdTypeOK
<1>9. (\A i \in Invitation : AdmissionOK(i))'
  BY <1>4, <1>6 DEF HouseholdInv, AdmissionOK
<1> QED  BY <1>2, <1>5, <1>8, <1>9 DEF HouseholdInv

LEMMA StepKeepsInvariant == HouseholdInv /\ [HouseholdNext]_householdVars => HouseholdInv'
<1> SUFFICES ASSUME HouseholdInv, [HouseholdNext]_householdVars  PROVE HouseholdInv'
  OBVIOUS
<1>1. ASSUME NEW u \in User, Register(u)  PROVE HouseholdInv'
  <2>1. /\ registered' = registered \cup {u}
        /\ Rehomed(member, live, {u})
        /\ UNCHANGED <<inv, code, req, admitted>>
    BY <1>1 DEF Register
  <2>2. member[u] = Homeless
    BY <1>1 DEF Register, HouseholdInv, HouseholdTypeOK
  <2>3. [member EXCEPT ![u] = Homeless] = member
    BY <2>2 DEF HouseholdInv, HouseholdTypeOK
  <2> QED  BY <2>1, <2>3, MoveKeepsInvariant DEF HouseholdInv, HouseholdTypeOK
<1>2. ASSUME NEW i \in Invitation, Age(i)  PROVE HouseholdInv'
  <2> DEFINE r == [inv[i] EXCEPT !.age = IF inv[i].age = "today" THEN "valid" ELSE "expired"]
  <2>1. r \in InvitationRow /\ r.hh \in live /\ r.accepted = inv[i].accepted
    BY <1>2 DEF Age, HouseholdInv, HouseholdTypeOK, InvitationRow
  <2>2. /\ inv' = [inv EXCEPT ![i] = r]
        /\ UNCHANGED <<registered, live, used, member, code, req, admitted>>
    BY <1>2 DEF Age
  <2> HIDE DEF r
  <2> QED  BY <2>1, <2>2, InvitationsKeepInvariant
<1>3. ASSUME NEW s \in Session, NEW u \in User, AuthRequired(s, u)  PROVE HouseholdInv'
  <2> DEFINE q == [Free EXCEPT !.phase = "authed", !.user = u,
                               !.hh = member[u].hh, !.role = member[u].role]
  <2>1. u \in registered /\ member[u].hh \in Household /\ member[u] \in Membership
    BY <1>3 DEF AuthRequired, HouseholdInv, HouseholdTypeOK
  <2>2. q \in Request /\ RequestOK(q)
    BY <2>1 DEF Free, Request, RequestOK, Membership
  <2> QED  BY <1>3, <2>2, GoesKeepsInvariant DEF AuthRequired
<1>4. ASSUME NEW s \in Session, NEW u \in User, RemoveMember(s, u)  PROVE HouseholdInv'
  <2>1. u \in registered
    BY <1>4 DEF RemoveMember, Homeless, HouseholdInv, HouseholdTypeOK
  <2>2. /\ Rehomed([member EXCEPT ![u] = Homeless], live, {u})
        /\ Done(s) /\ UNCHANGED <<registered, inv, code, admitted>>
    BY <1>4 DEF RemoveMember
  <2> QED  BY <2>1, <2>2, MoveKeepsInvariant DEF HouseholdInv, HouseholdTypeOK
<1>5. ASSUME NEW s \in Session, NEW u \in User, CheckInvite(s, u)  PROVE HouseholdInv'
  <2> DEFINE q == [Free EXCEPT !.phase = "invite", !.hh = req[s].hh, !.other = u]
  <2>1. q \in Request /\ RequestOK(q)
    BY <1>5 DEF CheckInvite, HouseholdInv, HouseholdTypeOK, Free, Request, RequestOK
  <2> QED  BY <1>5, <2>1, GoesKeepsInvariant DEF CheckInvite
<1>6. ASSUME NEW s \in Session, NEW h \in Household,
             NEW i \in Invitation \cup {NoInvitation},
             Is(s, "authed"), Joining(s, h, i)
      PROVE  HouseholdInv'
  <2> DEFINE q == [Free EXCEPT !.phase = "join", !.user = req[s].user, !.hh = h, !.inv = i]
  <2>1. req[s].user \in registered /\ registered \subseteq User
    BY <1>6 DEF Is, HouseholdInv, RequestOK, HouseholdTypeOK
  <2>2. q \in Request /\ RequestOK(q)
    BY <2>1 DEF Free, Request, RequestOK
  <2> QED  BY <1>6, <2>2, GoesKeepsInvariant DEF Joining
<1>7. ASSUME NEW s \in Session, NEW i \in Invitation, LoadInvitation(s, i)  PROVE HouseholdInv'
  <2>1. inv[i].hh \in Household
    BY <1>7 DEF LoadInvitation, Pending, HouseholdInv, HouseholdTypeOK
  <2> QED  BY <1>6, <1>7, <2>1 DEF LoadInvitation
<1>8. ASSUME NEW s \in Session, NEW i \in Invitation, RevokeInvitation(s, i)  PROVE HouseholdInv'
  <2> DEFINE r == [inv[i] EXCEPT !.revoked = TRUE]
  <2>1. req[s].hh \in Household
    BY <1>8 DEF RevokeInvitation, AsOwner, Is, HouseholdInv, RequestOK
  <2>2. inv[i] \in InvitationRow /\ inv[i].hh \in live
    BY <1>8, <2>1, NoHouseholdAssumption DEF RevokeInvitation, HouseholdInv, HouseholdTypeOK
  <2>3. r \in InvitationRow /\ r.hh \in live /\ r.accepted = inv[i].accepted
    BY <2>2 DEF InvitationRow
  <2>4. /\ inv' = [inv EXCEPT ![i] = r] /\ Done(s)
        /\ UNCHANGED <<registered, live, used, member, code, admitted>>
    BY <1>8 DEF RevokeInvitation
  <2> HIDE DEF r
  <2> QED  BY <2>3, <2>4, InvitationsKeepInvariant
<1>9. ASSUME NEW s \in Session, NEW h \in Household, FindByCode(s, h)  PROVE HouseholdInv'
  BY <1>6, <1>9 DEF FindByCode
<1>10. ASSUME NEW s \in Session, NEW active \in BOOLEAN, SetCode(s, active)  PROVE HouseholdInv'
  <2>1. req' \in [Session -> Request] /\ (\A t \in Session : RequestOK(req[t]))'
    BY <1>10, RequestsStay DEF SetCode
  <2>2. HouseholdTypeOK'
    BY <1>10, <2>1 DEF SetCode, HouseholdInv, HouseholdTypeOK
  <2>3. OneOwner' /\ (\A i \in Invitation : AdmissionOK(i))'
    BY <1>10 DEF SetCode, HouseholdInv, OneOwner, AdmissionOK
  <2> QED  BY <2>1, <2>2, <2>3 DEF HouseholdInv
<1>11. ASSUME NEW s \in Session, CheckLeave(s)  PROVE HouseholdInv'
  <2> DEFINE q == [Free EXCEPT !.phase = "leave", !.user = req[s].user]
  <2>1. req[s].user \in registered /\ registered \subseteq User
    BY <1>11 DEF CheckLeave, Is, HouseholdInv, RequestOK, HouseholdTypeOK
  <2>2. q \in Request /\ RequestOK(q)
    BY <2>1 DEF Free, Request, RequestOK
  <2> QED  BY <1>11, <2>2, GoesKeepsInvariant DEF CheckLeave
<1>12. ASSUME NEW s \in Session, LeaveHousehold(s)  PROVE HouseholdInv'
  <2> DEFINE u == req[s].user
  <2>1. u \in registered
    BY <1>12 DEF LeaveHousehold, Is, HouseholdInv, RequestOK
  <2>2. /\ Rehomed([member EXCEPT ![u] = Homeless], live, {u})
        /\ Done(s) /\ UNCHANGED <<registered, inv, code, admitted>>
    BY <1>12 DEF LeaveHousehold
  <2> HIDE DEF u
  <2> QED  BY <2>1, <2>2, MoveKeepsInvariant DEF HouseholdInv, HouseholdTypeOK
<1>13. ASSUME NEW s \in Session, ReadMembers(s)  PROVE HouseholdInv'
  <2> DEFINE q == [Free EXCEPT !.phase = "dissolve", !.hh = req[s].hh,
                               !.list = MembersOf(req[s].hh)]
  <2>1. req[s].hh \in Household
    BY <1>13 DEF ReadMembers, AsOwner, Is, HouseholdInv, RequestOK
  <2>2. MembersOf(req[s].hh) \subseteq registered
    BY <2>1, NoHouseholdAssumption DEF MembersOf, HouseholdInv, HouseholdTypeOK, Homeless
  <2>3. q \in Request /\ RequestOK(q)
    BY <2>1, <2>2 DEF Free, Request, RequestOK, HouseholdInv, HouseholdTypeOK
  <2> QED  BY <1>13, <2>3, GoesKeepsInvariant DEF ReadMembers
<1>14. ASSUME NEW s \in Session, Invite(s)  PROVE HouseholdInv'
  <2> DEFINE h == req[s].hh
             r == [Unsent EXCEPT !.hh = h, !.to = req[s].other]
  <2>1. h \in live /\ req[s].other \in User
    BY <1>14 DEF Invite, Is, HouseholdInv, RequestOK
  <2>2. PICK i \in Invitation : /\ Pending(i) \/ inv[i] = Unsent
                                /\ inv' = [inv EXCEPT ![i] = r]
    BY <1>14 DEF Invite
  <2>3. r \in InvitationRow /\ r.hh \in live /\ r.accepted = inv[i].accepted
    BY <2>1, <2>2 DEF Unsent, InvitationRow, Pending, HouseholdInv, HouseholdTypeOK
  <2>4. Done(s) /\ UNCHANGED <<registered, live, used, member, code, admitted>>
    BY <1>14 DEF Invite
  <2> HIDE DEF r, h
  <2> QED  BY <2>2, <2>3, <2>4, InvitationsKeepInvariant
<1>15. ASSUME NEW s \in Session, Ends(s)  PROVE HouseholdInv'
  BY <1>15, FreeRequest, GoesKeepsInvariant DEF Ends
<1>16. CASE UNCHANGED householdVars
  BY <1>16 DEF householdVars, HouseholdInv, HouseholdTypeOK, RequestOK, OneOwner, AdmissionOK
<1> QED
  BY <1>1, <1>2, <1>3, <1>4, <1>5, <1>7, <1>8, <1>9, <1>10, <1>11, <1>12, <1>13,
     <1>14, <1>15, <1>16, JoinKeepsInvariant, SweepKeepsInvariant DEF HouseholdNext

LEMMA InvariantHolds == HouseholdSpec => []HouseholdInv
BY InitInvariant, StepKeepsInvariant, PTL DEF HouseholdSpec

-----------------------------------------------------------------------------
(* Results.                                                                *)

\* The rows are well typed and meet their foreign keys: every membership,
\* invitation and active code is of a household that exists.
THEOREM MembershipTypeCorrect == HouseholdSpec => []HouseholdTypeOK
<1>1. HouseholdInv => HouseholdTypeOK
  BY DEF HouseholdInv
<1> QED  BY <1>1, InvariantHolds, PTL

\* However many requests race, and although services check before the
\* transaction that acts, a household never has two owners.
THEOREM AtMostOneOwner == HouseholdSpec => []OneOwner
<1>1. HouseholdInv => OneOwner
  BY DEF HouseholdInv
<1> QED  BY <1>1, InvariantHolds, PTL

\* An invitation lets one join in, however often it was loaded or accepted.
THEOREM InvitationIsSingleUse == HouseholdSpec => []AdmitsOnce
<1>1. HouseholdInv => AdmitsOnce
  BY DEF HouseholdInv, AdmitsOnce, AdmissionOK
<1> QED  BY <1>1, InvariantHolds, PTL

\* Only a join admits, and it claims the invitation in its own transaction:
\* what is revoked, before it was loaded or after, admits nobody.
THEOREM RevocationIsFinal == HouseholdSpec => RevokedStaysOut
<1>1. ASSUME HouseholdInv, [HouseholdNext]_householdVars, NEW i \in Invitation, inv[i].revoked
      PROVE  admitted'[i] = admitted[i]
  <2>1. CASE \E s \in Session : JoinHousehold(s)
    <3>1. PICK s \in Session : JoinHousehold(s)
      BY <2>1
    <3>2. i # NoInvitation /\ ~ Claimable(i)
      BY <1>1, NoInvitationAssumption DEF Claimable, Pending
    <3>3. \/ UNCHANGED admitted
          \/ /\ req[s].inv # NoInvitation => Claimable(req[s].inv)
             /\ admitted' = [j \in Invitation |->
                   IF j = req[s].inv THEN admitted[j] + 1 ELSE admitted[j]]
      BY <3>1 DEF JoinHousehold
    <3> QED  BY <3>2, <3>3
  <2>2. CASE ~ \E s \in Session : JoinHousehold(s)
    <3>1. UNCHANGED admitted
      BY <1>1, <2>2
         DEF HouseholdNext, householdVars, rows, Register, Age, AuthRequired, RemoveMember, CheckInvite,
             LoadInvitation, Joining, RevokeInvitation, FindByCode, SetCode, CheckLeave,
             LeaveHousehold, ReadMembers, Sweep, Invite, Ends, Goes
    <3> QED  BY <3>1
  <2> QED  BY <2>1, <2>2
<1>2. HouseholdInv /\ [HouseholdNext]_householdVars =>
        [\A i \in Invitation : inv[i].revoked => admitted'[i] = admitted[i]]_householdVars
  BY <1>1
<1> QED  BY <1>2, InvariantHolds, PTL DEF HouseholdSpec, RevokedStaysOut

\* A step that touches memberships joins one user to a household as a member,
\* or gives some users new households.
LEMMA MembershipSteps ==
  ASSUME HouseholdInv, [HouseholdNext]_householdVars
  PROVE  \/ UNCHANGED member
         \/ \E s \in Session :
              /\ Is(s, "join") /\ req[s].user \in User /\ req[s].hh \in live
              /\ member[req[s].user].hh # req[s].hh
              /\ member' = [member EXCEPT ![req[s].user] =
                              [hh |-> req[s].hh, role |-> "member"]]
         \/ \E u \in User : Rehomed([member EXCEPT ![u] = Homeless], live, {u})
         \/ \E s \in Session : Sweep(s)
<1>1. ASSUME NEW u \in User, Register(u)
      PROVE  Rehomed([member EXCEPT ![u] = Homeless], live, {u})
  <2>1. Rehomed(member, live, {u}) /\ member[u] = Homeless
    BY <1>1 DEF Register, HouseholdInv, HouseholdTypeOK
  <2>2. [member EXCEPT ![u] = Homeless] = member
    BY <2>1 DEF HouseholdInv, HouseholdTypeOK
  <2> QED  BY <2>1, <2>2
<1>2. ASSUME NEW s \in Session, JoinHousehold(s)
      PROVE  \/ UNCHANGED member
             \/ /\ Is(s, "join") /\ req[s].user \in User /\ req[s].hh \in live
                /\ member[req[s].user].hh # req[s].hh
                /\ member' = [member EXCEPT ![req[s].user] =
                                [hh |-> req[s].hh, role |-> "member"]]
  <2>1. req[s].user \in User
    BY <1>2 DEF JoinHousehold, Is, HouseholdInv, RequestOK, HouseholdTypeOK
  <2> QED  BY <1>2, <2>1 DEF JoinHousehold
<1>3. ASSUME NEW s \in Session, LeaveHousehold(s)
      PROVE  \E u \in User : Rehomed([member EXCEPT ![u] = Homeless], live, {u})
  <2>1. req[s].user \in User
    BY <1>3 DEF LeaveHousehold, Is, HouseholdInv, RequestOK, HouseholdTypeOK
  <2> QED  BY <1>3, <2>1 DEF LeaveHousehold
<1>4. ASSUME NEW s \in Session, NEW u \in User, RemoveMember(s, u)
      PROVE  Rehomed([member EXCEPT ![u] = Homeless], live, {u})
  BY <1>4 DEF RemoveMember
<1>5. CASE \/ \E i \in Invitation : Age(i)
           \/ \E s \in Session :
                \/ \E u \in User : AuthRequired(s, u) \/ CheckInvite(s, u)
                \/ \E i \in Invitation : LoadInvitation(s, i) \/ RevokeInvitation(s, i)
                \/ \E h \in Household : FindByCode(s, h)
                \/ \E active \in BOOLEAN : SetCode(s, active)
                \/ CheckLeave(s) \/ ReadMembers(s) \/ Invite(s) \/ Ends(s)
           \/ UNCHANGED householdVars
  BY <1>5 DEF householdVars, rows, Age, AuthRequired, CheckInvite, LoadInvitation, Joining,
              RevokeInvitation, FindByCode, SetCode, CheckLeave, ReadMembers, Invite,
              Ends, Goes
<1> QED  BY <1>1, <1>2, <1>3, <1>4, <1>5 DEF HouseholdNext

\* Who owns a household and is still in it after a step still owns it: to
\* accept an invitation to it, or to present its code, changes nothing.
THEOREM OwnersAreNotDemoted == HouseholdSpec => OwnerNotDemoted
<1>1. ASSUME HouseholdInv, [HouseholdNext]_householdVars, NEW u \in User,
             member[u].role = "owner", member'[u].hh = member[u].hh
      PROVE  member'[u].role = "owner"
  <2>1. member \in [User -> Membership] /\ member[u].hh \in used /\ member[u] # Homeless
    BY <1>1 DEF HouseholdInv, HouseholdTypeOK, Homeless
  <2>2. ASSUME NEW M \in [User -> Membership], NEW L, NEW U \in SUBSET User,
               Rehomed(M, L, U), M[u] = Homeless \/ M[u] = member[u]
        PROVE  member'[u].role = "owner"
    <3>1. CASE u \in U
      BY <2>2, <3>1, RehomedFacts, <1>1 DEF HouseholdInv, HouseholdTypeOK
    <3>2. CASE u \notin U
      <4>1. member'[u] = M[u]
        BY <2>2, <3>2, RehomedFacts, <1>1 DEF HouseholdInv, HouseholdTypeOK
      <4>2. Homeless.hh \notin used
        BY <1>1, NoHouseholdAssumption DEF HouseholdInv, HouseholdTypeOK, Homeless
      <4> QED  BY <1>1, <2>1, <2>2, <4>1, <4>2
    <3> QED  BY <3>1, <3>2
  <2>3. ASSUME NEW w \in User, Rehomed([member EXCEPT ![w] = Homeless], live, {w})
        PROVE  member'[u].role = "owner"
    <3>1. [member EXCEPT ![w] = Homeless] \in [User -> Membership]
      BY <2>1 DEF Membership, Homeless
    <3>2. {w} \in SUBSET User
      OBVIOUS
    <3>3. LET M == [member EXCEPT ![w] = Homeless]
          IN  M[u] = Homeless \/ M[u] = member[u]
      BY <2>1
    <3> QED  BY <2>2, <2>3, <3>1, <3>2, <3>3
  <2>4. ASSUME NEW s \in Session, Sweep(s)  PROVE member'[u].role = "owner"
    <3> DEFINE h == req[s].hh
               Gone == [w \in User |-> IF member[w].hh = h THEN Homeless ELSE member[w]]
    <3>1. Rehomed(Gone, live \ {h}, req[s].list)
      BY <2>4 DEF Sweep
    <3>2. Gone \in [User -> Membership] /\ (Gone[u] = Homeless \/ Gone[u] = member[u])
      BY <2>1 DEF Membership, Homeless
    <3>3. req[s].list \in SUBSET User
      BY <1>1 DEF HouseholdInv, RequestOK, HouseholdTypeOK
    <3> HIDE DEF Gone, h
    <3> QED  BY <2>2, <3>1, <3>2, <3>3
  <2>5. ASSUME NEW s \in Session, req[s].user \in User,
               member[req[s].user].hh # req[s].hh,
               member' = [member EXCEPT ![req[s].user] =
                            [hh |-> req[s].hh, role |-> "member"]]
        PROVE  member'[u].role = "owner"
    BY <1>1, <2>1, <2>5
  <2> QED  BY <1>1, <2>3, <2>4, <2>5, MembershipSteps
<1>2. HouseholdInv /\ [HouseholdNext]_householdVars =>
        [\A u \in User : member[u].role = "owner" /\ member'[u].hh = member[u].hh
                           => member'[u].role = "owner"]_householdVars
  BY <1>1
<1> QED  BY <1>2, InvariantHolds, PTL DEF HouseholdSpec, OwnerNotDemoted

\* Nobody loses the membership without another, but whom a dissolution finds
\* in its household and has not listed.
THEOREM OnlyTheUnlistedAreLost == HouseholdSpec => RehomedAtOnce
<1>1. ASSUME HouseholdInv, [HouseholdNext]_householdVars, NEW u \in User,
             member[u] # Homeless, member'[u] = Homeless
      PROVE  \E s \in Session : /\ Is(s, "dissolve") /\ req[s].hh = member[u].hh
                                /\ u \notin req[s].list
  <2>1. member \in [User -> Membership] /\ Homeless.role = "none" /\ Homeless.hh \notin live
    BY <1>1, NoHouseholdAssumption DEF HouseholdInv, HouseholdTypeOK, Homeless
  <2>2. ASSUME NEW M \in [User -> Membership], NEW L, NEW U \in SUBSET User,
               Rehomed(M, L, U)
        PROVE  u \notin U /\ M[u] = Homeless
    BY <1>1, <2>1, <2>2, RehomedFacts DEF HouseholdInv, HouseholdTypeOK
  <2>3. ASSUME NEW w \in User, Rehomed([member EXCEPT ![w] = Homeless], live, {w})
        PROVE  FALSE
    <3>1. [member EXCEPT ![w] = Homeless] \in [User -> Membership]
      BY <2>1 DEF Membership, Homeless
    <3>2. u \notin {w} /\ [member EXCEPT ![w] = Homeless][u] = Homeless
      <4> DEFINE M == [member EXCEPT ![w] = Homeless]
      <4>1. M \in [User -> Membership] /\ Rehomed(M, live, {w}) /\ {w} \in SUBSET User
        BY <2>3, <3>1
      <4> HIDE DEF M
      <4>2. u \notin {w} /\ M[u] = Homeless
        BY <2>2, <4>1
      <4> QED  BY <4>2 DEF M
    <3>3. [member EXCEPT ![w] = Homeless][u] = member[u]
      BY <2>1, <3>2
    <3> QED  BY <1>1, <3>2, <3>3
  <2>4. ASSUME NEW s \in Session, Sweep(s)
        PROVE  Is(s, "dissolve") /\ req[s].hh = member[u].hh /\ u \notin req[s].list
    <3> DEFINE h == req[s].hh
               Gone == [w \in User |-> IF member[w].hh = h THEN Homeless ELSE member[w]]
    <3>1. Rehomed(Gone, live \ {h}, req[s].list) /\ Is(s, "dissolve")
      BY <2>4 DEF Sweep
    <3>2. Gone \in [User -> Membership]
      BY <2>1 DEF Membership, Homeless
    <3>3. req[s].list \in SUBSET User
      BY <1>1 DEF HouseholdInv, RequestOK, HouseholdTypeOK
    <3>4. u \notin req[s].list /\ Gone[u] = Homeless
      <4> HIDE DEF Gone, h
      <4> QED  BY <2>2, <3>1, <3>2, <3>3
    <3>5. member[u].hh = h
      BY <1>1, <3>4
    <3> QED  BY <3>1, <3>4, <3>5
  <2>5. ASSUME NEW s \in Session, req[s].user \in User, req[s].hh \in live,
               member' = [member EXCEPT ![req[s].user] =
                            [hh |-> req[s].hh, role |-> "member"]]
        PROVE  FALSE
    BY <1>1, <2>1, <2>5
  <2> QED  BY <1>1, <2>3, <2>4, <2>5, MembershipSteps
<1>2. HouseholdInv /\ [HouseholdNext]_householdVars =>
        [\A u \in User : member[u] # Homeless /\ member'[u] = Homeless =>
           \E s \in Session : /\ Is(s, "dissolve") /\ req[s].hh = member[u].hh
                              /\ u \notin req[s].list]_householdVars
  BY <1>1
<1> QED  BY <1>2, InvariantHolds, PTL DEF HouseholdSpec, RehomedAtOnce
=============================================================================
